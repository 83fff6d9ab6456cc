------------------------------- MODULE FileMap -------------------------------
(***************************************************************************)
(* The mmap example that shows a part of a file (framebuffer/mmap_test.c): *)
(* the arithmetic of offset and length, where off_t and size_t meet, and   *)
(* what is written.  Numbers are taken modulo the width of size_t.         *)
(***************************************************************************)
EXTENDS Integers

CONSTANTS
  FileSizes, Offsets, Lengths, \* bounds: files and arguments tried
  PageBytes,
  Width                        \* 2^w, the width of size_t

(* Sizes are off_t, the arguments int; a page is no larger than half of    *)
(* what size_t counts.                                                     *)
ASSUME MapAssumption ==
  /\ Width \in Nat \ {0} /\ Width % 2 = 0 /\ PageBytes \in 1 .. Width \div 2
  /\ FileSizes \subseteq 0 .. Width \div 2 - 1
  /\ Offsets \cup Lengths \subseteq -(Width \div 2) .. Width \div 2 - 1

VARIABLES mpc, st_size, arg_offset, arg_length, mlength, shown

mapVars == <<mpc, st_size, arg_offset, arg_length, mlength, shown>>

NoArg == <<>> \* otherwise <<length>>
Smaller(a, b) == IF a < b THEN a ELSE b
pa_offset == arg_offset - (arg_offset % PageBytes)
Mapped == (mlength + arg_offset - pa_offset) % Width

MapInit ==
  /\ mpc = "start" /\ st_size = 0 /\ arg_offset = 0 /\ arg_length = NoArg
  /\ mlength = 0 /\ shown = {}

MapArgs ==
  /\ mpc = "start" /\ mpc' = "parse"
  /\ st_size' \in FileSizes /\ arg_offset' \in Offsets
  /\ arg_length' \in {<<n>> : n \in Lengths} \cup {NoArg}
  /\ UNCHANGED <<mlength, shown>>

MapFails == mpc' = "failure" /\ UNCHANGED <<mlength, shown>>

(* Seeded bug: the end of the file is not looked at.                       *)
Clamped_not ==
  IF arg_length = NoArg THEN st_size - arg_offset ELSE arg_length[1] % Width

(* offset + length wraps when length is negative.                          *)
Clamped ==
  IF arg_length = NoArg THEN st_size - arg_offset
  ELSE LET length == arg_length[1] % Width
       IN  IF (arg_offset + length) % Width > st_size THEN st_size - arg_offset ELSE length

MapParse ==
  /\ mpc = "parse" /\ UNCHANGED <<st_size, arg_offset, arg_length>>
  /\ IF arg_offset >= st_size THEN MapFails
     ELSE mpc' = "map" /\ mlength' = Clamped /\ UNCHANGED shown

(* mmap refuses a negative offset, an empty mapping and one too large.     *)
MapFile ==
  /\ mpc = "map" /\ UNCHANGED <<st_size, arg_offset, arg_length>>
  /\ IF arg_offset < 0 \/ Mapped = 0 \/ Mapped >= Width \div 2 THEN MapFails
     ELSE mpc' = "write" /\ UNCHANGED <<mlength, shown>>

(* write fails, or ends before or at the last mapped page; pages past the  *)
(* end of the file have nothing to show.  Its -1 becomes a size_t when it  *)
(* is compared with the length.                                            *)
MapWrite ==
  LET pages == ((Mapped + PageBytes - 1) \div PageBytes) * PageBytes
      end == pa_offset + pages
      wrote == Smaller(mlength, end - arg_offset)
  IN  /\ mpc = "write" /\ UNCHANGED <<st_size, arg_offset, arg_length, mlength>>
      /\ \E s \in {-1, wrote, wrote \div 2} :
           /\ shown' = IF s = -1 THEN {} ELSE {<<arg_offset, arg_offset + s>>}
           /\ mpc' = IF s % Width = mlength THEN "success" ELSE "failure"

MapNext == MapArgs \/ MapParse \/ MapFile \/ MapWrite
MapSpec == MapInit /\ [][MapNext]_mapVars

-----------------------------------------------------------------------------
(* Properties                                                              *)

(* The program succeeds only when it has shown what was asked for: from    *)
(* offset, length bytes or to the end of the file, and nothing past it; a  *)
(* negative length never shows anything else than the rest.  There is one  *)
(* length with which it may succeed and have shown nothing, -1, from an    *)
(* offset that leaves something to map (lines 44, 51 and 57).              *)
SuccessShowsAsked ==
  mpc = "success" =>
    LET rest == st_size - arg_offset
        asked == IF arg_length = NoArg THEN rest
                 ELSE IF arg_length[1] < 0 THEN rest ELSE Smaller(arg_length[1], rest)
    IN  \/ shown = {<<arg_offset, arg_offset + asked>>}
        \/ shown = {} /\ arg_length = <<-1>> /\ arg_offset % PageBytes >= 2
=============================================================================
