------------------------------- MODULE Latency -------------------------------
(***************************************************************************)
(* The latency test of a sound card (excerpts/alsa-test-latency.c): the    *)
(* options, the search for a buffer size both streams accept, and the loop *)
(* that copies what is captured to playback until enough frames are        *)
(* through or the streams break, when a larger size is tried.  Sizes are   *)
(* in frames, those of the copy loop's buffer in bytes; the card is        *)
(* external.                                                               *)
(***************************************************************************)
EXTENDS Integers

CONSTANTS
  MinArgs, MaxArgs, BufferArgs, PeriodArgs, \* bounds: arguments of -m, -M, -B and -E
  ChannelArgs,     \* bound: arguments of -c
  Formats,         \* bound: what -f sets: the bytes of a sample and of its place
  PlaybackPeriods, CapturePeriods, \* period sizes the card supports
  BufferSizes,     \* buffer sizes it supports
  LoopLimit        \* loop_limit

ASSUME LatAssumption ==
  /\ MinArgs \cup MaxArgs \cup BufferArgs \cup PeriodArgs \cup ChannelArgs \subseteq Int
  /\ Formats \subseteq [width : Nat, bytes : Nat]
  /\ \A S \in {PlaybackPeriods, CapturePeriods, BufferSizes} : S # {} /\ S \subseteq Nat

VARIABLES
  lpc, latency_min, latency_max, buffer_size, period_size, block,
  channels, format,
  malloced, \* the bytes of the buffer
  latency, last_bufsize,
  frames_in, frames_out, lok,
  reach     \* how far into the buffer the program has reached (history)

given == <<latency_min, latency_max, buffer_size, period_size, block, channels, format>>
sizes == <<given, malloced>>
latVars == <<lpc, sizes, latency, last_bufsize, frames_in, frames_out, lok, reach>>

S16_LE == [width |-> 2, bytes |-> 2]
FrameBytes == channels * format.bytes

Larger(a, b) == IF a > b THEN a ELSE b
Far(a, b) == IF a > b THEN a - b ELSE b - a
(* ..._near: the nearest supported value                                   *)
Near(S, v) == CHOOSE s \in S : \A t \in S : Far(s, v) < Far(t, v) \/ (Far(s, v) = Far(t, v) /\ s <= t)

LatInit ==
  /\ lpc = "options" /\ latency_min = 4 /\ latency_max = 8
  /\ buffer_size = 0 /\ period_size = 0 /\ block = FALSE
  /\ channels = 2 /\ format = S16_LE /\ malloced = 0 /\ reach = 0
  /\ latency = 0 /\ last_bufsize = 0 /\ frames_in = 0 /\ frames_out = 0 /\ lok = TRUE

Rest == UNCHANGED <<last_bufsize, frames_in, frames_out, lok, reach>>

-----------------------------------------------------------------------------
(* The options, in any order and number                                    *)

OptionMin(arg) ==
  /\ lpc = "options" /\ latency_min' = Larger(arg \div 2, 4)
  /\ latency_max' = Larger(latency_max, latency_min')
  /\ UNCHANGED <<lpc, buffer_size, period_size, block, channels, format, malloced, latency>> /\ Rest
OptionMax(arg) ==
  /\ lpc = "options" /\ latency_max' = Larger(latency_min, arg \div 2)
  /\ UNCHANGED <<lpc, latency_min, buffer_size, period_size, block, channels, format, malloced,
                 latency>> /\ Rest

OptionSizes ==
  /\ lpc = "options"
  /\ \/ \E arg \in BufferArgs : buffer_size' = arg /\ UNCHANGED <<period_size, block, channels, format>>
     \/ \E arg \in PeriodArgs : period_size' = arg /\ UNCHANGED <<buffer_size, block, channels, format>>
     \/ block' = TRUE /\ UNCHANGED <<buffer_size, period_size, channels, format>>
     \/ /\ \E arg \in ChannelArgs : channels' = IF arg \in 1 .. 1023 THEN arg ELSE 1
        /\ UNCHANGED <<buffer_size, period_size, block, format>>
     \/ format' \in Formats /\ UNCHANGED <<buffer_size, period_size, block, channels>>
  /\ UNCHANGED <<lpc, latency_min, latency_max, malloced, latency>> /\ Rest

(* The buffer is for two channels, however many there are.                 *)
Start ==
  /\ lpc = "options" /\ lpc' = "setparams"
  /\ latency' = latency_min - 4
  /\ malloced' = (latency_max * format.width) * 2
  /\ UNCHANGED given /\ Rest

-----------------------------------------------------------------------------
(* setparams                                                               *)

(* An error of the card in setparams_stream or setparams_set, or of        *)
(* snd_pcm_prepare, ends the program.                                      *)
Refused ==
  /\ lpc \in {"setparams", "again", "set_it"} /\ lpc' = "exit"
  /\ UNCHANGED <<sizes, latency>> /\ Rest

setparams ==
  /\ lpc = "setparams"
  /\ last_bufsize' = latency
  /\ IF buffer_size > 0 THEN latency' = buffer_size /\ lpc' = "set_it"
     ELSE lpc' = "again" /\ UNCHANGED latency
  /\ UNCHANGED <<sizes, frames_in, frames_out, lok, reach>>

(* Seeded bug: the larger size is not capped by latency_max.               *)
again_unbounded ==
  /\ lpc = "again"
  /\ IF buffer_size > 0 THEN lpc' = "close" /\ UNCHANGED <<latency, last_bufsize>>
     ELSE /\ latency' = IF last_bufsize = latency THEN latency + 4 ELSE latency
          /\ last_bufsize' = latency'
          /\ lpc' = IF latency > latency_max THEN "close" ELSE "set_it"
  /\ UNCHANGED <<sizes, frames_in, frames_out, lok, reach>>

(* Seeded bug: the size tried again is the one that broke.                 *)
again_same ==
  /\ lpc = "again"
  /\ IF buffer_size > 0 THEN lpc' = "close" /\ UNCHANGED <<latency, last_bufsize>>
     ELSE /\ last_bufsize' = latency
          /\ lpc' = IF latency > latency_max THEN "close" ELSE "set_it"
          /\ UNCHANGED latency
  /\ UNCHANGED <<sizes, frames_in, frames_out, lok, reach>>

again ==
  /\ lpc = "again"
  /\ IF buffer_size > 0 THEN lpc' = "close" /\ UNCHANGED <<latency, last_bufsize>>
     ELSE /\ latency' = IF last_bufsize = latency THEN latency + 4 ELSE latency
          /\ last_bufsize' = latency'
          /\ lpc' = IF latency' > latency_max THEN "close" ELSE "set_it"
  /\ UNCHANGED <<sizes, frames_in, frames_out, lok, reach>>

(* setparams_bufsize: buffer and period size for a wanted size             *)
setparams_bufsize(Periods, bufsize) ==
  LET size == Near(BufferSizes, 2 * bufsize)
      want == IF period_size > 0 THEN period_size ELSE size \div 2
  IN  [size |-> size, period |-> Near(Periods, want)]

(* The periods must take the same time, and two of them fill the buffer.   *)
set_it ==
  LET p == setparams_bufsize(PlaybackPeriods, latency)
      c == setparams_bufsize(CapturePeriods, latency)
  IN  /\ lpc = "set_it"
      /\ latency' = Larger(latency, Larger(p.period, c.period))
      /\ lpc' = IF p.period # c.period \/ p.period * 2 < p.size \/ c.period * 2 < c.size
                THEN "again" ELSE "write"
      /\ UNCHANGED sizes /\ Rest

-----------------------------------------------------------------------------
(* main                                                                    *)

(* writebuf: all of it, or an error before the last frame.  What the card  *)
(* has not taken at once is looked for 4 bytes further per frame, however  *)
(* long a frame is; all but one frame at first is the longest way.         *)
writebuf(len) ==
  \/ frames_out' = frames_out + len /\ UNCHANGED lok
  \/ frames_out' \in {frames_out, frames_out + len - 1} /\ lok' = FALSE
Ends(len) == {len * FrameBytes, 4 * (len - 1) + FrameBytes}
Reaches(len) == \E e \in Ends(len) : reach' = Larger(reach, e)

(* Two buffers of silence before the streams start together.               *)
WriteSilence ==
  /\ lpc = "write" /\ frames_in' = 0
  /\ \/ /\ frames_out' = 2 * latency /\ lok' = TRUE /\ lpc' = "loop"
     \/ /\ frames_out' \in {0, 2 * latency - 1}
        /\ lpc' = "close" /\ UNCHANGED lok
  /\ Reaches(latency)
  /\ UNCHANGED <<sizes, latency, last_bufsize>>

(* readbuf: in block mode reads until the buffer is full, but returns what *)
(* the last read did.                                                      *)
Chunks == {1, latency} \* bound: a read gets one frame or all
Reads == IF block THEN {<<latency, r>> : r \in Chunks} ELSE {<<t, t>> : t \in Chunks}

Copy ==
  /\ lpc = "loop" /\ lok /\ frames_in < LoopLimit
  /\ \/ \E tr \in Reads : frames_in' = frames_in + tr[1] /\ writebuf(tr[2]) /\ Reaches(tr[2])
     \/ /\ lok' = FALSE /\ UNCHANGED <<frames_out, reach>>
        /\ \E t \in IF block THEN {0, latency - 1} ELSE {0} : frames_in' = frames_in + t
  /\ UNCHANGED <<lpc, sizes, latency, last_bufsize>>

(* Enough, or the streams broke: then the next size.                       *)
Report ==
  /\ lpc = "loop" /\ ~(lok /\ frames_in < LoopLimit)
  /\ lpc' = IF lok THEN "close" ELSE "setparams"
  /\ UNCHANGED <<sizes, latency>> /\ Rest

LatProgram == setparams \/ again \/ set_it \/ WriteSilence \/ Copy \/ Report
LatNext ==
  \/ \E arg \in MinArgs : OptionMin(arg)
  \/ \E arg \in MaxArgs : OptionMax(arg)
  \/ OptionSizes \/ Start \/ Refused \/ LatProgram

LatSpec == LatInit /\ [][LatNext]_latVars

-----------------------------------------------------------------------------
(* Properties                                                              *)

(* The buffer is malloced for latency_max frames of two channels, 16 bits  *)
(* or more each.  It holds what is read into it and written from it as     *)
(* long as the program is run like that: without -B, with -c of two at     *)
(* most, a format of such samples (a packed one), and a card that can do   *)
(* periods of at most latency_max.  Otherwise it need not: the size tried  *)
(* is then -B's or the card's, whatever -M says, a frame is longer, or     *)
(* writebuf steps too far.                                                 *)
AsMalloced ==
  /\ buffer_size = 0 /\ channels <= 2
  /\ format.width = format.bytes /\ format.width >= 2
  /\ \A s \in PlaybackPeriods \cup CapturePeriods : s <= latency_max
BufferFits == AsMalloced => reach <= malloced

(* What is captured is played once, after the two buffers of silence.      *)
(* Block mode loses what all reads of a round but the last captured: it    *)
(* plays something of every round, and no more than was captured.          *)
CapturedIsPlayed ==
  lpc = "loop" /\ lok =>
    LET played == frames_out - 2 * latency
    IN  /\ played <= frames_in /\ (played = 0 <=> frames_in = 0)
        /\ ~block => played = frames_in

(* In the default set-up the copy loop stays in its buffer; in all it      *)
(* plays nothing that it has not captured.                                 *)
CopyLoopRight == BufferFits /\ CapturedIsPlayed

(* The search ends, whatever the card supports and however often the       *)
(* streams break, unless -B fixes a size, which is tried for ever.         *)
SearchEnds == lpc = "setparams" /\ buffer_size = 0 ~> lpc \in {"close", "exit"}
=============================================================================
