-------------------------------- MODULE AtExit --------------------------------
(* atexit and exit of lib.sun: tables of ATEXIT_SIZE functions, linked     *)
(* from one to the next.                                                   *)
EXTENDS Naturals, Sequences

CONSTANTS
  ATEXIT_SIZE,
  Funcs,        \* the functions that are registered
  MaxFuncs,     \* bound: how many times
  Garbage       \* bound: what malloc leaves in a table's ind, if it is a place of the table

VARIABLES
  tables,    \* every table: ind, fns (0 is no function) and next
  head,      \* __atexit: the index of a table, or 0
  asked,     \* history: what was registered with success
  called,    \* what exit has called
  exiting    \* "no", "calls", "done"; "crash" for a call of no function

exitVars == <<tables, head, asked, called, exiting>>

NoFunc == "none"
ASSUME ExitAssumption ==
  ATEXIT_SIZE \in Nat \ {0} /\ NoFunc \notin Funcs /\ Garbage \subseteq 0 .. ATEXIT_SIZE - 1
Table(ind) == [ind |-> ind, fns |-> [i \in 0 .. ATEXIT_SIZE - 1 |-> NoFunc], next |-> 0]

ExitInit ==
  /\ tables = <<Table(0)>> /\ head = 0 /\ asked = <<>> /\ called = <<>> /\ exiting = "no"

(* The first table is static.  When the newest is full another is made,    *)
(* whose ind is whatever was there, and the full one points to it.  (When  *)
(* malloc fails nothing is changed.)                                       *)
Overflow == [p |-> Len(tables) + 1, grown |-> TRUE]

(* Seeded bug: the last place of a table is not used.                      *)
Slot_early == IF head = 0 THEN [p |-> 1, grown |-> FALSE]
              ELSE IF tables[head].ind >= ATEXIT_SIZE - 1 THEN Overflow
              ELSE [p |-> head, grown |-> FALSE]

Slot == IF head = 0 THEN [p |-> 1, grown |-> FALSE]
        ELSE IF tables[head].ind >= ATEXIT_SIZE THEN Overflow
        ELSE [p |-> head, grown |-> FALSE]

atexit(fn) ==
  /\ exiting = "no" /\ Len(asked) < MaxFuncs
  /\ \E ind \in IF Slot.grown THEN Garbage ELSE {tables[Slot.p].ind} :
       LET ts == IF Slot.grown
                 THEN Append([tables EXCEPT ![head].next = Slot.p], Table(ind))
                 ELSE tables
       IN  tables' = [ts EXCEPT ![Slot.p].fns = [@ EXCEPT ![ind] = fn], ![Slot.p].ind = ind + 1]
  /\ head' = Slot.p /\ asked' = Append(asked, fn)
  /\ UNCHANGED <<called, exiting>>

(* exit calls what is in the newest table, last first.                     *)
exit_starts ==
  /\ exiting = "no" /\ exiting' = (IF head = 0 THEN "done" ELSE "calls")
  /\ UNCHANGED <<tables, head, asked, called>>
exit_calls ==
  LET i == tables[head].ind - Len(called)
  IN  /\ exiting = "calls"
      /\ IF i = 0 THEN exiting' = "done" /\ UNCHANGED called
         ELSE IF tables[head].fns[i - 1] = NoFunc THEN exiting' = "crash" /\ UNCHANGED called
         ELSE called' = Append(called, tables[head].fns[i - 1]) /\ UNCHANGED exiting
      /\ UNCHANGED <<tables, head, asked>>

ExitNext == (\E fn \in Funcs : atexit(fn)) \/ exit_starts \/ exit_calls
ExitSpec == ExitInit /\ [][ExitNext]_exitVars

-----------------------------------------------------------------------------
(* What exit calls are the functions registered last, the last of them     *)
(* first: all of them and nothing else, while they fit into the one        *)
(* guaranteed table; none of those in that table as soon as there is       *)
(* another (atexit.c:44-49, exit.c:15-19).                                 *)
CalledInReverse ==
  /\ called = [i \in DOMAIN called |-> asked[Len(asked) + 1 - i]]
  /\ IF Len(asked) <= ATEXIT_SIZE
     THEN exiting # "crash" /\ (exiting = "done" => Len(called) = Len(asked))
     ELSE Len(called) <= Len(asked) - ATEXIT_SIZE
=============================================================================
