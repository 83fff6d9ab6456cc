------------------------------ MODULE SharedSem ------------------------------
(***************************************************************************)
(* What semaph.c promises to the processes that share a key and attach     *)
(* with sem_create: one counter that is there for whoever uses it.  Whoever *)
(* comes first creates and initialises it, whoever leaves last removes it, *)
(* and none of that is visible; what a process that exits had taken comes  *)
(* back.  `level' is what can still be taken, `hold' what each process has *)
(* taken.                                                                  *)
(***************************************************************************)
EXTENDS Integers

CONSTANTS Procs, InitVal, Amounts, HoldMax

VARIABLES users, level, hold

svars == <<users, level, hold>>

SInit ==
  /\ users = {}
  /\ level = InitVal
  /\ hold = [p \in Procs |-> 0]

Attach(p) ==
  /\ p \notin users
  /\ users' = users \cup {p}
  /\ UNCHANGED <<level, hold>>

Operate(p) ==
  /\ p \in users
  /\ \E n \in Amounts :
       /\ level + n >= 0 /\ hold[p] - n \in 0 .. HoldMax
       /\ level' = level + n
       /\ hold' = [hold EXCEPT ![p] = hold[p] - n]
  /\ UNCHANGED users

Detach(p) ==
  /\ p \in users /\ hold[p] = 0
  /\ users' = users \ {p}
  /\ UNCHANGED <<level, hold>>

Crash(p) ==
  /\ p \in users
  /\ users' = users \ {p}
  /\ level' = level + hold[p]
  /\ hold' = [hold EXCEPT ![p] = 0]

SNext == \E p \in Procs : Attach(p) \/ Operate(p) \/ Detach(p) \/ Crash(p)

SSpec == SInit /\ [][SNext]_svars
=============================================================================
