-------------------------------- MODULE KvStore --------------------------------
(***************************************************************************)
(* What db_store promises several processes: each call takes effect at     *)
(* once, at some moment before it returns, and its result tells which.     *)
(* A process that dies may leave its call undone or, when it replaces a    *)
(* record by one of another length, the key without a record.              *)
(***************************************************************************)
EXTENDS Integers
CONSTANTS Procs, Keys, Datas, Absent, Pending, None

VARIABLES
  store, \* the data of each key
  op,    \* the call each process is in
  rc     \* its result, once it has taken effect

kvVars == <<store, op, rc>>

KvInit ==
  /\ store = [k \in Keys |-> Absent]
  /\ op = [p \in Procs |-> None] /\ rc = [p \in Procs |-> Pending]

Begin(p, call) ==
  /\ op[p] = None /\ op' = [op EXCEPT ![p] = call]
  /\ UNCHANGED <<store, rc>>

Returns(p, n) == rc' = [rc EXCEPT ![p] = n] /\ UNCHANGED op

Effect(p) ==
  /\ op[p] # None /\ rc[p] = Pending
  /\ LET present == store[op[p].key] # Absent
     IN  \/ present /\ "insert" \in op[p].flag /\ Returns(p, 1) /\ UNCHANGED store
         \/ ~present /\ "replace" \in op[p].flag /\ Returns(p, -1) /\ UNCHANGED store
         \/ /\ IF present THEN "insert" \notin op[p].flag ELSE "replace" \notin op[p].flag
            /\ store' = [store EXCEPT ![op[p].key] = op[p].data] /\ Returns(p, 0)

Return(p) ==
  /\ rc[p] # Pending /\ rc' = [rc EXCEPT ![p] = Pending] /\ op' = [op EXCEPT ![p] = None]
  /\ UNCHANGED store

Die(p) ==
  /\ op[p] # None /\ op' = [op EXCEPT ![p] = None] /\ rc' = [rc EXCEPT ![p] = Pending]
  /\ \/ UNCHANGED store
     \/ /\ rc[p] = Pending /\ "insert" \notin op[p].flag
        /\ store' = [store EXCEPT ![op[p].key] = Absent]

KvNext ==
  \E p \in Procs :
    \/ \E k \in Keys, d \in Datas, f \in SUBSET {"insert", "replace"} :
         Begin(p, [key |-> k, data |-> d, flag |-> f])
    \/ Effect(p) \/ Return(p) \/ Die(p)
KvSpec == KvInit /\ [][KvNext]_kvVars
=============================================================================
