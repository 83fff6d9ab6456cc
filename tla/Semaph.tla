------------------------------- MODULE Semaph -------------------------------
(***************************************************************************)
(* The System V semaphore interface of lib.sun/semaph.c, for one key.      *)
(*                                                                         *)
(* sem_create, sem_open, sem_op (sem_wait, sem_signal), sem_close and      *)
(* sem_rm are sequences of system calls; one action is one system call of  *)
(* one process, or its failure.  A set has three members: `sem' is [0],    *)
(* the semaphore itself, `count' is [1], the counter of processes, and     *)
(* `lock' is [2].  The kernel keeps for every process an adjustment of     *)
(* every member (SEM_UNDO), which it applies when the process exits.       *)
(* A process may exit or be killed between any two calls.                  *)
(***************************************************************************)
EXTENDS Integers, FiniteSets, FiniteSetsExt

CONSTANTS
  Procs,            \* the processes that use the key
  Creators,         \* those that attach with sem_create
  Openers,          \* those that attach with sem_open
  Removers,         \* those that may call sem_rm
  InitVal,          \* the initval every creator passes
  BIGCOUNT,         \* initial value of the process counter (10000 in the code)
  Amounts,          \* the amounts passed to sem_op
  HoldMin, HoldMax, \* bounds on what one process has taken and not given back
  MaxId             \* bound: sets that are created in a behaviour

ASSUME ProcsAssumption ==
  /\ IsFiniteSet(Procs)
  /\ Creators \subseteq Procs /\ Openers \subseteq Procs /\ Removers \subseteq Procs

ASSUME ValuesAssumption ==
  /\ InitVal \in Nat /\ MaxId \in Nat /\ BIGCOUNT \in Nat \ {0}
  /\ Amounts \subseteq Int \ {0}
  /\ HoldMin \in Int /\ HoldMax \in Int /\ HoldMin <= 0 /\ 0 <= HoldMax

VARIABLES
  made,   \* number of sets created so far; the last one has the id `made'
  live,   \* the set with the id `made' exists
  val,    \* the values of its members
  undo,   \* undo[p]: the kernel's exit adjustment of the members for p
  pc,     \* where p is in the routines of semaph.c
  sid,    \* sid[p]: the id p holds, 0 for none
  held    \* held[p]: what p took from [0] and has not given back

vars == <<made, live, val, undo, pc, sid, held>>

Members == [sem : Int, count : Int, lock : Int]
Zero == [sem |-> 0, count |-> 0, lock |-> 0]

(* Program points at which a process has exited: exit(1) from err_sys,     *)
(* abort from err_dump, or an exit or signal of its own.                   *)
Gone == {"failed", "dumped", "exited"}
(* Program points at which a process owns [2].                             *)
LockedPoints == {"getval", "setval0", "setval1", "endcreate",
                 "closeval", "rm", "unlock"}
Points == {"idle", "again", "lock", "locksleep", "open", "ready"}
            \cup LockedPoints \cup Gone

(* A definition with a suffixed name (op_lock_nowait) is a seeded bug: the   *)
(* definition after it as a programmer might have got it wrong.            *)

(* The operation arrays: `zero' is the leading wait for [2] to equal 0.    *)
Op(z, s, c, l) == [zero |-> z, sem |-> s, count |-> c, lock |-> l]

op_lock_nowait == Op(FALSE, 0, 0, 1)
op_lock == Op(TRUE, 0, 0, 1)

op_endcreate_uncounted == Op(FALSE, 0, 0, -1)
op_endcreate_keeplock == Op(FALSE, 0, -1, 0)
op_endcreate == Op(FALSE, 0, -1, -1)

op_open == Op(FALSE, 0, -1, 0)

op_close_unlocked == Op(FALSE, 0, 1, 0)
op_close == Op(TRUE, 0, 1, 1)
op_unlock == Op(FALSE, 0, 0, -1)
op_op(amount) == Op(FALSE, amount, 0, 0)

-----------------------------------------------------------------------------
(* The system calls.                                                       *)

(* The id p holds names the set that exists.                               *)
HasSet(p) == live /\ sid[p] = made

Plus(v, op)  == [sem |-> v.sem + op.sem, count |-> v.count + op.count,
                 lock |-> v.lock + op.lock]
Minus(v, op) == [sem |-> v.sem - op.sem, count |-> v.count - op.count,
                 lock |-> v.lock - op.lock]

SetSem(v, n)   == [sem |-> n, count |-> v.count, lock |-> v.lock]
SetCount(v, n) == [sem |-> v.sem, count |-> n, lock |-> v.lock]

(* semop succeeds: all operations of the array at once, each with SEM_UNDO *)
CanSemop(op) ==
  /\ op.zero => val.lock = 0
  /\ val.sem + op.sem >= 0 /\ val.count + op.count >= 0 /\ val.lock + op.lock >= 0

Semop(p, op) ==
  /\ HasSet(p) /\ CanSemop(op)
  /\ val' = Plus(val, op)
  /\ undo' = [undo EXCEPT ![p] = Minus(undo[p], op)]

(* IPC_RMID: sleepers are woken, adjustments of the set are dropped.       *)
RemoveSet ==
  /\ live' = FALSE
  /\ val' = Zero
  /\ undo' = [q \in Procs |-> Zero]

(* What [0] may be once an exiting process is adjusted.  A result below 0  *)
(* is stored as 0 by some kernels and not stored at all by others.         *)
AdjustedSem(p) ==
  IF val.sem + undo[p].sem >= 0 THEN {val.sem + undo[p].sem} ELSE {0, val.sem}

(* Process p is gone: the kernel applies its adjustments.                  *)
Die(p, how) ==
  /\ \E s \in AdjustedSem(p) :
       val' = [sem |-> s, count |-> val.count + undo[p].count,
               lock |-> val.lock + undo[p].lock]
  /\ undo' = [undo EXCEPT ![p] = Zero]
  /\ pc' = [pc EXCEPT ![p] = how]
  /\ sid' = [sid EXCEPT ![p] = 0]
  /\ held' = [held EXCEPT ![p] = 0]
  /\ UNCHANGED <<made, live>>

err_sys(p)  == Die(p, "failed")
err_dump(p) == Die(p, "dumped")

(* p goes on to point l; the set's existence and what p holds stay.        *)
GoTo(p, l) == pc' = [pc EXCEPT ![p] = l] /\ UNCHANGED <<made, live, sid, held>>

-----------------------------------------------------------------------------
(* sem_create                                                              *)

(* again: semget(IPC_CREAT) finds the set ...                              *)
CreateFind(p) ==
  /\ p \in Creators /\ pc[p] \in {"idle", "again"}
  /\ live
  /\ sid' = [sid EXCEPT ![p] = made]
  /\ pc' = [pc EXCEPT ![p] = "lock"]
  /\ UNCHANGED <<made, live, val, undo, held>>

(* ... or makes a new one, whose members are all 0.                        *)
CreateMake(p) ==
  /\ p \in Creators /\ pc[p] \in {"idle", "again"}
  /\ ~live /\ made < MaxId
  /\ made' = made + 1 /\ live' = TRUE /\ val' = Zero
  /\ sid' = [sid EXCEPT ![p] = made + 1]
  /\ pc' = [pc EXCEPT ![p] = "lock"]
  /\ UNCHANGED <<undo, held>>

(* semget fails (tables full): return -1.  From "idle" nothing changes.    *)
CreateRefused(p) ==
  /\ pc[p] = "again" /\ ~live
  /\ pc' = [pc EXCEPT ![p] = "idle"]
  /\ sid' = [sid EXCEPT ![p] = 0]
  /\ UNCHANGED <<made, live, val, undo, held>>

(* The semop on op_lock: it succeeds, at once or after a sleep, ...        *)
CreateLock(p) ==
  /\ pc[p] \in {"lock", "locksleep"}
  /\ Semop(p, op_lock)
  /\ GoTo(p, "getval")

(* ... or goes to sleep until [2] is 0, ...                                *)
CreateSleep(p) ==
  /\ pc[p] = "lock"
  /\ HasSet(p) /\ ~CanSemop(op_lock)
  /\ GoTo(p, "locksleep")
  /\ UNCHANGED <<val, undo>>

(* ... or finds the id invalid (EINVAL): go back and create it again.      *)
CreateAgain(p) ==
  /\ pc[p] = "lock" /\ ~HasSet(p)
  /\ GoTo(p, "again")
  /\ UNCHANGED <<val, undo>>

(* GETVAL of [1]: 0 means that nobody has initialised the set.             *)
CreateGetval_always(p) ==
  /\ pc[p] = "getval" /\ HasSet(p)
  /\ GoTo(p, "setval0")
  /\ UNCHANGED <<val, undo>>

CreateGetval(p) ==
  /\ pc[p] = "getval" /\ HasSet(p)
  /\ GoTo(p, IF val.count = 0 THEN "setval0" ELSE "endcreate")
  /\ UNCHANGED <<val, undo>>

(* SETVAL of [0] drops every process's adjustment of [0]; so for [1].      *)
CreateSetval0_skipped(p) ==
  /\ pc[p] = "setval0" /\ HasSet(p)
  /\ GoTo(p, "setval1")
  /\ UNCHANGED <<val, undo>>

CreateSetval0(p) ==
  /\ pc[p] = "setval0" /\ HasSet(p)
  /\ val' = SetSem(val, InitVal)
  /\ undo' = [q \in Procs |-> SetSem(undo[q], 0)]
  /\ GoTo(p, "setval1")

CreateSetval1(p) ==
  /\ pc[p] = "setval1" /\ HasSet(p)
  /\ val' = SetCount(val, BIGCOUNT)
  /\ undo' = [q \in Procs |-> SetCount(undo[q], 0)]
  /\ GoTo(p, "endcreate")

(* Count this process and release the lock, in one semop; return the id.   *)
CreateEnd(p) ==
  /\ pc[p] = "endcreate"
  /\ Semop(p, op_endcreate)
  /\ GoTo(p, "ready")

-----------------------------------------------------------------------------
(* sem_open: semget without IPC_CREAT; -1 if there is no set.              *)
OpenFind(p) ==
  /\ p \in Openers /\ pc[p] = "idle" /\ live
  /\ sid' = [sid EXCEPT ![p] = made]
  /\ pc' = [pc EXCEPT ![p] = "open"]
  /\ UNCHANGED <<made, live, val, undo, held>>

(* The semop on op_open, which waits while [1] is 0; return the id.        *)
OpenCount(p) ==
  /\ pc[p] = "open"
  /\ Semop(p, op_open)
  /\ GoTo(p, "ready")

(* sem_op, sem_wait and sem_signal.                                        *)
SemOp(p) ==
  /\ pc[p] = "ready"
  /\ \E n \in Amounts :
       /\ held[p] - n \in HoldMin .. HoldMax
       /\ Semop(p, op_op(n))
       /\ held' = [held EXCEPT ![p] = held[p] - n]
  /\ UNCHANGED <<made, live, pc, sid>>

(* sem_rm, called by a server that is being shut down.                     *)
SemRm(p) ==
  /\ p \in Removers /\ pc[p] = "ready" /\ HasSet(p) /\ held[p] = 0
  /\ RemoveSet
  /\ pc' = [pc EXCEPT ![p] = "idle"]
  /\ sid' = [sid EXCEPT ![p] = 0]
  /\ UNCHANGED <<made, held>>

-----------------------------------------------------------------------------
(* sem_close, called by a process that has given back what it took: get    *)
(* the lock and uncount this process, in one semop.                        *)
CloseLock(p) ==
  /\ pc[p] = "ready" /\ held[p] = 0
  /\ Semop(p, op_close)
  /\ GoTo(p, "closeval")

CloseGetval_early(p) ==
  /\ pc[p] = "closeval" /\ HasSet(p)
  /\ IF val.count > BIGCOUNT
     THEN err_dump(p)
     ELSE /\ GoTo(p, IF val.count >= BIGCOUNT - 1 THEN "rm" ELSE "unlock")
          /\ UNCHANGED <<val, undo>>

(* GETVAL of [1] tells whether this was the last reference.                *)
CloseGetval(p) ==
  /\ pc[p] = "closeval" /\ HasSet(p)
  /\ IF val.count > BIGCOUNT
     THEN err_dump(p)
     ELSE /\ GoTo(p, IF val.count = BIGCOUNT THEN "rm" ELSE "unlock")
          /\ UNCHANGED <<val, undo>>

CloseRemove(p) ==
  /\ pc[p] = "rm" /\ HasSet(p)
  /\ RemoveSet
  /\ pc' = [pc EXCEPT ![p] = "idle"]
  /\ sid' = [sid EXCEPT ![p] = 0]
  /\ UNCHANGED <<made, held>>

CloseUnlock(p) ==
  /\ pc[p] = "unlock"
  /\ Semop(p, op_unlock)
  /\ pc' = [pc EXCEPT ![p] = "idle"]
  /\ sid' = [sid EXCEPT ![p] = 0]
  /\ UNCHANGED <<made, live, held>>

(* Every other call on an id whose set is gone, asleep in it or about to   *)
(* make it, ends in err_sys.  Only the EINVAL of "lock" is handled.        *)
CallFails(p) ==
  /\ pc[p] \in {"locksleep", "open", "ready"} \cup LockedPoints
  /\ ~HasSet(p)
  /\ err_sys(p)

(* The process exits or is killed, wherever it is.                         *)
Exit(p) == pc[p] \notin Gone /\ Die(p, "exited")

-----------------------------------------------------------------------------
Init ==
  /\ made = 0 /\ live = FALSE /\ val = Zero
  /\ undo = [p \in Procs |-> Zero]
  /\ pc = [p \in Procs |-> "idle"]
  /\ sid = [p \in Procs |-> 0]
  /\ held = [p \in Procs |-> 0]

SemCreate(p) ==
  \/ CreateFind(p)   \/ CreateMake(p)    \/ CreateRefused(p) \/ CreateLock(p)
  \/ CreateSleep(p)  \/ CreateAgain(p)   \/ CreateGetval(p)  \/ CreateSetval0(p)
  \/ CreateSetval1(p) \/ CreateEnd(p)

SemClose(p) ==
  CloseLock(p) \/ CloseGetval(p) \/ CloseRemove(p) \/ CloseUnlock(p)

Next == \E p \in Procs :
  \/ SemCreate(p) \/ OpenFind(p) \/ OpenCount(p) \/ SemOp(p) \/ SemRm(p)
  \/ SemClose(p)  \/ CallFails(p) \/ Exit(p)

Spec == Init /\ [][Next]_vars

(* A process that owns the lock runs on: its calls return.  Nothing else   *)
(* is promised of the scheduler.                                           *)
LockedStep(p) ==
  /\ pc[p] \in LockedPoints
  /\ \/ CreateGetval(p) \/ CreateSetval0(p) \/ CreateSetval1(p) \/ CreateEnd(p)
     \/ CloseGetval(p)  \/ CloseRemove(p)   \/ CloseUnlock(p)   \/ CallFails(p)

FairSpec == Spec /\ \A p \in Procs : WF_vars(LockedStep(p))

-----------------------------------------------------------------------------
(* Type correctness: the values of the members, the adjustments, the       *)
(* program points and the ids stay within their types.                     *)
TypeOK ==
  /\ made \in 0 .. MaxId
  /\ live \in BOOLEAN
  /\ val \in Members
  /\ undo \in [Procs -> Members]
  /\ pc \in [Procs -> Points]
  /\ sid \in [Procs -> 0 .. MaxId]
  /\ held \in [Procs -> HoldMin .. HoldMax]

Locked(p) == HasSet(p) /\ pc[p] \in LockedPoints

(* The processes the counter [1] counts.                                   *)
Users == {p \in Procs : HasSet(p) /\ pc[p] = "ready"}

(* [2] is a lock (semaph.c:26-28): at any time at most one process is      *)
(* inside the sections of sem_create and sem_close it protects, [2] is 1   *)
(* exactly then, and only that process would release it by exiting.        *)
LockHeldByOne ==
  /\ \A p, q \in Procs : Locked(p) /\ Locked(q) => p = q
  /\ val.lock = IF \E p \in Procs : Locked(p) THEN 1 ELSE 0
  /\ \A p \in Procs : undo[p].lock = IF Locked(p) THEN -1 ELSE 0

(* [1] counts the users downwards from BIGCOUNT (semaph.c:14-18), whatever *)
(* way they come and go: create, open, close, exit; before the set is      *)
(* initialised it is 0 and nobody uses the set.                            *)
CountMatchesUsers ==
  /\ \/ val.count = 0 /\ Users = {}
     \/ live /\ val.count = BIGCOUNT - Cardinality(Users)
  /\ \A p \in Procs : undo[p].count = IF p \in Users THEN 1 ELSE 0

(* The comments at semaph.c:86 and 132: a set that someone uses is never   *)
(* initialised again; a creator about to do so, or in the middle of it,    *)
(* finds no user of the set.                                               *)
InitialisedUnused ==
  \A p \in Procs : Locked(p) /\ pc[p] \in {"setval0", "setval1"} => Users = {}

(* The comment at semaph.c:219-220: sem_close removes the set only if this *)
(* was the last reference, so no process that has the set open loses it.   *)
RemovedUnused ==
  [][ (\E p \in Procs : CloseRemove(p)) => Users = {} ]_vars

(* What makes the two inductive: ids are never ahead of the sets, and the  *)
(* counter is 0 while a creator initialises the set and right, even when   *)
(* the set has no user, once a process with the lock is past that.         *)
LockInv == TypeOK /\ LockHeldByOne /\ \A p \in Procs : sid[p] <= made

Counted == val.count = BIGCOUNT - Cardinality(Users)

Phase(p) == Locked(p) =>
  /\ pc[p] \in {"setval0", "setval1"} => val.count = 0 /\ Users = {}
  /\ pc[p] \in {"endcreate", "closeval", "rm", "unlock"} => Counted

CountInv == CountMatchesUsers /\ \A p \in Procs : Phase(p)

(* The counter has room for every process: what makes 0 mean uninitialised *)
FewProcs == Cardinality(Procs) <= BIGCOUNT

(* Without openers nobody attaches without the lock.                       *)
LastInv ==
  \A p \in Procs :
    /\ Locked(p) /\ pc[p] = "rm" => Users = {}
    /\ pc[p] = "open" => p \in Openers

(* What the whole interface is for: over all processes, never more than    *)
(* InitVal units are taken and not given back; exits give units back, and  *)
(* a set that is removed and created again does not double them.           *)
NeverOverdrawn == MapThenSumSet(LAMBDA p : held[p], Procs) <= InitVal

(* The value of the counter the processes share: [0] once it has been      *)
(* initialised, InitVal while there is no set or a fresh one.              *)
Level == IF live /\ (val.count > 0 \/ Users # {}) THEN val.sem ELSE InitVal

Shared == INSTANCE SharedSem WITH users <- Users, level <- Level, hold <- held

(* The processes that attach with sem_create cannot tell the set, which is *)
(* created, initialised in two steps, removed and created again, from one  *)
(* counter that is always there (semaph.c:2-29).                           *)
ImplementsShared == Shared!SSpec

(* The lock is always released, by the owner's next calls or by its exit:  *)
(* the semop that ends sem_create, which also waits for [1] to be          *)
(* positive, never sleeps forever with the lock in its hands.              *)
LockReleased == (val.lock > 0) ~> (val.lock = 0)
=============================================================================
