--------------------------- MODULE Semaph_proofs ---------------------------
(***************************************************************************)
(* Proofs about Semaph, for any set of processes, any initial value, any   *)
(* amounts and any number of sets.                                         *)
(***************************************************************************)
EXTENDS Semaph, FiniteSetTheorems, WellFoundedInduction, TLAPS

USE DEF Members, Zero, Points, Gone, LockedPoints

(* Exiting leaves every variable in its type.                              *)
LEMMA DieTyping ==
  ASSUME TypeOK, NEW p \in Procs, NEW how \in Gone, Die(p, how)
  PROVE  TypeOK'
<1>1. PICK s \in AdjustedSem(p) :
        val' = [sem |-> s, count |-> val.count + undo[p].count,
                lock |-> val.lock + undo[p].lock]
  BY DEF Die
<1>2. s \in Int
  BY DEF AdjustedSem, TypeOK
<1>3. val' \in Members
  BY <1>1, <1>2 DEF TypeOK
<1> QED
  BY <1>3, ValuesAssumption DEF Die, TypeOK

(* So does a semop with any operation array.                               *)
LEMMA SemopTyping ==
  ASSUME TypeOK, NEW p \in Procs, NEW op,
         op.sem \in Int, op.count \in Int, op.lock \in Int, Semop(p, op)
  PROVE  val' \in Members /\ undo' \in [Procs -> Members]
BY DEF TypeOK, Semop, Plus, Minus

(* A process that goes on to another point, with members and adjustments   *)
(* of their types, keeps every type.                                       *)
LEMMA GoToTyping ==
  ASSUME TypeOK, NEW p \in Procs, NEW l \in Points, GoTo(p, l),
         val' \in Members, undo' \in [Procs -> Members]
  PROVE  TypeOK'
<1>1. pc' \in [Procs -> Points]
  BY DEF GoTo, TypeOK
<1>2. UNCHANGED <<made, live, sid, held>>
  BY DEF GoTo
<1> QED
  BY <1>1, <1>2 DEF TypeOK

(* The program points the actions go to.                                   *)
LEMMA PointsTyping ==
  /\ {"idle", "again", "lock", "locksleep", "open", "ready"} \subseteq Points
  /\ {"getval", "setval0", "setval1", "endcreate"} \subseteq Points
  /\ {"closeval", "rm", "unlock"} \subseteq Points
BY DEF Points, LockedPoints

(* The operation arrays change the members by integers.                    *)
LEMMA Ops ==
  /\ op_lock.sem = 0 /\ op_lock.count = 0 /\ op_lock.lock = 1
  /\ op_endcreate.sem = 0 /\ op_endcreate.count = -1 /\ op_endcreate.lock = -1
  /\ op_open.sem = 0 /\ op_open.count = -1 /\ op_open.lock = 0
  /\ op_close.sem = 0 /\ op_close.count = 1 /\ op_close.lock = 1
  /\ op_unlock.sem = 0 /\ op_unlock.count = 0 /\ op_unlock.lock = -1
  /\ \A n \in Int : op_op(n).sem = n /\ op_op(n).count = 0 /\ op_op(n).lock = 0
  /\ op_lock.zero /\ op_close.zero
BY DEF op_lock, op_endcreate, op_open, op_close, op_unlock, op_op, Op

(* Removing the set leaves its members and adjustments in their types.     *)
LEMMA RemoveTyping ==
  ASSUME RemoveSet
  PROVE  live' \in BOOLEAN /\ val' \in Members /\ undo' \in [Procs -> Members]
<1>1. live' \in BOOLEAN
  BY Zenon DEF RemoveSet
<1>2. val' \in Members /\ undo' \in [Procs -> Members]
  BY DEF RemoveSet
<1> QED
  BY <1>1, <1>2

LEMMA InitTyping == Init => TypeOK
<1> SUFFICES ASSUME Init PROVE TypeOK
  OBVIOUS
<1>1. live \in BOOLEAN
  BY Zenon DEF Init
<1>2. /\ made \in 0 .. MaxId /\ val \in Members /\ undo \in [Procs -> Members]
      /\ pc \in [Procs -> Points] /\ sid \in [Procs -> 0 .. MaxId]
      /\ held \in [Procs -> HoldMin .. HoldMax]
  BY ValuesAssumption DEF Init
<1> QED
  BY <1>1, <1>2 DEF TypeOK

(* Every action of sem_create preserves the types.                         *)
LEMMA CreateTyping ==
  ASSUME TypeOK, NEW p \in Procs, SemCreate(p)
  PROVE  TypeOK'
<1> USE ValuesAssumption
<1>1. CASE CreateFind(p)
  BY <1>1 DEF CreateFind, TypeOK
<1>2. CASE CreateMake(p)
  BY <1>2 DEF CreateMake, TypeOK
<1>3. CASE CreateRefused(p)
  BY <1>3 DEF CreateRefused, TypeOK
<1>4. CASE CreateLock(p)
  <2>1. val' \in Members /\ undo' \in [Procs -> Members]
    BY <1>4, SemopTyping, Ops DEF CreateLock
  <2> QED
    BY <1>4, <2>1, GoToTyping, PointsTyping DEF CreateLock
<1>5. CASE CreateSleep(p)
  <2>1. val' \in Members /\ undo' \in [Procs -> Members]
    BY <1>5 DEF CreateSleep, TypeOK
  <2> QED
    BY <1>5, <2>1, GoToTyping, PointsTyping DEF CreateSleep
<1>6. CASE CreateAgain(p)
  <2>1. val' \in Members /\ undo' \in [Procs -> Members]
    BY <1>6 DEF CreateAgain, TypeOK
  <2> QED
    BY <1>6, <2>1, GoToTyping, PointsTyping DEF CreateAgain
<1>7. CASE CreateGetval(p)
  <2>1. val' \in Members /\ undo' \in [Procs -> Members]
    BY <1>7 DEF CreateGetval, TypeOK
  <2> QED
    BY <1>7, <2>1, GoToTyping, PointsTyping DEF CreateGetval
<1>8. CASE CreateSetval0(p)
  <2>1. val' \in Members /\ undo' \in [Procs -> Members]
    BY <1>8 DEF CreateSetval0, SetSem, TypeOK
  <2> QED
    BY <1>8, <2>1, GoToTyping, PointsTyping DEF CreateSetval0
<1>9. CASE CreateSetval1(p)
  <2>1. val' \in Members /\ undo' \in [Procs -> Members]
    BY <1>9 DEF CreateSetval1, SetCount, TypeOK
  <2> QED
    BY <1>9, <2>1, GoToTyping, PointsTyping DEF CreateSetval1
<1>10. CASE CreateEnd(p)
  <2>1. val' \in Members /\ undo' \in [Procs -> Members]
    BY <1>10, SemopTyping, Ops DEF CreateEnd
  <2> QED
    BY <1>10, <2>1, GoToTyping, PointsTyping DEF CreateEnd
<1> QED
  BY <1>1, <1>2, <1>3, <1>4, <1>5, <1>6, <1>7, <1>8, <1>9, <1>10 DEF SemCreate

(* So does every action of sem_close.                                      *)
LEMMA CloseTyping ==
  ASSUME TypeOK, NEW p \in Procs, SemClose(p)
  PROVE  TypeOK'
<1> USE ValuesAssumption
<1>1. CASE CloseLock(p)
  <2>1. val' \in Members /\ undo' \in [Procs -> Members]
    BY <1>1, SemopTyping, Ops DEF CloseLock
  <2> QED
    BY <1>1, <2>1, GoToTyping, PointsTyping DEF CloseLock
<1>2. CASE CloseGetval(p)
  <2>1. CASE val.count > BIGCOUNT
    BY <1>2, <2>1, DieTyping DEF CloseGetval, err_dump
  <2>2. CASE ~(val.count > BIGCOUNT)
    BY <1>2, <2>2 DEF CloseGetval, GoTo, TypeOK
  <2> QED
    BY <2>1, <2>2
<1>3. CASE CloseRemove(p)
  <2>1. live' \in BOOLEAN /\ val' \in Members /\ undo' \in [Procs -> Members]
    BY <1>3, RemoveTyping DEF CloseRemove
  <2>2. /\ pc' = [pc EXCEPT ![p] = "idle"] /\ sid' = [sid EXCEPT ![p] = 0]
        /\ UNCHANGED <<made, held>>
    BY <1>3 DEF CloseRemove
  <2> QED
    BY <2>1, <2>2 DEF TypeOK
<1>4. CASE CloseUnlock(p)
  <2>1. val' \in Members /\ undo' \in [Procs -> Members]
    BY <1>4, SemopTyping, Ops DEF CloseUnlock
  <2>2. /\ pc' = [pc EXCEPT ![p] = "idle"] /\ sid' = [sid EXCEPT ![p] = 0]
        /\ UNCHANGED <<made, live, held>>
    BY <1>4 DEF CloseUnlock
  <2> QED
    BY <2>1, <2>2 DEF TypeOK, Points
<1> QED
  BY <1>1, <1>2, <1>3, <1>4 DEF SemClose

(* Every step preserves the types.                                         *)
LEMMA NextTyping == TypeOK /\ [Next]_vars => TypeOK'
<1> SUFFICES ASSUME TypeOK, [Next]_vars PROVE TypeOK'
  OBVIOUS
<1> USE ValuesAssumption
<1>1. CASE UNCHANGED vars
  BY <1>1 DEF vars, TypeOK
<1>2. ASSUME NEW p \in Procs, SemCreate(p) PROVE TypeOK'
  BY <1>2, CreateTyping
<1>3. ASSUME NEW p \in Procs, OpenFind(p) PROVE TypeOK'
  BY <1>3 DEF OpenFind, TypeOK
<1>4. ASSUME NEW p \in Procs, OpenCount(p) PROVE TypeOK'
  <2>1. val' \in Members /\ undo' \in [Procs -> Members]
    BY <1>4, SemopTyping, Ops DEF OpenCount
  <2> QED
    BY <1>4, <2>1, GoToTyping, PointsTyping DEF OpenCount
<1>5. ASSUME NEW p \in Procs, SemOp(p) PROVE TypeOK'
  <2>1. PICK n \in Amounts : /\ held[p] - n \in HoldMin .. HoldMax
                             /\ Semop(p, op_op(n))
                             /\ held' = [held EXCEPT ![p] = held[p] - n]
    BY <1>5 DEF SemOp
  <2>2. val' \in Members /\ undo' \in [Procs -> Members]
    BY <2>1, SemopTyping, Ops, ValuesAssumption
  <2>3. UNCHANGED <<made, live, pc, sid>>
    BY <1>5 DEF SemOp
  <2> QED
    BY <2>1, <2>2, <2>3 DEF TypeOK
<1>6. ASSUME NEW p \in Procs, SemRm(p) PROVE TypeOK'
  <2>1. live' \in BOOLEAN /\ val' \in Members /\ undo' \in [Procs -> Members]
    BY <1>6, RemoveTyping DEF SemRm
  <2>2. /\ pc' = [pc EXCEPT ![p] = "idle"] /\ sid' = [sid EXCEPT ![p] = 0]
        /\ UNCHANGED <<made, held>>
    BY <1>6 DEF SemRm
  <2> QED
    BY <2>1, <2>2 DEF TypeOK
<1>7. ASSUME NEW p \in Procs, SemClose(p) PROVE TypeOK'
  BY <1>7, CloseTyping
<1>8. ASSUME NEW p \in Procs, CallFails(p) PROVE TypeOK'
  BY <1>8, DieTyping DEF CallFails, err_sys
<1>9. ASSUME NEW p \in Procs, Exit(p) PROVE TypeOK'
  BY <1>9, DieTyping DEF Exit
<1> QED
  BY <1>1, <1>2, <1>3, <1>4, <1>5, <1>6, <1>7, <1>8, <1>9 DEF Next

(* The values of the semaphore set, the adjustments and the processes'     *)
(* program points stay within their types.                                 *)
THEOREM Typing == Spec => []TypeOK
BY InitTyping, NextTyping, PTL DEF Spec

-----------------------------------------------------------------------------
(* The lock.  A step of p leaves the lock as it is, takes it while it is   *)
(* free, or gives it back; nobody else's part in it changes.               *)
Keeps(p) ==
  /\ Locked(p)' <=> Locked(p)
  /\ val'.lock = val.lock /\ undo'[p].lock = undo[p].lock
Takes(p) ==
  /\ Locked(p)' /\ val.lock = 0
  /\ val'.lock = 1 /\ undo'[p].lock = undo[p].lock - 1
Gives(p) ==
  /\ Locked(p) /\ ~Locked(p)'
  /\ val'.lock = val.lock - 1 /\ undo'[p].lock = 0

StepOf(p) ==
  /\ UNCHANGED <<made, live>>
  /\ \A q \in Procs \ {p} :
       pc'[q] = pc[q] /\ sid'[q] = sid[q] /\ undo'[q].lock = undo[q].lock
  /\ sid'[p] <= made

LEMMA LockStep ==
  ASSUME LockInv, TypeOK', NEW p \in Procs, StepOf(p),
         Keeps(p) \/ Takes(p) \/ Gives(p)
  PROVE  LockInv'
<1> USE DEF LockInv, LockHeldByOne
<1>1. \A q \in Procs \ {p} : Locked(q)' <=> Locked(q)
  BY DEF StepOf, Locked, HasSet
<1>2. \A q \in Procs : sid'[q] <= made'
  BY DEF StepOf
<1>3. CASE Keeps(p)
  <2>1. \A q \in Procs : Locked(q)' <=> Locked(q)
    BY <1>1, <1>3 DEF Keeps
  <2>2. \A q \in Procs : undo'[q].lock = undo[q].lock
    BY <1>3 DEF Keeps, StepOf
  <2> QED
    BY <1>2, <1>3, <2>1, <2>2 DEF Keeps
<1>4. CASE Takes(p)
  <2>1. \A q \in Procs : ~Locked(q)
    BY <1>4 DEF Takes
  <2>2. undo[p].lock = 0 /\ \A q \in Procs \ {p} : undo'[q].lock = 0
    BY <2>1 DEF StepOf
  <2> QED
    BY <1>1, <1>2, <1>4, <2>1, <2>2 DEF Takes
<1>5. CASE Gives(p)
  <2>1. \A q \in Procs \ {p} : ~Locked(q)
    BY <1>5 DEF Gives
  <2>2. \A q \in Procs \ {p} : undo'[q].lock = 0
    BY <2>1 DEF StepOf
  <2>3. val.lock = 1
    BY <1>5 DEF Gives
  <2> QED
    BY <1>1, <1>2, <1>5, <2>1, <2>2, <2>3 DEF Gives
<1> QED
  BY <1>3, <1>4, <1>5

(* After a removal nobody has the set.                                     *)
LEMMA LockRemoved ==
  ASSUME LockInv, TypeOK', NEW p \in Procs, RemoveSet, made' = made,
         sid' = [sid EXCEPT ![p] = 0]
  PROVE  LockInv'
<1>1. \A q \in Procs : ~Locked(q)'
  BY DEF RemoveSet, Locked, HasSet
<1>2. val'.lock = 0 /\ \A q \in Procs : undo'[q].lock = 0
  BY DEF RemoveSet
<1>3. \A q \in Procs : sid'[q] <= made'
  BY DEF LockInv, TypeOK
<1> QED
  BY <1>1, <1>2, <1>3 DEF LockInv, LockHeldByOne

(* A process that exits gives the lock back if it owns it.                 *)
LEMMA LockDie ==
  ASSUME LockInv, TypeOK', NEW p \in Procs, NEW how \in Gone, Die(p, how)
  PROVE  LockInv'
<1>1. ~Locked(p)'
  BY DEF Die, Locked, LockInv, TypeOK
<1>2. StepOf(p)
  BY DEF StepOf, Die, LockInv, TypeOK
<1>3. val'.lock = val.lock + undo[p].lock /\ undo'[p].lock = 0
  BY DEF Die, LockInv, TypeOK
<1>4. CASE Locked(p)
  <2>1. undo[p].lock = -1 /\ val.lock = 1
    BY <1>4 DEF LockInv, LockHeldByOne
  <2> QED
    BY <1>1, <1>2, <1>3, <1>4, <2>1, LockStep DEF Gives
<1>5. CASE ~Locked(p)
  <2>1. undo[p].lock = 0
    BY <1>5 DEF LockInv, LockHeldByOne
  <2>2. val'.lock = val.lock
    BY <1>3, <2>1 DEF LockInv, TypeOK
  <2> QED
    BY <1>1, <1>2, <1>3, <1>5, <2>1, <2>2, LockStep DEF Keeps
<1> QED
  BY <1>4, <1>5

(* What a semop does to the members and to the adjustments.                *)
LEMMA SemopEffect ==
  ASSUME TypeOK, NEW p \in Procs, NEW op, Semop(p, op)
  PROVE  /\ HasSet(p) /\ (op.zero => val.lock = 0)
         /\ val'.lock = val.lock + op.lock /\ val'.count = val.count + op.count
         /\ val.count + op.count >= 0
         /\ undo'[p].lock = undo[p].lock - op.lock
         /\ undo'[p].count = undo[p].count - op.count
         /\ \A q \in Procs \ {p} : undo'[q] = undo[q]
BY DEF TypeOK, Semop, Plus, Minus, CanSemop

(* A step by GoTo whose adjustments of others stay is a step of p alone.   *)
LEMMA GoToStep ==
  ASSUME LockInv, NEW p \in Procs, NEW l, GoTo(p, l),
         \A q \in Procs \ {p} : undo'[q].lock = undo[q].lock
  PROVE  /\ StepOf(p) /\ pc'[p] = l
         /\ HasSet(p)' <=> HasSet(p)
         /\ \A q \in Procs \ {p} : pc'[q] = pc[q]
BY DEF GoTo, StepOf, HasSet, LockInv, TypeOK

LEMMA LockCreate ==
  ASSUME LockInv, TypeOK', NEW p \in Procs, SemCreate(p)
  PROVE  LockInv'
<1> USE DEF LockInv
<1>1. CASE CreateFind(p)
  BY <1>1, LockStep DEF CreateFind, StepOf, Keeps, Locked, TypeOK
<1>2. CASE CreateMake(p)
  <2>1. \A q \in Procs : ~Locked(q) /\ ~Locked(q)'
    BY <1>2 DEF CreateMake, Locked, HasSet, TypeOK
  <2>2. \A q \in Procs : sid'[q] <= made'
    BY <1>2 DEF CreateMake, TypeOK
  <2>3. val'.lock = 0 /\ \A q \in Procs : undo'[q].lock = 0
    BY <1>2, <2>1 DEF CreateMake, LockHeldByOne
  <2> QED
    BY <2>1, <2>2, <2>3 DEF LockHeldByOne
<1>3. CASE CreateRefused(p)
  BY <1>3, LockStep DEF CreateRefused, StepOf, Keeps, Locked, TypeOK
<1>4. CASE CreateLock(p)
  <2>1. HasSet(p) /\ val.lock = 0 /\ val'.lock = 1 /\ undo'[p].lock = undo[p].lock - 1
    BY <1>4, SemopEffect, Ops DEF CreateLock
  <2>2. StepOf(p) /\ Locked(p)'
    BY <1>4, <2>1, SemopEffect, GoToStep DEF CreateLock, Locked
  <2> QED
    BY <2>1, <2>2, LockStep DEF Takes
<1>5. CASE CreateSleep(p)
  BY <1>5, GoToStep, LockStep DEF CreateSleep, Keeps, Locked
<1>6. CASE CreateAgain(p)
  BY <1>6, GoToStep, LockStep DEF CreateAgain, Keeps, Locked
<1>7. CASE CreateGetval(p)
  BY <1>7, GoToStep, LockStep DEF CreateGetval, Keeps, Locked
<1>8. CASE CreateSetval0(p)
  <2>1. val'.lock = val.lock /\ \A q \in Procs : undo'[q].lock = undo[q].lock
    BY <1>8 DEF CreateSetval0, SetSem
  <2> QED
    BY <1>8, <2>1, GoToStep, LockStep DEF CreateSetval0, Keeps, Locked
<1>9. CASE CreateSetval1(p)
  <2>1. val'.lock = val.lock /\ \A q \in Procs : undo'[q].lock = undo[q].lock
    BY <1>9 DEF CreateSetval1, SetCount
  <2> QED
    BY <1>9, <2>1, GoToStep, LockStep DEF CreateSetval1, Keeps, Locked
<1>10. CASE CreateEnd(p)
  <2>1. Locked(p) /\ val'.lock = val.lock - 1 /\ undo'[p].lock = undo[p].lock + 1
    BY <1>10, SemopEffect, Ops DEF CreateEnd, Locked, TypeOK
  <2>2. StepOf(p) /\ ~Locked(p)'
    BY <1>10, SemopEffect, GoToStep DEF CreateEnd, Locked
  <2>3. undo'[p].lock = 0
    BY <2>1 DEF LockHeldByOne
  <2> QED
    BY <2>1, <2>2, <2>3, LockStep DEF Gives
<1> QED
  BY <1>1, <1>2, <1>3, <1>4, <1>5, <1>6, <1>7, <1>8, <1>9, <1>10 DEF SemCreate

LEMMA LockClose ==
  ASSUME LockInv, TypeOK', NEW p \in Procs, SemClose(p)
  PROVE  LockInv'
<1> USE DEF LockInv
<1>1. CASE CloseLock(p)
  <2>1. HasSet(p) /\ val.lock = 0 /\ val'.lock = 1 /\ undo'[p].lock = undo[p].lock - 1
    BY <1>1, SemopEffect, Ops DEF CloseLock
  <2>2. StepOf(p) /\ Locked(p)'
    BY <1>1, <2>1, SemopEffect, GoToStep DEF CloseLock, Locked
  <2> QED
    BY <2>1, <2>2, LockStep DEF Takes
<1>2. CASE CloseGetval(p)
  <2>1. CASE val.count > BIGCOUNT
    BY <1>2, <2>1, LockDie DEF CloseGetval, err_dump
  <2>2. CASE ~(val.count > BIGCOUNT)
    BY <1>2, <2>2, GoToStep, LockStep DEF CloseGetval, Keeps, Locked
  <2> QED
    BY <2>1, <2>2
<1>3. CASE CloseRemove(p)
  BY <1>3, LockRemoved DEF CloseRemove
<1>4. CASE CloseUnlock(p)
  <2>1. Locked(p) /\ val'.lock = val.lock - 1 /\ undo'[p].lock = undo[p].lock + 1
    BY <1>4, SemopEffect, Ops DEF CloseUnlock, Locked, TypeOK
  <2>2. StepOf(p) /\ ~Locked(p)'
    BY <1>4, SemopEffect DEF CloseUnlock, Locked, StepOf, TypeOK
  <2>3. undo'[p].lock = 0
    BY <2>1 DEF LockHeldByOne
  <2> QED
    BY <2>1, <2>2, <2>3, LockStep DEF Gives
<1> QED
  BY <1>1, <1>2, <1>3, <1>4 DEF SemClose

LEMMA LockNext == LockInv /\ [Next]_vars => LockInv'
<1> SUFFICES ASSUME LockInv, [Next]_vars PROVE LockInv'
  OBVIOUS
<1>1. TypeOK'
  BY NextTyping DEF LockInv
<1>2. CASE UNCHANGED vars
  BY <1>2 DEF vars, LockInv, TypeOK, LockHeldByOne, Locked, HasSet
<1>3. ASSUME NEW p \in Procs, SemCreate(p) PROVE LockInv'
  BY <1>1, <1>3, LockCreate
<1>4. ASSUME NEW p \in Procs, OpenFind(p) PROVE LockInv'
  BY <1>1, <1>4, LockStep DEF OpenFind, StepOf, Keeps, Locked, LockInv, TypeOK
<1>5. ASSUME NEW p \in Procs, OpenCount(p) PROVE LockInv'
  <2>1. val'.lock = val.lock /\ undo'[p].lock = undo[p].lock
    BY <1>5, SemopEffect, Ops DEF OpenCount, LockInv, TypeOK
  <2>2. StepOf(p) /\ ~Locked(p) /\ ~Locked(p)'
    BY <1>5, SemopEffect, GoToStep DEF OpenCount, Locked, LockInv
  <2> QED
    BY <1>1, <2>1, <2>2, LockStep DEF Keeps
<1>6. ASSUME NEW p \in Procs, SemOp(p) PROVE LockInv'
  <2>1. PICK n \in Amounts : Semop(p, op_op(n))
    BY <1>6 DEF SemOp
  <2>a. TypeOK /\ op_op(n).lock = 0
    BY Ops, ValuesAssumption DEF LockInv
  <2>i. val.lock \in Int /\ undo[p].lock \in Int
    BY <2>a DEF TypeOK
  <2>2. val'.lock = val.lock /\ undo'[p].lock = undo[p].lock
    BY <2>1, <2>a, <2>i, SemopEffect
  <2>3. UNCHANGED <<made, live, pc, sid>>
    BY <1>6 DEF SemOp
  <2>4. StepOf(p) /\ (Locked(p)' <=> Locked(p))
    BY <2>1, <2>3, SemopEffect DEF StepOf, Locked, HasSet, LockInv
  <2> QED
    BY <1>1, <2>2, <2>4, LockStep DEF Keeps
<1>7. ASSUME NEW p \in Procs, SemRm(p) PROVE LockInv'
  BY <1>1, <1>7, LockRemoved DEF SemRm
<1>8. ASSUME NEW p \in Procs, SemClose(p) PROVE LockInv'
  BY <1>1, <1>8, LockClose
<1>9. ASSUME NEW p \in Procs, CallFails(p) PROVE LockInv'
  BY <1>1, <1>9, LockDie DEF CallFails, err_sys
<1>10. ASSUME NEW p \in Procs, Exit(p) PROVE LockInv'
  BY <1>1, <1>10, LockDie DEF Exit
<1> QED
  BY <1>2, <1>3, <1>4, <1>5, <1>6, <1>7, <1>8, <1>9, <1>10 DEF Next

(* At any time at most one process is in a section the lock protects, [2]  *)
(* is 1 exactly then, and that process's exit would release it.            *)
THEOREM LockExclusive == Spec => []LockHeldByOne
<1>1. Init => LockInv
  BY InitTyping DEF Init, LockInv, LockHeldByOne, Locked, HasSet
<1>2. LockInv => LockHeldByOne
  BY DEF LockInv
<1> QED
  BY <1>1, <1>2, LockNext, PTL DEF Spec

-----------------------------------------------------------------------------
(* The process counter.  A step of p leaves the users and the counter as   *)
(* they are, adds p to the users, or takes p away.                         *)
OthersCount(p) == \A q \in Procs \ {p} : undo'[q].count = undo[q].count

Stays(p) ==
  /\ p \in Users' <=> p \in Users
  /\ val'.count = val.count /\ undo'[p].count = undo[p].count
  /\ Phase(p)'
Joins(p) ==
  /\ p \notin Users /\ p \in Users' /\ ~Locked(p)'
  /\ val.count > 0 /\ val'.count = val.count - 1
  /\ undo'[p].count = undo[p].count + 1
Leaves(p) ==
  /\ p \in Users /\ p \notin Users' /\ (Locked(p)' => pc'[p] = "closeval")
  /\ val'.count = val.count + 1 /\ undo'[p].count = undo[p].count - 1

LEMMA UsersCard ==
  /\ IsFiniteSet(Users) /\ Cardinality(Users) \in Nat
  /\ Cardinality(Users) = 0 <=> Users = {}
  /\ \A p \in Procs \ Users :
       /\ Cardinality(Users \cup {p}) = Cardinality(Users) + 1
       /\ Cardinality(Users) + 1 <= Cardinality(Procs)
  /\ \A p \in Users : Cardinality(Users \ {p}) = Cardinality(Users) - 1
<1>1. IsFiniteSet(Users) /\ Cardinality(Users) <= Cardinality(Procs)
  BY ProcsAssumption, FS_Subset DEF Users
<1>2. Cardinality(Users) \in Nat /\ Cardinality(Procs) \in Nat
  BY <1>1, ProcsAssumption, FS_CardinalityType
<1>3. Cardinality(Users) = 0 <=> Users = {}
  BY <1>1, FS_EmptySet
<1>4. ASSUME NEW p \in Procs \ Users
      PROVE  /\ Cardinality(Users \cup {p}) = Cardinality(Users) + 1
             /\ Cardinality(Users) + 1 <= Cardinality(Procs)
  <2>1. Cardinality(Users \cup {p}) = Cardinality(Users) + 1
    BY <1>1, FS_AddElement
  <2>2. Users \cup {p} \subseteq Procs
    BY DEF Users
  <2>3. Cardinality(Users \cup {p}) <= Cardinality(Procs)
    BY <2>2, ProcsAssumption, FS_Subset
  <2> QED
    BY <2>1, <2>3
<1>5. ASSUME NEW p \in Users PROVE Cardinality(Users \ {p}) = Cardinality(Users) - 1
  BY <1>1, FS_RemoveElement
<1> QED
  BY <1>1, <1>2, <1>3, <1>4, <1>5

LEMMA CountStep ==
  ASSUME LockInv, LockInv', CountInv, NEW p \in Procs, StepOf(p), OthersCount(p),
         Stays(p) \/ Joins(p) \/ Leaves(p)
  PROVE  CountInv'
<1>1. \A q \in Procs \ {p} : q \in Users' <=> q \in Users
  BY DEF StepOf, Users, HasSet
<1>7. \A q \in Procs \ {p} : pc'[q] = pc[q] /\ (Locked(q)' <=> Locked(q))
  BY DEF StepOf, Locked, HasSet
<1>2. Users \subseteq Procs /\ Users' \subseteq Procs
  BY DEF Users
<1>3. val.count \in Int /\ BIGCOUNT \in Nat
  BY ValuesAssumption DEF LockInv, TypeOK
<1>4. CASE Stays(p)
  <2>1. Users' = Users
    BY <1>1, <1>2, <1>4 DEF Stays
  <2>2. \A q \in Procs : undo'[q].count = undo[q].count
    BY <1>4 DEF Stays, OthersCount
  <2>3. CountMatchesUsers'
    BY <1>4, <2>1, <2>2 DEF Stays, CountInv, CountMatchesUsers, StepOf
  <2>4. ASSUME NEW q \in Procs \ {p} PROVE Phase(q)'
    BY <1>7, <1>4, <2>1 DEF Stays, CountInv, Phase, Counted
  <2>5. Phase(p)'
    BY <1>4 DEF Stays
  <2> QED
    BY <2>3, <2>4, <2>5 DEF CountInv
<1>5. CASE Joins(p)
  <2>1. Users' = Users \cup {p}
    BY <1>1, <1>2, <1>5 DEF Joins
  <2>2. Cardinality(Users') = Cardinality(Users) + 1 /\ Cardinality(Users) \in Nat
    BY <1>5, <2>1, UsersCard DEF Joins
  <2>3. live /\ val.count = BIGCOUNT - Cardinality(Users)
    BY <1>5 DEF Joins, CountInv, CountMatchesUsers
  <2>4. live' /\ val'.count = BIGCOUNT - Cardinality(Users')
    BY <1>3, <1>5, <2>2, <2>3 DEF Joins, StepOf
  <2>5. undo'[p].count = 1
    BY <1>5 DEF Joins, CountInv, CountMatchesUsers
  <2>6. \A q \in Procs : undo'[q].count = IF q \in Users' THEN 1 ELSE 0
    BY <1>1, <1>5, <2>5 DEF Joins, OthersCount, CountInv, CountMatchesUsers
  <2>7. ASSUME NEW q \in Procs PROVE Phase(q)'
    BY <1>7, <1>5, <2>4 DEF Joins, CountInv, Phase, Counted
  <2> QED
    BY <2>4, <2>6, <2>7 DEF CountInv, CountMatchesUsers
<1>6. CASE Leaves(p)
  <2>1. Users' = Users \ {p}
    BY <1>1, <1>2, <1>6 DEF Leaves
  <2>2. Cardinality(Users') = Cardinality(Users) - 1 /\ Cardinality(Users) \in Nat
    BY <1>6, <2>1, UsersCard DEF Leaves
  <2>3. live /\ val.count = BIGCOUNT - Cardinality(Users)
    BY <1>6 DEF Leaves, CountInv, CountMatchesUsers
  <2>4. live' /\ val'.count = BIGCOUNT - Cardinality(Users')
    BY <1>3, <1>6, <2>2, <2>3 DEF Leaves, StepOf
  <2>5. undo'[p].count = 0
    BY <1>6 DEF Leaves, CountInv, CountMatchesUsers
  <2>6. \A q \in Procs : undo'[q].count = IF q \in Users' THEN 1 ELSE 0
    BY <1>1, <1>6, <2>5 DEF Leaves, OthersCount, CountInv, CountMatchesUsers
  <2>7. ASSUME NEW q \in Procs PROVE Phase(q)'
    <3>1. CASE q = p
      BY <1>6, <2>4, <3>1 DEF Leaves, Phase, Counted
    <3>2. CASE q # p
      BY <1>7, <1>6, <2>4, <3>2 DEF Leaves, CountInv, Phase, Counted
    <3> QED
      BY <3>1, <3>2
  <2> QED
    BY <2>4, <2>6, <2>7 DEF CountInv, CountMatchesUsers
<1> QED
  BY <1>4, <1>5, <1>6

(* After a removal nobody has the set and the counter is 0.                *)
LEMMA CountRemoved ==
  ASSUME RemoveSet
  PROVE  CountInv'
<1>1. Users' = {} /\ \A q \in Procs : ~Locked(q)'
  BY DEF RemoveSet, Users, Locked, HasSet
<1>2. val'.count = 0 /\ \A q \in Procs : undo'[q].count = 0
  BY DEF RemoveSet
<1> QED
  BY <1>1, <1>2 DEF CountInv, CountMatchesUsers, Phase

(* A user that exits is uncounted by its adjustment, anybody else has none. *)
LEMMA CountDie ==
  ASSUME LockInv, LockInv', CountInv, NEW p \in Procs, NEW how \in Gone, Die(p, how)
  PROVE  CountInv'
<1>1. ~Locked(p)' /\ p \notin Users'
  BY DEF Die, Locked, Users, LockInv, TypeOK
<1>2. StepOf(p) /\ OthersCount(p)
  BY DEF StepOf, OthersCount, Die, LockInv, TypeOK
<1>3. val'.count = val.count + undo[p].count /\ undo'[p].count = 0
  BY DEF Die, LockInv, TypeOK
<1>4. val.count \in Int
  BY DEF LockInv, TypeOK
<1>5. CASE p \in Users
  <2>1. undo[p].count = 1
    BY <1>5 DEF CountInv, CountMatchesUsers
  <2> QED
    BY <1>1, <1>2, <1>3, <1>5, <2>1, CountStep DEF Leaves
<1>6. CASE p \notin Users
  <2>1. undo[p].count = 0
    BY <1>6 DEF CountInv, CountMatchesUsers
  <2>2. val'.count = val.count
    BY <1>3, <1>4, <2>1
  <2>3. Phase(p)'
    BY <1>1 DEF Phase
  <2> QED
    BY <1>1, <1>2, <1>3, <1>6, <2>1, <2>2, <2>3, CountStep DEF Stays
<1> QED
  BY <1>5, <1>6

(* A step that leaves the values and the adjustments alone and neither     *)
(* starts nor ends in "ready".                                             *)
LEMMA CountIdleStep ==
  ASSUME LockInv, LockInv', CountInv, NEW p \in Procs, StepOf(p),
         UNCHANGED <<val, undo>>, pc[p] # "ready", pc'[p] # "ready", Phase(p)'
  PROVE  CountInv'
<1>1. p \notin Users /\ p \notin Users'
  BY DEF Users
<1>2. OthersCount(p)
  BY DEF OthersCount
<1> QED
  BY <1>1, <1>2, CountStep DEF Stays

LEMMA CountCreate ==
  ASSUME FewProcs, LockInv, LockInv', CountInv, NEW p \in Procs, SemCreate(p)
  PROVE  CountInv'
<1>1. CASE CreateFind(p)
  <2>1. StepOf(p) /\ pc[p] # "ready" /\ pc'[p] = "lock"
    BY <1>1 DEF CreateFind, StepOf, LockInv, TypeOK
  <2> QED
    BY <1>1, <2>1, CountIdleStep DEF CreateFind, Phase, Locked
<1>2. CASE CreateMake(p)
  <2>1. Users = {} /\ Users' = {} /\ \A q \in Procs : ~Locked(q)'
    BY <1>2 DEF CreateMake, Users, Locked, HasSet, LockInv, TypeOK
  <2>2. val'.count = 0 /\ \A q \in Procs : undo'[q].count = 0
    BY <1>2, <2>1 DEF CreateMake, CountInv, CountMatchesUsers
  <2> QED
    BY <2>1, <2>2 DEF CountInv, CountMatchesUsers, Phase
<1>3. CASE CreateRefused(p)
  <2>1. StepOf(p) /\ pc[p] # "ready" /\ pc'[p] = "idle"
    BY <1>3 DEF CreateRefused, StepOf, LockInv, TypeOK
  <2> QED
    BY <1>3, <2>1, CountIdleStep DEF CreateRefused, Phase, Locked
<1>4. CASE CreateLock(p)
  <2>1. StepOf(p) /\ pc'[p] = "getval" /\ OthersCount(p)
    BY <1>4, SemopEffect, GoToStep DEF CreateLock, OthersCount, LockInv
  <2>2. val'.count = val.count /\ undo'[p].count = undo[p].count
    BY <1>4, SemopEffect, Ops DEF CreateLock, LockInv, TypeOK
  <2>3. p \notin Users /\ p \notin Users'
    BY <1>4, <2>1 DEF CreateLock, Users
  <2>4. Phase(p)'
    BY <2>1 DEF Phase
  <2> QED
    BY <2>1, <2>2, <2>3, <2>4, CountStep DEF Stays
<1>5. CASE CreateSleep(p)
  <2>1. StepOf(p) /\ pc[p] # "ready" /\ pc'[p] = "locksleep"
    BY <1>5, GoToStep DEF CreateSleep
  <2> QED
    BY <1>5, <2>1, CountIdleStep DEF CreateSleep, Phase, Locked
<1>6. CASE CreateAgain(p)
  <2>1. StepOf(p) /\ pc[p] # "ready" /\ pc'[p] = "again"
    BY <1>6, GoToStep DEF CreateAgain
  <2> QED
    BY <1>6, <2>1, CountIdleStep DEF CreateAgain, Phase, Locked
<1>7. CASE CreateGetval(p)
  <2>1. StepOf(p) /\ pc[p] = "getval" /\ HasSet(p) /\ UNCHANGED <<val, undo>>
    BY <1>7, GoToStep DEF CreateGetval
  <2>2. pc'[p] = IF val.count = 0 THEN "setval0" ELSE "endcreate"
    BY <1>7, GoToStep DEF CreateGetval
  <2>3. p \in Procs \ Users
    BY <2>1 DEF Users
  <2>4. Cardinality(Users) + 1 <= BIGCOUNT /\ Cardinality(Users) \in Nat
    <3>1. Cardinality(Procs) \in Nat /\ BIGCOUNT \in Nat
      BY ProcsAssumption, FS_CardinalityType, ValuesAssumption
    <3>2. Cardinality(Users) + 1 <= Cardinality(Procs)
      BY <2>3, UsersCard
    <3>3. Cardinality(Users) \in Nat
      BY UsersCard
    <3> QED
      BY <3>1, <3>2, <3>3 DEF FewProcs
  <2>5. val.count = 0 => Users = {}
    BY <2>4, ValuesAssumption DEF CountInv, CountMatchesUsers
  <2>6. val.count # 0 => Counted
    BY DEF CountInv, CountMatchesUsers, Counted
  <2>7. Users' = Users
    BY <1>7, <2>1, <2>2 DEF CreateGetval, GoTo, Users, HasSet, LockInv, TypeOK
  <2>8. Phase(p)'
    BY <2>1, <2>2, <2>5, <2>6, <2>7 DEF Phase, Counted
  <2> QED
    BY <2>1, <2>2, <2>8, CountIdleStep
<1>8. CASE CreateSetval0(p)
  <2>1. val'.count = val.count /\ \A q \in Procs : undo'[q].lock = undo[q].lock
                                               /\ undo'[q].count = undo[q].count
    BY <1>8 DEF CreateSetval0, SetSem
  <2>2. StepOf(p) /\ pc'[p] = "setval1"
    BY <1>8, <2>1, GoToStep DEF CreateSetval0
  <2>3. Users = {} /\ val.count = 0
    BY <1>8 DEF CreateSetval0, CountInv, Phase, Locked
  <2>4. Users' = {}
    BY <1>8, <2>3 DEF CreateSetval0, GoTo, Users, HasSet, LockInv, TypeOK
  <2>5. Phase(p)'
    BY <2>1, <2>2, <2>3, <2>4 DEF Phase
  <2> QED
    BY <2>1, <2>2, <2>3, <2>4, <2>5, CountStep DEF Stays, OthersCount
<1>9. CASE CreateSetval1(p)
  <2>1. val'.count = BIGCOUNT /\ \A q \in Procs : undo'[q].count = 0
    BY <1>9 DEF CreateSetval1, SetCount
  <2>2. Users = {} /\ live' /\ Locked(p)'
    BY <1>9 DEF CreateSetval1, CountInv, Phase, Locked, GoTo, HasSet, LockInv, TypeOK
  <2>3. Users' = {}
    BY <1>9, <2>2 DEF CreateSetval1, GoTo, Users, HasSet, LockInv, TypeOK
  <2>4. Cardinality(Users') = 0
    BY <2>3, FS_EmptySet
  <2>5. Counted' /\ CountMatchesUsers'
    BY <2>1, <2>2, <2>3, <2>4, ValuesAssumption DEF Counted, CountMatchesUsers
  <2>6. pc'[p] = "endcreate"
    BY <1>9 DEF CreateSetval1, GoTo, LockInv, TypeOK
  <2>7. \A q \in Procs : Locked(q)' => q = p
    BY <2>2 DEF LockInv, LockHeldByOne
  <2>8. ASSUME NEW q \in Procs PROVE Phase(q)'
    BY <2>5, <2>6, <2>7 DEF Phase
  <2> QED
    BY <2>5, <2>8 DEF CountInv
<1>10. CASE CreateEnd(p)
  <2>1. /\ StepOf(p) /\ pc'[p] = "ready" /\ HasSet(p) /\ HasSet(p)'
        /\ OthersCount(p)
    BY <1>10, SemopEffect, GoToStep DEF CreateEnd, OthersCount, LockInv
  <2>2. /\ val'.count = val.count - 1 /\ val.count > 0
        /\ undo'[p].count = undo[p].count + 1
    BY <1>10, SemopEffect, Ops DEF CreateEnd, LockInv, TypeOK
  <2>3. p \notin Users /\ p \in Users' /\ ~Locked(p)'
    BY <1>10, <2>1 DEF CreateEnd, Users, Locked
  <2> QED
    BY <2>1, <2>2, <2>3, CountStep DEF Joins
<1> QED
  BY <1>1, <1>2, <1>3, <1>4, <1>5, <1>6, <1>7, <1>8, <1>9, <1>10 DEF SemCreate

LEMMA CountClose ==
  ASSUME LockInv, LockInv', CountInv, NEW p \in Procs, SemClose(p)
  PROVE  CountInv'
<1>1. CASE CloseLock(p)
  <2>1. StepOf(p) /\ pc'[p] = "closeval" /\ HasSet(p) /\ OthersCount(p)
    BY <1>1, SemopEffect, GoToStep DEF CloseLock, OthersCount, LockInv
  <2>2. val'.count = val.count + 1 /\ undo'[p].count = undo[p].count - 1
    BY <1>1, SemopEffect, Ops DEF CloseLock, LockInv
  <2>3. p \in Users /\ p \notin Users'
    BY <1>1, <2>1 DEF CloseLock, Users
  <2> QED
    BY <2>1, <2>2, <2>3, CountStep DEF Leaves
<1>2. CASE CloseGetval(p)
  <2>1. CASE val.count > BIGCOUNT
    BY <1>2, <2>1, CountDie DEF CloseGetval, err_dump
  <2>2. CASE ~(val.count > BIGCOUNT)
    <3>1. /\ StepOf(p) /\ pc[p] = "closeval" /\ pc'[p] \in {"rm", "unlock"}
          /\ UNCHANGED <<val, undo>> /\ Locked(p)
      BY <1>2, <2>2, GoToStep DEF CloseGetval, Locked
    <3>2. Counted
      BY <3>1 DEF CountInv, Phase
    <3>3. Users' = Users
      BY <1>2, <2>2, <3>1 DEF CloseGetval, GoTo, Users, HasSet, LockInv, TypeOK
    <3>4. Phase(p)'
      BY <3>1, <3>2, <3>3 DEF Phase, Counted
    <3> QED
      BY <3>1, <3>4, CountIdleStep
  <2> QED
    BY <2>1, <2>2
<1>3. CASE CloseRemove(p)
  BY <1>3, CountRemoved DEF CloseRemove
<1>4. CASE CloseUnlock(p)
  <2>1. /\ StepOf(p) /\ pc[p] = "unlock" /\ pc'[p] = "idle" /\ OthersCount(p)
    BY <1>4, SemopEffect DEF CloseUnlock, StepOf, OthersCount, LockInv, TypeOK
  <2>2. val'.count = val.count /\ undo'[p].count = undo[p].count
    BY <1>4, SemopEffect, Ops DEF CloseUnlock, LockInv, TypeOK
  <2>3. p \notin Users /\ p \notin Users'
    BY <2>1 DEF Users
  <2>4. Phase(p)'
    BY <2>1 DEF Phase
  <2> QED
    BY <2>1, <2>2, <2>3, <2>4, CountStep DEF Stays
<1> QED
  BY <1>1, <1>2, <1>3, <1>4 DEF SemClose

LEMMA CountNext ==
  ASSUME FewProcs
  PROVE  LockInv /\ CountInv /\ [Next]_vars => CountInv'
<1> SUFFICES ASSUME LockInv, CountInv, [Next]_vars PROVE CountInv'
  OBVIOUS
<1>1. LockInv'
  BY LockNext
<1>2. CASE UNCHANGED vars
  <2>1. /\ Users' = Users /\ UNCHANGED <<live, val, undo, pc>>
        /\ \A q \in Procs : Locked(q)' <=> Locked(q)
    BY <1>2 DEF vars, Users, Locked, HasSet
  <2>2. CountMatchesUsers'
    BY <2>1 DEF CountInv, CountMatchesUsers
  <2>3. ASSUME NEW q \in Procs PROVE Phase(q)'
    BY <2>1 DEF CountInv, Phase, Counted
  <2> QED
    BY <2>2, <2>3 DEF CountInv
<1>3. ASSUME NEW p \in Procs, SemCreate(p) PROVE CountInv'
  BY <1>1, <1>3, CountCreate
<1>4. ASSUME NEW p \in Procs, OpenFind(p) PROVE CountInv'
  <2>1. StepOf(p) /\ pc[p] # "ready" /\ pc'[p] = "open"
    BY <1>4 DEF OpenFind, StepOf, LockInv, TypeOK
  <2> QED
    BY <1>1, <1>4, <2>1, CountIdleStep DEF OpenFind, Phase, Locked
<1>5. ASSUME NEW p \in Procs, OpenCount(p) PROVE CountInv'
  <2>1. /\ StepOf(p) /\ pc'[p] = "ready" /\ HasSet(p) /\ HasSet(p)'
        /\ OthersCount(p)
    BY <1>5, SemopEffect, GoToStep DEF OpenCount, OthersCount, LockInv
  <2>2. /\ val'.count = val.count - 1 /\ val.count > 0
        /\ undo'[p].count = undo[p].count + 1
    BY <1>5, SemopEffect, Ops DEF OpenCount, LockInv, TypeOK
  <2>3. p \notin Users /\ p \in Users' /\ ~Locked(p)'
    BY <1>5, <2>1 DEF OpenCount, Users, Locked
  <2> QED
    BY <1>1, <2>1, <2>2, <2>3, CountStep DEF Joins
<1>6. ASSUME NEW p \in Procs, SemOp(p) PROVE CountInv'
  <2>1. PICK n \in Amounts : Semop(p, op_op(n))
    BY <1>6 DEF SemOp
  <2>2. val'.count = val.count /\ undo'[p].count = undo[p].count
    BY <2>1, SemopEffect, Ops, ValuesAssumption DEF LockInv, TypeOK
  <2>3. UNCHANGED <<made, live, pc, sid>> /\ pc[p] = "ready"
    BY <1>6 DEF SemOp
  <2>4. StepOf(p) /\ OthersCount(p)
    BY <2>1, <2>3, SemopEffect DEF StepOf, OthersCount, LockInv
  <2>5. p \in Users' <=> p \in Users
    BY <2>3 DEF Users, HasSet
  <2>6. Phase(p)'
    BY <2>3 DEF Phase
  <2> QED
    BY <1>1, <2>2, <2>4, <2>5, <2>6, CountStep DEF Stays
<1>7. ASSUME NEW p \in Procs, SemRm(p) PROVE CountInv'
  BY <1>7, CountRemoved DEF SemRm
<1>8. ASSUME NEW p \in Procs, SemClose(p) PROVE CountInv'
  BY <1>1, <1>8, CountClose
<1>9. ASSUME NEW p \in Procs, CallFails(p) PROVE CountInv'
  BY <1>1, <1>9, CountDie DEF CallFails, err_sys
<1>10. ASSUME NEW p \in Procs, Exit(p) PROVE CountInv'
  BY <1>1, <1>10, CountDie DEF Exit
<1> QED
  BY <1>2, <1>3, <1>4, <1>5, <1>6, <1>7, <1>8, <1>9, <1>10 DEF Next

LEMMA InvInit == Init => LockInv /\ CountInv
<1> SUFFICES ASSUME Init PROVE LockInv /\ CountInv
  OBVIOUS
<1>1. Users = {} /\ \A q \in Procs : ~Locked(q)
  BY DEF Init, Users, Locked, HasSet
<1>2. LockInv
  BY <1>1, InitTyping DEF Init, LockInv, LockHeldByOne
<1>3. CountInv
  BY <1>1 DEF Init, CountInv, CountMatchesUsers, Phase
<1> QED
  BY <1>2, <1>3

(* As long as there are no more processes than BIGCOUNT, [1] counts the    *)
(* users whatever way they come and go, deaths included, so that [1] never *)
(* exceeds BIGCOUNT and sem_close never reaches its err_dump.              *)
THEOREM CounterExact ==
  ASSUME FewProcs
  PROVE  Spec => []CountMatchesUsers
<1>1. CountInv => CountMatchesUsers
  BY DEF CountInv
<1> QED
  BY <1>1, InvInit, LockNext, CountNext, PTL DEF Spec

(* As long as there are no more processes than BIGCOUNT, a set that        *)
(* somebody uses is never initialised again.                               *)
THEOREM InitialisedOnce ==
  ASSUME FewProcs
  PROVE  Spec => []InitialisedUnused
<1>1. CountInv => InitialisedUnused
  BY DEF CountInv, Phase, InitialisedUnused
<1> QED
  BY <1>1, InvInit, LockNext, CountNext, PTL DEF Spec

-----------------------------------------------------------------------------
(* Removal.  Where a user, a remover and an opener can come from.          *)
Origins(q) ==
  /\ q \in Users' => q \in Users \/ Locked(q) \/ pc[q] = "open"
  /\ Locked(q)' /\ pc'[q] = "rm" =>
       \/ Locked(q) /\ pc[q] = "rm"
       \/ CloseGetval(q) /\ val.count = BIGCOUNT
  /\ pc'[q] = "open" => pc[q] = "open" \/ q \in Openers

LEMMA StepOrigins ==
  ASSUME LockInv, NEW p \in Procs, NEW q \in Procs,
         \/ SemCreate(p) \/ OpenFind(p) \/ OpenCount(p) \/ SemOp(p) \/ SemRm(p)
         \/ SemClose(p)  \/ CallFails(p) \/ Exit(p)
  PROVE  Origins(q)
<1> USE DEF LockInv, TypeOK, Origins, Users, Locked, HasSet
<1>1. CASE CreateFind(p) \/ CreateMake(p) \/ CreateRefused(p)
  BY <1>1 DEF CreateFind, CreateMake, CreateRefused
<1>2. CASE CreateLock(p) \/ CreateSleep(p) \/ CreateAgain(p)
  BY <1>2 DEF CreateLock, CreateSleep, CreateAgain, GoTo
<1>3. CASE CreateGetval(p)
  BY <1>3 DEF CreateGetval, GoTo
<1>4. CASE CreateSetval0(p) \/ CreateSetval1(p)
  BY <1>4 DEF CreateSetval0, CreateSetval1, GoTo
<1>5. CASE CreateEnd(p)
  BY <1>5 DEF CreateEnd, GoTo, Semop
<1>6. CASE OpenFind(p)
  BY <1>6 DEF OpenFind
<1>7. CASE OpenCount(p)
  BY <1>7 DEF OpenCount, GoTo
<1>8. CASE SemOp(p)
  BY <1>8 DEF SemOp
<1>9. CASE SemRm(p) \/ CloseRemove(p)
  BY <1>9 DEF SemRm, CloseRemove, RemoveSet
<1>10. CASE CloseLock(p)
  BY <1>10 DEF CloseLock, GoTo
<1>11. CASE CloseGetval(p)
  <2>1. CASE val.count > BIGCOUNT
    BY <1>11, <2>1 DEF CloseGetval, err_dump, Die
  <2>2. CASE ~(val.count > BIGCOUNT)
    BY <1>11, <2>2 DEF CloseGetval, GoTo
  <2> QED
    BY <2>1, <2>2
<1>12. CASE CloseUnlock(p)
  BY <1>12 DEF CloseUnlock
<1>13. CASE CallFails(p) \/ Exit(p)
  BY <1>13 DEF CallFails, err_sys, Exit, Die
<1> QED
  BY <1>1, <1>2, <1>3, <1>4, <1>5, <1>6, <1>7, <1>8, <1>9, <1>10, <1>11, <1>12,
     <1>13 DEF SemCreate, SemClose

LEMMA NextOrigins ==
  ASSUME LockInv, [Next]_vars, NEW q \in Procs
  PROVE  Origins(q)
<1>1. CASE UNCHANGED vars
  BY <1>1 DEF vars, Origins, Users, Locked, HasSet
<1>2. CASE Next
  BY <1>2, StepOrigins DEF Next
<1> QED
  BY <1>1, <1>2

LEMMA LastNext ==
  ASSUME FewProcs, Openers = {}
  PROVE  LockInv /\ CountInv /\ LastInv /\ [Next]_vars => LastInv'
<1> SUFFICES ASSUME LockInv, CountInv, LastInv, [Next]_vars, NEW p \in Procs
             PROVE  /\ Locked(p)' /\ pc'[p] = "rm" => Users' = {}
                    /\ pc'[p] = "open" => p \in Openers
  BY DEF LastInv
<1>1. pc'[p] = "open" => p \in Openers
  BY NextOrigins DEF Origins, LastInv
<1>2. ASSUME Locked(p)', pc'[p] = "rm" PROVE Users' = {}
  <2>1. Users = {} /\ Locked(p)
    <3>1. CASE Locked(p) /\ pc[p] = "rm"
      BY <3>1 DEF LastInv
    <3>2. CASE CloseGetval(p) /\ val.count = BIGCOUNT
      <4>1. Locked(p) /\ pc[p] = "closeval"
        BY <3>2 DEF CloseGetval, Locked
      <4>2. val.count = BIGCOUNT - Cardinality(Users)
        BY <4>1 DEF CountInv, Phase, Counted
      <4>3. Cardinality(Users) = 0
        BY <3>2, <4>2, UsersCard, ValuesAssumption
      <4> QED
        BY <4>1, <4>3, UsersCard
    <3> QED
      BY <1>2, <3>1, <3>2, NextOrigins DEF Origins
  <2>2. ASSUME NEW q \in Users' PROVE FALSE
    <3>1. q \in Procs /\ pc'[q] = "ready"
      BY DEF Users
    <3>2. Locked(q)
      BY <2>1, <3>1, NextOrigins DEF Origins, LastInv
    <3>3. q = p
      BY <2>1, <3>1, <3>2 DEF LockInv, LockHeldByOne
    <3> QED
      BY <1>2, <3>1, <3>3
  <2> QED
    BY <2>2
<1> QED
  BY <1>1, <1>2

(* Without sem_open, and with no more processes than BIGCOUNT, sem_close   *)
(* removes the set only when nobody uses it, whatever sem_rm and deaths    *)
(* happen meanwhile.                                                       *)
THEOREM RemovedByLast ==
  ASSUME FewProcs, Openers = {}
  PROVE  Spec => RemovedUnused
<1>1. Init => LastInv
  BY DEF Init, LastInv, Locked
<1>2. LastInv => ((\E p \in Procs : CloseRemove(p)) => Users = {})
  BY DEF LastInv, CloseRemove, Locked
<1> QED
  BY <1>1, <1>2, InvInit, LockNext, CountNext, LastNext, PTL DEF Spec, RemovedUnused

-----------------------------------------------------------------------------
(***************************************************************************)
(* What the processes hold, as a set: one element for each unit.           *)
(***************************************************************************)
UnitsOf(s, h) == {u \in s \X (1 .. HoldMax) : u[2] <= h[u[1]]}
Total == Cardinality(UnitsOf(Procs, held))

LEMMA UnitsOfOne ==
  ASSUME NEW p, NEW k \in 0 .. HoldMax
  PROVE  IsFiniteSet({p} \X (1 .. k)) /\ Cardinality({p} \X (1 .. k)) = k
<1>1. IsFiniteSet(1 .. k) /\ Cardinality(1 .. k) = k
  BY FS_Interval, ValuesAssumption
<1>2. IsFiniteSet({p}) /\ Cardinality({p}) = 1
  BY FS_Singleton
<1> QED
  BY <1>1, <1>2, FS_Product

(* One process's units, apart from those of the others.                    *)
LEMMA UnitsSplit ==
  ASSUME NEW s \in SUBSET Procs, NEW p \in s, NEW h \in [Procs -> 0 .. HoldMax]
  PROVE  /\ IsFiniteSet(UnitsOf(s, h)) /\ Cardinality(UnitsOf(s, h)) \in Nat
         /\ Cardinality(UnitsOf(s \ {p}, h)) \in Nat
         /\ Cardinality(UnitsOf(s, h)) = h[p] + Cardinality(UnitsOf(s \ {p}, h))
<1> DEFINE A == UnitsOf(s, h)
           B == UnitsOf(s \ {p}, h)
           C == {p} \X (1 .. h[p])
<1>1. h[p] \in 0 .. HoldMax /\ HoldMax \in Nat
  BY ValuesAssumption
<1>2. IsFiniteSet(C) /\ Cardinality(C) = h[p]
  BY <1>1, UnitsOfOne
<1>3. IsFiniteSet(A) /\ IsFiniteSet(B)
  <2>1. IsFiniteSet(s) /\ IsFiniteSet(1 .. HoldMax)
    BY <1>1, ProcsAssumption, FS_Subset, FS_Interval
  <2>2. IsFiniteSet(s \X (1 .. HoldMax))
    BY <2>1, FS_Product
  <2>3. A \subseteq s \X (1 .. HoldMax) /\ B \subseteq s \X (1 .. HoldMax)
    BY DEF UnitsOf
  <2> QED
    BY <2>2, <2>3, FS_Subset
<1>4. A = B \cup C
  <2>1. \A u : u \in A <=> u \in s \X (1 .. HoldMax) /\ u[2] <= h[u[1]]
    BY DEF UnitsOf
  <2>2. \A u : u \in B <=> u \in s \X (1 .. HoldMax) /\ u[2] <= h[u[1]] /\ u[1] # p
    BY DEF UnitsOf
  <2>3. \A u : u \in C <=> u \in s \X (1 .. HoldMax) /\ u[2] <= h[u[1]] /\ u[1] = p
    BY <1>1
  <2> HIDE DEF A, B, C
  <2> QED
    BY <2>1, <2>2, <2>3
<1>5. B \cap C = {}
  BY DEF UnitsOf
<1>6. Cardinality(A) = Cardinality(B) + Cardinality(C) /\ Cardinality(A) \in Nat
      /\ Cardinality(B) \in Nat
  <2> HIDE DEF A, B, C
  <2>1. Cardinality(B \cup C) = Cardinality(B) + Cardinality(C) - Cardinality({})
    BY <1>2, <1>3, <1>5, FS_Union
  <2>2. Cardinality({}) = 0 /\ Cardinality(A) \in Nat /\ Cardinality(B) \in Nat
        /\ Cardinality(C) \in Nat
    BY <1>2, <1>3, FS_EmptySet, FS_CardinalityType
  <2> QED
    BY <1>4, <2>1, <2>2
<1> HIDE DEF A, B, C
<1> QED
  BY <1>1, <1>2, <1>3, <1>6 DEF A, B

LEMMA SumOfHeld ==
  ASSUME held \in [Procs -> 0 .. HoldMax]
  PROVE  MapThenSumSet(LAMBDA p : held[p], Procs) = Total
<1> DEFINE c(s) == CHOOSE x \in s : TRUE
           f == [s \in SUBSET Procs |-> Cardinality(UnitsOf(s, held))]
           body(g) == [s \in SUBSET Procs |-> IF s = {} THEN 0 ELSE held[c(s)] + g[s \ {c(s)}]]
           iter == CHOOSE g : g = body(g)
<1>1. f = body(f)
  <2>1. ASSUME NEW s \in SUBSET Procs
        PROVE  f[s] = IF s = {} THEN 0 ELSE held[c(s)] + f[s \ {c(s)}]
    <3>1. CASE s = {}
      <4>1. UnitsOf(s, held) = {}
        BY <3>1 DEF UnitsOf
      <4> QED
        BY <3>1, <4>1, FS_EmptySet
    <3>2. CASE s # {}
      <4>1. c(s) \in s
        BY <3>2
      <4> HIDE DEF c
      <4>2. s \ {c(s)} \in SUBSET Procs
        OBVIOUS
      <4> QED
        BY <3>2, <4>1, <4>2, UnitsSplit
    <3> QED
      BY <3>1, <3>2
  <2> HIDE DEF c
  <2> QED
    BY <2>1
<1>2. iter = body(iter)
  <2> HIDE DEF f, c
  <2> QED
    BY <1>1
<1>3. \A s \in SUBSET Procs : iter[s] = f[s]
  <2> DEFINE Bad == {s \in SUBSET Procs : iter[s] # f[s]}
  <2> SUFFICES ASSUME Bad # {} PROVE FALSE
    OBVIOUS
  <2>1. Bad \subseteq FiniteSubsetsOf(Procs)
    BY ProcsAssumption, FS_Subset DEF FiniteSubsetsOf
  <2>2. PICK s \in Bad : \A t \in Bad : <<t, s>> \notin StrictSubsetOrdering(Procs)
    BY <2>1, FS_StrictSubsetOrderingWellFounded, WFMin
  <2>3. s # {}
    <3> HIDE DEF iter, f
    <3> QED
      BY <1>1, <1>2
  <2>4. c(s) \in s /\ s \in SUBSET Procs
    BY <2>3
  <2>5. s \ {c(s)} \notin Bad
    <3> HIDE DEF c, Bad
    <3>1. /\ s \ {c(s)} \in SUBSET Procs /\ s \ {c(s)} \subseteq s
          /\ s \ {c(s)} # s
      BY <2>4
    <3>2. <<s \ {c(s)}, s>> \in StrictSubsetOrdering(Procs)
      BY <2>4, <3>1 DEF StrictSubsetOrdering
    <3> QED
      BY <2>2, <3>2
  <2>6. iter[s \ {c(s)}] = f[s \ {c(s)}]
    BY <2>4, <2>5
  <2>7. iter[s] = held[c(s)] + iter[s \ {c(s)}] /\ f[s] = held[c(s)] + f[s \ {c(s)}]
    <3> HIDE DEF iter, f, c
    <3> QED
      BY <1>1, <1>2, <2>3, <2>4
  <2> QED
    BY <2>6, <2>7
<1>4. MapThenSumSet(LAMBDA p : held[p], Procs) = iter[Procs]
  BY DEF MapThenSumSet, MapThenFoldSet
<1> QED
  BY <1>3, <1>4 DEF Total

(* Processes that attach with sem_create only, that nobody removes the set *)
(* from under, and that give back only what they took.                     *)
Sharing == FewProcs /\ Openers = {} /\ Removers = {} /\ HoldMin = 0

(* What the users hold is what the kernel would give back for them, and    *)
(* what is left of InitVal is what can be taken; a creator that is about   *)
(* to initialise the counter of processes has initialised the semaphore.   *)
SharedInv ==
  /\ \A p \in Procs : p \notin Users => held[p] = 0
  /\ \A p \in Procs : undo[p].sem = held[p]
  /\ val.sem >= 0
  /\ \A p \in Procs : Locked(p) /\ pc[p] = "setval1" => val.sem = InitVal
  /\ Level + Total = InitVal

AllInv == LockInv /\ CountInv /\ LastInv /\ SharedInv

LEMMA HeldTyping ==
  ASSUME HoldMin = 0, TypeOK
  PROVE  held \in [Procs -> 0 .. HoldMax] /\ Total \in Nat
<1>1. held \in [Procs -> 0 .. HoldMax]
  BY DEF TypeOK
<1>2. CASE Procs = {}
  <2>1. UnitsOf(Procs, held) = {}
    BY <1>2 DEF UnitsOf
  <2> QED
    BY <1>1, <2>1, FS_EmptySet DEF Total
<1>3. CASE Procs # {}
  BY <1>1, <1>3, UnitsSplit DEF Total
<1> QED
  BY <1>1, <1>2, <1>3

LEMMA TotalStep ==
  ASSUME HoldMin = 0, TypeOK, TypeOK', NEW p \in Procs, \A q \in Procs \ {p} : held'[q] = held[q]
  PROVE  Total' = Total - held[p] + held'[p]
<1>1. held \in [Procs -> 0 .. HoldMax] /\ held' \in [Procs -> 0 .. HoldMax]
  BY DEF TypeOK
<1>2. UnitsOf(Procs \ {p}, held') = UnitsOf(Procs \ {p}, held)
  BY DEF UnitsOf
<1>3. Total = held[p] + Cardinality(UnitsOf(Procs \ {p}, held))
  BY <1>1, UnitsSplit DEF Total
<1>4. Cardinality(UnitsOf(Procs, held')) = held'[p] + Cardinality(UnitsOf(Procs \ {p}, held'))
  BY <1>1, UnitsSplit
<1>5. Cardinality(UnitsOf(Procs \ {p}, held)) \in Nat
  BY <1>1, UnitsSplit
<1>6. held[p] \in Int /\ held'[p] \in Int
  BY <1>1, ValuesAssumption
<1> QED
  BY <1>2, <1>3, <1>4, <1>5, <1>6 DEF Total

LEMMA TotalNone ==
  ASSUME \A p \in Procs : held[p] = 0
  PROVE  Total = 0
<1>1. UnitsOf(Procs, held) = {}
  BY ValuesAssumption DEF UnitsOf
<1> QED
  BY <1>1, FS_EmptySet DEF Total

LEMMA LevelOf ==
  ASSUME FewProcs, LockInv, CountInv
  PROVE  /\ ~live => Level = InitVal /\ Users = {}
         /\ Users # {} => live /\ Level = val.sem
         /\ val.count > 0 => live /\ Level = val.sem
         /\ val.count = 0 /\ Users = {} => Level = InitVal
         /\ val.count >= 0
<1>1. Cardinality(Users) \in Nat /\ Cardinality(Procs) \in Nat
      /\ Cardinality(Users) <= Cardinality(Procs)
  BY ProcsAssumption, FS_Subset, FS_CardinalityType DEF Users
<1>2. Users # {} => live
  BY DEF Users, HasSet
<1>3. val.count = 0 \/ live
  BY DEF CountInv, CountMatchesUsers
<1>4. ~(0 > 0)
  OBVIOUS
<1>5. (~live => Level = InitVal /\ Users = {}) /\ (Users # {} => live /\ Level = val.sem)
  BY <1>2 DEF Level
<1>6. val.count > 0 => live /\ Level = val.sem
  BY <1>3, <1>4 DEF Level
<1>7. val.count = 0 /\ Users = {} => Level = InitVal
  BY <1>4 DEF Level
<1>8. val.count >= 0
  BY <1>1, ValuesAssumption DEF FewProcs, CountInv, CountMatchesUsers
<1> QED
  BY <1>5, <1>6, <1>7, <1>8

SharedStep == [Shared!SNext]_(Shared!svars)

LEMMA StutterShared ==
  ASSUME Users' = Users, Level' = Level, held' = held
  PROVE  SharedStep
BY DEF SharedStep, Shared!svars

(* A step of p within sem_create or sem_close that leaves the counter, the *)
(* semaphore and what the kernel would give back as they are.              *)
LEMMA QuietShared ==
  ASSUME Sharing, AllInv, LockInv', NEW p \in Procs,
         UNCHANGED <<live, made, held>>, val'.sem = val.sem, val'.count = val.count,
         \A q \in Procs : undo'[q].sem = undo[q].sem,
         \A q \in Procs \ {p} : pc'[q] = pc[q] /\ sid'[q] = sid[q],
         pc[p] # "ready", pc'[p] \notin {"ready", "setval1"}
  PROVE  SharedInv' /\ SharedStep
<1>1. Users' = Users
  BY DEF Users, HasSet
<1>2. Level' = Level
  BY <1>1 DEF Level
<1>3. \A q \in Procs : Locked(q)' /\ pc'[q] = "setval1" => Locked(q) /\ pc[q] = "setval1"
  BY DEF Locked, HasSet
<1>4. Total' = Total
  BY DEF Total
<1>5. SharedInv'
  BY <1>1, <1>2, <1>3, <1>4 DEF AllInv, SharedInv
<1> QED
  BY <1>1, <1>2, <1>5, StutterShared

(* The same where the set is made.                                         *)
LEMMA MakeShared ==
  ASSUME Sharing, AllInv, LockInv', CountInv', NEW p \in Procs, CreateMake(p)
  PROVE  SharedInv' /\ SharedStep
<1>1. /\ ~live /\ val' = Zero /\ UNCHANGED <<undo, held>> /\ made' = made + 1
      /\ pc' = [pc EXCEPT ![p] = "lock"] /\ sid' = [sid EXCEPT ![p] = made + 1]
      /\ pc[p] \in {"idle", "again"}
  BY DEF CreateMake
<1>2. Users = {} /\ Level = InitVal
  BY <1>1, LevelOf DEF AllInv, Sharing
<1>3. Users' = {}
  BY <1>1 DEF Users, HasSet, AllInv, LockInv, TypeOK
<1>4. Level' = InitVal
  BY <1>1, <1>3 DEF Level, Zero
<1>5. \A q \in Procs : ~(Locked(q)' /\ pc'[q] = "setval1")
  BY <1>1 DEF Locked, HasSet, AllInv, LockInv, TypeOK
<1>6. Total' = Total /\ val'.sem = 0
  BY <1>1 DEF Total, Zero
<1>7. SharedInv'
  BY <1>1, <1>2, <1>3, <1>4, <1>5, <1>6 DEF AllInv, SharedInv
<1> QED
  BY <1>1, <1>2, <1>3, <1>4, <1>7, StutterShared

(* SETVAL of [0] and of [1]: nobody uses the set.                          *)
LEMMA SetvalShared ==
  ASSUME Sharing, AllInv, LockInv', CountInv', NEW p \in Procs, CreateSetval0(p) \/ CreateSetval1(p)
  PROVE  SharedInv' /\ SharedStep
<1>1. /\ HasSet(p) /\ pc[p] \in {"setval0", "setval1"} /\ Locked(p)
      /\ UNCHANGED <<live, made, held, sid>> /\ pc' = [pc EXCEPT ![p] = pc'[p]]
      /\ pc'[p] \in {"setval1", "endcreate"}
  BY DEF CreateSetval0, CreateSetval1, GoTo, Locked, LockedPoints, AllInv, LockInv, TypeOK
<1>2. Users = {} /\ val.count = 0
  BY <1>1 DEF AllInv, CountInv, Phase
<1>3. Level = InitVal /\ \A q \in Procs : held[q] = 0
  BY <1>2, LevelOf DEF AllInv, Sharing, SharedInv
<1>4. Users' = {}
  <2>1. \A q \in Procs : q # p => pc'[q] = pc[q]
    BY <1>1 DEF AllInv, LockInv, TypeOK
  <2> QED
    BY <1>1, <1>2, <2>1 DEF Users, HasSet
<1>5. Total' = Total
  BY <1>1 DEF Total
<1>6. CASE CreateSetval0(p)
  <2>1. /\ val'.sem = InitVal /\ val'.count = 0 /\ \A q \in Procs : undo'[q].sem = 0
    BY <1>2, <1>6 DEF CreateSetval0, SetSem
  <2>2. Level' = InitVal
    BY <1>4, <2>1 DEF Level
  <2>3. SharedInv'
    BY <1>1, <1>3, <1>5, <2>1, <2>2, ValuesAssumption DEF AllInv, SharedInv
  <2> QED
    BY <1>1, <1>2, <1>3, <1>4, <2>2, <2>3, StutterShared
<1>7. CASE CreateSetval1(p)
  <2>1. /\ val'.sem = val.sem /\ val'.count = BIGCOUNT /\ pc[p] = "setval1"
        /\ \A q \in Procs : undo'[q].sem = undo[q].sem
        /\ pc'[p] = "endcreate" /\ live'
    BY <1>1, <1>7 DEF CreateSetval1, SetCount, HasSet, GoTo, AllInv, LockInv, TypeOK
  <2>2. val.sem = InitVal
    BY <1>1, <2>1 DEF AllInv, SharedInv
  <2>3. Level' = InitVal
    BY <2>1, <2>2, ValuesAssumption DEF Level
  <2>4. \A q \in Procs : Locked(q)' => q = p
    BY <1>1 DEF Locked, HasSet, AllInv, LockInv, LockHeldByOne, LockedPoints
  <2>5. SharedInv'
    BY <1>1, <1>3, <1>5, <2>1, <2>2, <2>3, <2>4, ValuesAssumption DEF AllInv, SharedInv
  <2> QED
    BY <1>1, <1>2, <1>3, <1>4, <2>3, <2>5, StutterShared
<1> QED
  BY <1>6, <1>7

(* What a semop does to the semaphore itself.                              *)
LEMMA SemopSem ==
  ASSUME TypeOK, NEW p \in Procs, NEW op, op.sem \in Int, Semop(p, op)
  PROVE  /\ val'.sem = val.sem + op.sem /\ val.sem + op.sem >= 0
         /\ undo'[p].sem = undo[p].sem - op.sem
         /\ \A q \in Procs \ {p} : undo'[q] = undo[q]
         /\ op.sem = 0 => val'.sem = val.sem /\ \A q \in Procs : undo'[q].sem = undo[q].sem
<1>1. /\ val'.sem = val.sem + op.sem /\ val.sem + op.sem >= 0
      /\ undo'[p].sem = undo[p].sem - op.sem
      /\ \A q \in Procs \ {p} : undo'[q] = undo[q]
  BY DEF TypeOK, Semop, Plus, Minus, CanSemop
<1>2. val.sem \in Int /\ \A q \in Procs : undo[q].sem \in Int
  BY DEF TypeOK
<1> QED
  BY <1>1, <1>2

LEMMA CreateShared ==
  ASSUME Sharing, AllInv, LockInv', CountInv', NEW p \in Procs, SemCreate(p)
  PROVE  SharedInv' /\ SharedStep
<1>t. LockInv /\ TypeOK /\ pc \in [Procs -> Points] /\ sid \in [Procs -> 0 .. MaxId]
  BY DEF AllInv, LockInv, TypeOK
<1>1. CASE CreateFind(p) \/ CreateRefused(p)
  <2>1. /\ UNCHANGED <<live, made, held, val, undo>>
        /\ \A q \in Procs \ {p} : pc'[q] = pc[q] /\ sid'[q] = sid[q]
        /\ pc[p] # "ready" /\ pc'[p] \notin {"ready", "setval1"}
    BY <1>t, <1>1 DEF CreateFind, CreateRefused
  <2> QED
    BY <2>1, QuietShared
<1>2. CASE CreateMake(p)
  BY <1>2, MakeShared
<1>3. CASE CreateLock(p)
  <2>1. Semop(p, op_lock) /\ GoTo(p, "getval") /\ pc[p] # "ready"
    BY <1>3 DEF CreateLock
  <2>2. /\ val'.sem = val.sem /\ val'.count = val.count + 0
        /\ \A q \in Procs : undo'[q].sem = undo[q].sem
    BY <1>t, <2>1, Ops, SemopSem, SemopEffect
  <2>3. val'.count = val.count
    BY <1>t, <2>2 DEF TypeOK
  <2>4. /\ UNCHANGED <<live, made, held>>
        /\ \A q \in Procs \ {p} : pc'[q] = pc[q] /\ sid'[q] = sid[q]
        /\ pc'[p] = "getval"
    BY <1>t, <2>1 DEF GoTo
  <2> QED
    BY <2>1, <2>2, <2>3, <2>4, QuietShared
<1>4. CASE CreateSleep(p) \/ CreateAgain(p) \/ CreateGetval(p)
  <2>1. /\ UNCHANGED <<live, made, held, val, undo, sid>> /\ pc[p] # "ready"
        /\ \E l \in {"locksleep", "again", "setval0", "endcreate"} : pc' = [pc EXCEPT ![p] = l]
    BY <1>4 DEF CreateSleep, CreateAgain, CreateGetval, GoTo
  <2>2. /\ \A q \in Procs \ {p} : pc'[q] = pc[q] /\ sid'[q] = sid[q]
        /\ pc'[p] \notin {"ready", "setval1"}
    BY <1>t, <2>1
  <2> QED
    BY <2>1, <2>2, QuietShared
<1>5. CASE CreateSetval0(p) \/ CreateSetval1(p)
  BY <1>5, SetvalShared
<1>6. CASE CreateEnd(p)
  <2>1. /\ Semop(p, op_endcreate) /\ pc' = [pc EXCEPT ![p] = "ready"]
        /\ UNCHANGED <<made, live, sid, held>> /\ pc[p] = "endcreate"
    BY <1>6 DEF CreateEnd, GoTo
  <2>2. /\ val'.sem = val.sem /\ val.count + (-1) >= 0 /\ HasSet(p)
        /\ \A q \in Procs : undo'[q].sem = undo[q].sem
    BY <1>t, <2>1, Ops, SemopSem, SemopEffect
  <2>3. val.count > 0
    BY <1>t, <2>2 DEF TypeOK
  <2>4. \A q \in Procs : pc'[q] = IF q = p THEN "ready" ELSE pc[q]
    BY <1>t, <2>1
  <2>5. p \notin Users /\ Users' = Users \cup {p}
    BY <2>1, <2>2, <2>4 DEF Users, HasSet
  <2>6. Level = val.sem
    BY <2>3, LevelOf DEF AllInv, Sharing
  <2>7. Level' = val.sem
    BY <2>1, <2>2, <2>5 DEF Level, HasSet
  <2>8. Total' = Total
    BY <2>1 DEF Total
  <2>9. \A q \in Procs : Locked(q)' /\ pc'[q] = "setval1" => Locked(q) /\ pc[q] = "setval1"
    BY <2>1, <2>4 DEF Locked, HasSet
  <2>10. SharedInv'
    BY <2>1, <2>2, <2>5, <2>6, <2>7, <2>8, <2>9 DEF AllInv, SharedInv
  <2>11. Shared!Attach(p)
    BY <2>1, <2>5, <2>6, <2>7 DEF Shared!Attach
  <2> QED
    BY <2>10, <2>11 DEF SharedStep, Shared!SNext
<1> QED
  BY <1>1, <1>2, <1>3, <1>4, <1>5, <1>6 DEF SemCreate

LEMMA OpShared ==
  ASSUME Sharing, AllInv, TypeOK', NEW p \in Procs, SemOp(p)
  PROVE  SharedInv' /\ SharedStep
<1>t. LockInv /\ TypeOK /\ held \in [Procs -> 0 .. HoldMax]
  BY HeldTyping DEF AllInv, LockInv, Sharing
<1>1. PICK n \in Amounts : /\ held[p] - n \in HoldMin .. HoldMax
                           /\ Semop(p, op_op(n))
                           /\ held' = [held EXCEPT ![p] = held[p] - n]
  BY DEF SemOp
<1>2. UNCHANGED <<made, live, pc, sid>> /\ pc[p] = "ready" /\ n \in Int
  BY ValuesAssumption DEF SemOp
<1>3. /\ val'.sem = val.sem + n /\ val.sem + n >= 0 /\ HasSet(p)
      /\ undo'[p].sem = undo[p].sem - n
      /\ \A q \in Procs \ {p} : undo'[q] = undo[q]
  BY <1>t, <1>1, <1>2, Ops, SemopSem, SemopEffect
<1>4. p \in Users /\ Users' = Users
  BY <1>2, <1>3 DEF Users, HasSet
<1>5. Level = val.sem /\ Level' = val.sem + n
  <2>1. Level = val.sem
    BY <1>4, LevelOf DEF AllInv, Sharing
  <2>2. Level' = val'.sem
    BY <1>2, <1>3, <1>4 DEF Level, HasSet
  <2> QED
    BY <1>3, <2>1, <2>2
<1>6. held'[p] = held[p] - n /\ \A q \in Procs \ {p} : held'[q] = held[q]
  BY <1>t, <1>1
<1>7. Total' = Total - held[p] + (held[p] - n)
  BY <1>t, <1>6, TotalStep DEF Sharing
<1>8. /\ Total \in Nat /\ held[p] \in Int /\ val.sem \in Int /\ InitVal \in Int
      /\ undo[p].sem = held[p] /\ Level + Total = InitVal
  BY <1>t, HeldTyping, ValuesAssumption DEF TypeOK, AllInv, SharedInv, Sharing
<1>9. Level' + Total' = InitVal
  BY <1>2, <1>5, <1>7, <1>8
<1>10. \A q \in Procs : (Locked(q)' <=> Locked(q)) /\ pc'[q] = pc[q]
  BY <1>2 DEF Locked, HasSet
<1>11. \A q \in Procs : q \notin Users' => held'[q] = 0
  BY <1>4, <1>6 DEF AllInv, SharedInv
<1>12. \A q \in Procs : undo'[q].sem = held'[q]
  BY <1>3, <1>6, <1>8 DEF AllInv, SharedInv
<1>13. \A q \in Procs : Locked(q)' /\ pc'[q] = "setval1" => FALSE
  BY <1>4, <1>10 DEF AllInv, CountInv, Phase
<1>14. SharedInv'
  BY <1>3, <1>9, <1>11, <1>12, <1>13 DEF SharedInv
<1>15. Shared!Operate(p)
  BY <1>1, <1>3, <1>4, <1>5 DEF Shared!Operate, Sharing
<1> QED
  BY <1>14, <1>15 DEF SharedStep, Shared!SNext

(* A user that exits gives back what the kernel noted for it; a process    *)
(* that is no user has nothing to give back.                               *)
LEMMA DieShared ==
  ASSUME Sharing, AllInv, TypeOK', NEW p \in Procs, NEW how \in Gone, Die(p, how)
  PROVE  SharedInv' /\ SharedStep
<1>t. /\ LockInv /\ TypeOK /\ held \in [Procs -> 0 .. HoldMax] /\ Total \in Nat
      /\ val.sem \in Int /\ val.sem >= 0 /\ InitVal \in Int
      /\ val.count \in Int /\ val.count >= 0 /\ held[p] \in Nat
  <2>1. LockInv /\ TypeOK /\ held \in [Procs -> 0 .. HoldMax] /\ Total \in Nat
    BY HeldTyping DEF AllInv, LockInv, Sharing
  <2>2. val.count >= 0 /\ val.sem >= 0
    BY LevelOf DEF AllInv, SharedInv, Sharing
  <2> QED
    BY <2>1, <2>2, ValuesAssumption DEF TypeOK
<1>1. undo[p].sem = held[p] /\ AdjustedSem(p) = {val.sem + held[p]}
  BY <1>t DEF AllInv, SharedInv, AdjustedSem
<1>2. /\ val'.sem = val.sem + held[p] /\ val'.count = val.count + undo[p].count
      /\ UNCHANGED <<made, live>>
      /\ pc' = [pc EXCEPT ![p] = how] /\ sid' = [sid EXCEPT ![p] = 0]
      /\ held' = [held EXCEPT ![p] = 0] /\ undo' = [undo EXCEPT ![p] = Zero]
  BY <1>1 DEF Die
<1>3. /\ \A q \in Procs : held'[q] = IF q = p THEN 0 ELSE held[q]
      /\ \A q \in Procs : undo'[q].sem = IF q = p THEN 0 ELSE undo[q].sem
      /\ \A q \in Procs : q # p => pc'[q] = pc[q] /\ sid'[q] = sid[q]
      /\ pc'[p] = how
  BY <1>t, <1>2 DEF TypeOK
<1>4. Users' = Users \ {p}
  BY <1>2, <1>3 DEF Users, HasSet
<1>5. Total' = Total - held[p]
  <2>1. Total' = Total - held[p] + held'[p]
    BY <1>t, <1>3, TotalStep DEF Sharing
  <2> QED
    BY <1>t, <1>3, <2>1
<1>6. Level' = Level + held[p]
  <2>1. CASE p \in Users
    <3>1. undo[p].count = 1 /\ Level = val.sem /\ live
      BY <2>1, LevelOf DEF AllInv, CountInv, CountMatchesUsers, Sharing
    <3>2. val'.count > 0
      BY <1>t, <1>2, <3>1
    <3>3. Level' = val'.sem
      BY <1>2, <3>1, <3>2 DEF Level
    <3> QED
      BY <1>2, <3>1, <3>3
  <2>2. CASE p \notin Users
    <3>1. undo[p].count = 0 /\ held[p] = 0
      BY <2>2 DEF AllInv, CountInv, CountMatchesUsers, SharedInv
    <3>2. val'.count = val.count /\ val'.sem = val.sem
      BY <1>t, <1>2, <3>1
    <3>3. Level' = Level
      BY <1>2, <1>4, <2>2, <3>2 DEF Level
    <3>4. Level \in Int
      BY <1>t DEF Level
    <3> QED
      BY <3>1, <3>3, <3>4
  <2> QED
    BY <2>1, <2>2
<1>7. Level' + Total' = InitVal
  <2>1. Level + Total = InitVal /\ Level \in Int
    BY <1>t DEF AllInv, SharedInv, Level
  <2> QED
    BY <1>t, <1>5, <1>6, <2>1
<1>8. \A q \in Procs : Locked(q)' /\ pc'[q] = "setval1" => Locked(q) /\ pc[q] = "setval1" /\ q # p
  BY <1>2, <1>3 DEF Locked, HasSet
<1>9. ASSUME NEW q \in Procs, Locked(q)', pc'[q] = "setval1" PROVE val'.sem = InitVal
  <2>1. Locked(q) /\ pc[q] = "setval1"
    BY <1>8, <1>9
  <2>2. val.sem = InitVal /\ Users = {}
    BY <2>1 DEF AllInv, SharedInv, CountInv, Phase
  <2>3. held[p] = 0
    BY <2>2 DEF AllInv, SharedInv
  <2> QED
    BY <1>t, <1>2, <2>2, <2>3
<1>10. val'.sem >= 0
  BY <1>t, <1>2
<1>11. /\ \A q \in Procs : q \notin Users' => held'[q] = 0
       /\ \A q \in Procs : undo'[q].sem = held'[q]
  BY <1>3, <1>4 DEF AllInv, SharedInv
<1>12. SharedInv'
  BY <1>7, <1>9, <1>10, <1>11 DEF SharedInv
<1>13. CASE p \in Users
  <2>1. Shared!Crash(p)
    BY <1>2, <1>4, <1>6, <1>13 DEF Shared!Crash
  <2> QED
    BY <1>12, <2>1 DEF SharedStep, Shared!SNext
<1>14. CASE p \notin Users
  <2>1. held[p] = 0 /\ Users' = Users
    BY <1>4, <1>14 DEF AllInv, SharedInv
  <2>2. held' = held
    BY <1>t, <1>2, <2>1
  <2>3. Level' = Level
    <3>1. Level \in Int
      BY <1>t DEF Level
    <3> QED
      BY <1>6, <2>1, <3>1
  <2> QED
    BY <1>12, <2>1, <2>2, <2>3, StutterShared
<1> QED
  BY <1>13, <1>14

LEMMA CloseShared ==
  ASSUME Sharing, AllInv, LockInv', CountInv', NEW p \in Procs, SemClose(p)
  PROVE  SharedInv' /\ SharedStep
<1>t. /\ LockInv /\ TypeOK /\ pc \in [Procs -> Points] /\ sid \in [Procs -> 0 .. MaxId]
      /\ val.count >= 0 /\ val.count \in Int
  BY LevelOf DEF AllInv, LockInv, TypeOK, Sharing
<1>1. CASE CloseLock(p)
  <2>1. /\ Semop(p, op_close) /\ pc' = [pc EXCEPT ![p] = "closeval"]
        /\ UNCHANGED <<made, live, sid, held>> /\ pc[p] = "ready" /\ held[p] = 0
    BY <1>1 DEF CloseLock, GoTo
  <2>2. /\ val'.sem = val.sem /\ val'.count = val.count + 1 /\ HasSet(p)
        /\ \A q \in Procs : undo'[q].sem = undo[q].sem
    BY <1>t, <2>1, Ops, SemopSem, SemopEffect
  <2>3. \A q \in Procs : pc'[q] = IF q = p THEN "closeval" ELSE pc[q]
    BY <1>t, <2>1
  <2>4. p \in Users /\ Users' = Users \ {p}
    BY <2>1, <2>2, <2>3 DEF Users, HasSet
  <2>5. Level = val.sem
    BY <2>4, LevelOf DEF AllInv, Sharing
  <2>6. val'.count > 0
    BY <1>t, <2>2
  <2>7. Level' = val.sem
    BY <2>1, <2>2, <2>6 DEF Level, HasSet
  <2>8. Total' = Total
    BY <2>1 DEF Total
  <2>9. \A q \in Procs : Locked(q)' /\ pc'[q] = "setval1" => Locked(q) /\ pc[q] = "setval1"
    BY <2>1, <2>3 DEF Locked, HasSet
  <2>10. SharedInv'
    BY <2>1, <2>2, <2>4, <2>5, <2>7, <2>8, <2>9 DEF AllInv, SharedInv
  <2>11. Shared!Detach(p)
    BY <2>1, <2>4, <2>5, <2>7 DEF Shared!Detach
  <2> QED
    BY <2>10, <2>11 DEF SharedStep, Shared!SNext
<1>2. CASE CloseGetval(p)
  <2>1. CASE val.count > BIGCOUNT
    <3>1. Die(p, "dumped") /\ TypeOK'
      BY <1>2, <2>1 DEF CloseGetval, err_dump, LockInv
    <3> QED
      BY <3>1, DieShared
  <2>2. CASE ~(val.count > BIGCOUNT)
    <3>1. /\ UNCHANGED <<live, made, held, val, undo, sid>> /\ pc[p] # "ready"
          /\ \E l \in {"rm", "unlock"} : pc' = [pc EXCEPT ![p] = l]
      BY <1>2, <2>2 DEF CloseGetval, GoTo
    <3>2. /\ \A q \in Procs \ {p} : pc'[q] = pc[q] /\ sid'[q] = sid[q]
          /\ pc'[p] \notin {"ready", "setval1"}
      BY <1>t, <3>1
    <3> QED
      BY <3>1, <3>2, QuietShared
  <2> QED
    BY <2>1, <2>2
<1>3. CASE CloseRemove(p)
  <2>1. /\ HasSet(p) /\ pc[p] = "rm" /\ Locked(p) /\ ~live' /\ val'.sem = 0
        /\ \A q \in Procs : undo'[q].sem = 0
        /\ held' = held
    BY <1>3 DEF CloseRemove, RemoveSet, Locked
  <2>2. Users = {} /\ Counted
    BY <2>1 DEF AllInv, LastInv, CountInv, Phase
  <2>3. Users' = {} /\ Level' = InitVal /\ Total' = Total
        /\ \A q \in Procs : ~Locked(q)'
    BY <2>1 DEF Users, Locked, HasSet, Level, Total
  <2>4. val.count > 0
    BY <2>2, FS_EmptySet, ValuesAssumption DEF Counted
  <2>5. \A q \in Procs : held[q] = 0
    BY <2>2 DEF AllInv, SharedInv
  <2>6. Total = 0
    BY <2>5, TotalNone
  <2>7. Level = InitVal
    <3>1. Level + Total = InitVal /\ Level = val.sem
      BY <2>4, LevelOf DEF AllInv, SharedInv, Sharing
    <3> QED
      BY <1>t, <2>6, <3>1, ValuesAssumption DEF TypeOK
  <2>8. SharedInv'
    BY <2>1, <2>3, <2>5, <2>6, <2>7 DEF AllInv, SharedInv
  <2> QED
    BY <2>1, <2>2, <2>3, <2>7, <2>8, StutterShared
<1>4. CASE CloseUnlock(p)
  <2>1. /\ Semop(p, op_unlock) /\ pc[p] # "ready" /\ UNCHANGED <<live, made, held>>
        /\ pc' = [pc EXCEPT ![p] = "idle"] /\ sid' = [sid EXCEPT ![p] = 0]
    BY <1>4 DEF CloseUnlock
  <2>2. /\ val'.sem = val.sem /\ val'.count = val.count + 0
        /\ \A q \in Procs : undo'[q].sem = undo[q].sem
    BY <1>t, <2>1, Ops, SemopSem, SemopEffect
  <2>3. val'.count = val.count
    BY <1>t, <2>2
  <2>4. /\ \A q \in Procs \ {p} : pc'[q] = pc[q] /\ sid'[q] = sid[q]
        /\ pc'[p] = "idle"
    BY <1>t, <2>1
  <2> QED
    BY <2>1, <2>2, <2>3, <2>4, QuietShared
<1> QED
  BY <1>1, <1>2, <1>3, <1>4 DEF SemClose

(* Every step preserves the invariant and is one of the shared counter's.  *)
LEMMA SharedNext ==
  ASSUME Sharing
  PROVE  AllInv /\ [Next]_vars => AllInv' /\ SharedStep
<1> SUFFICES ASSUME AllInv, [Next]_vars PROVE AllInv' /\ SharedStep
  OBVIOUS
<1>1. LockInv' /\ CountInv' /\ LastInv' /\ TypeOK'
  BY LockNext, CountNext, LastNext DEF AllInv, Sharing, LockInv
<1>2. SharedInv' /\ SharedStep
  <2>1. CASE UNCHANGED vars
    <3>1. /\ Users' = Users /\ Level' = Level /\ Total' = Total /\ held' = held
          /\ UNCHANGED <<val, undo, pc>> /\ \A q \in Procs : Locked(q)' <=> Locked(q)
      BY <2>1 DEF vars, Users, Level, Total, Locked, HasSet
    <3>2. SharedInv'
      BY <3>1 DEF AllInv, SharedInv
    <3> QED
      BY <3>1, <3>2, StutterShared
  <2>2. ASSUME NEW p \in Procs, SemCreate(p) PROVE SharedInv' /\ SharedStep
    BY <1>1, <2>2, CreateShared
  <2>3. ASSUME NEW p \in Procs, OpenFind(p) \/ OpenCount(p) \/ SemRm(p) PROVE FALSE
    BY <2>3 DEF OpenFind, OpenCount, SemRm, Sharing, AllInv, LastInv
  <2>4. ASSUME NEW p \in Procs, SemOp(p) PROVE SharedInv' /\ SharedStep
    BY <1>1, <2>4, OpShared
  <2>5. ASSUME NEW p \in Procs, SemClose(p) PROVE SharedInv' /\ SharedStep
    BY <1>1, <2>5, CloseShared
  <2>6. ASSUME NEW p \in Procs, CallFails(p) PROVE SharedInv' /\ SharedStep
    BY <1>1, <2>6, DieShared DEF CallFails, err_sys
  <2>7. ASSUME NEW p \in Procs, Exit(p) PROVE SharedInv' /\ SharedStep
    BY <1>1, <2>7, DieShared DEF Exit
  <2> QED
    BY <2>1, <2>2, <2>3, <2>4, <2>5, <2>6, <2>7 DEF Next
<1> QED
  BY <1>1, <1>2 DEF AllInv

LEMMA SharedInit ==
  ASSUME Sharing, Init
  PROVE  AllInv /\ Shared!SInit
<1>1. LockInv /\ CountInv /\ LastInv
  BY InvInit DEF Init, LastInv, Locked
<1>2. Users = {} /\ Level = InitVal /\ \A q \in Procs : ~Locked(q)
  BY DEF Init, Users, Level, Locked, HasSet
<1>3. \A q \in Procs : held[q] = 0 /\ undo[q].sem = 0
  BY DEF Init
<1>4. Total = 0
  BY <1>3, TotalNone
<1>5. SharedInv
  BY <1>2, <1>3, <1>4, ValuesAssumption DEF Init, SharedInv
<1>6. Shared!SInit
  BY <1>2 DEF Init, Shared!SInit
<1> QED
  BY <1>1, <1>5, <1>6 DEF AllInv

(* Processes that attach with sem_create cannot tell the set, which is     *)
(* created, initialised in two steps, removed and created again, and which *)
(* the kernel adjusts when they die, from one counter that is always there *)
(* (semaph.c:2-29): every behaviour of the routines is one of SharedSem.   *)
THEOREM SharesOneCounter ==
  ASSUME Sharing
  PROVE  Spec => ImplementsShared
<1>1. Init => AllInv /\ Shared!SInit
  BY SharedInit
<1>2. AllInv /\ [Next]_vars => AllInv' /\ [Shared!SNext]_(Shared!svars)
  BY SharedNext DEF SharedStep
<1> QED
  BY <1>1, <1>2, PTL DEF Spec, ImplementsShared, Shared!SSpec

(* Over all processes, never more than InitVal units are taken and not     *)
(* given back: those taken and those that can be taken add up to InitVal.  *)
THEOREM UnitsConserved ==
  ASSUME Sharing
  PROVE  Spec => []NeverOverdrawn
<1>1. AllInv => NeverOverdrawn
  <2> SUFFICES ASSUME AllInv PROVE NeverOverdrawn
    OBVIOUS
  <2>1. TypeOK /\ Level + Total = InitVal
    BY DEF AllInv, LockInv, SharedInv
  <2>2. held \in [Procs -> 0 .. HoldMax] /\ Total \in Nat
    BY <2>1, HeldTyping DEF Sharing
  <2>3. MapThenSumSet(LAMBDA p : held[p], Procs) = Total
    BY <2>2, SumOfHeld
  <2>4. Level >= 0 /\ Level \in Int /\ InitVal \in Int
    BY <2>1, ValuesAssumption DEF AllInv, SharedInv, Level, TypeOK
  <2> QED
    BY <2>1, <2>2, <2>3, <2>4 DEF NeverOverdrawn
<1>2. Init => AllInv
  BY SharedInit
<1>3. AllInv /\ [Next]_vars => AllInv'
  BY SharedNext
<1> QED
  BY <1>1, <1>2, <1>3, PTL DEF Spec

=============================================================================
