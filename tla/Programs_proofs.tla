---------------------------- MODULE Programs_proofs ----------------------------
(***************************************************************************)
(* Proofs about small programs.  exit (AtExit) calls the functions that    *)
(* were registered last, the last first: all while the first table holds   *)
(* them, none of that table after, for any size of the tables.  The dialer *)
(* (Dialer) stops at the first place where what it hears ends in what it   *)
(* expects, for any Dialers file and any bytes from the modem.  Parent and *)
(* child take turns (TellWait), for any number of loops.  The semaphores   *)
(* of a producer and a consumer keep their FIFO from holding more than the *)
(* consumer's buffer (Product), for any number and size of words.          *)
(***************************************************************************)
EXTENDS AtExit, Dialer, TellWait, Product, Integers, Lists_proofs, TLAPS

-----------------------------------------------------------------------------
(* atexit and exit                                                         *)

(* The tables are tables.  The newest has, from a place b on, the          *)
(* functions registered last in their order, and no function before; b is  *)
(* what was left in its ind, 0 in the first, static one.  exit has called  *)
(* the last of them, the last first.                                       *)
AllTables == [ind : Nat, fns : [0 .. ATEXIT_SIZE - 1 -> Funcs \cup {NoFunc}], next : Nat]
NewestHas(b) ==
  LET t == tables[head]
      n == Len(asked)
  IN  /\ b < t.ind /\ t.ind <= ATEXIT_SIZE /\ t.ind - b <= n
      /\ \A i \in 0 .. ATEXIT_SIZE - 1 :
           /\ i < b => t.fns[i] = NoFunc
           /\ b <= i /\ i < t.ind => t.fns[i] = asked[n - t.ind + 1 + i]
      /\ IF n <= ATEXIT_SIZE THEN b = 0 /\ t.ind = n ELSE t.ind - b <= n - ATEXIT_SIZE
Calling(b) ==
  /\ Len(called) <= tables[head].ind - b
  /\ exiting = "crash" => b # 0
  /\ exiting = "done" => Len(called) = tables[head].ind
ExitTypes ==
  /\ tables \in Seq(AllTables) /\ asked \in Seq(Funcs) /\ called \in Seq(Funcs)
  /\ Len(tables) >= 1 /\ head \in {0, Len(tables)}
  /\ exiting \in {"no", "calls", "done", "crash"}
ExitInv ==
  /\ ExitTypes
  /\ exiting = "no" => called = <<>>
  /\ head = 0 => asked = <<>> /\ called = <<>> /\ tables = <<Table(0)>> /\ exiting \in {"no", "done"}
  /\ head # 0 => \E b \in 0 .. ATEXIT_SIZE - 1 : NewestHas(b) /\ Calling(b)
  /\ Len(called) <= Len(asked)
  /\ \A i \in 1 .. Len(called) : called[i] = asked[Len(asked) + 1 - i]

LEMMA EmptyTable ==
  ASSUME NEW ind \in Nat
  PROVE  /\ Table(ind) \in AllTables /\ Table(ind).ind = ind
         /\ \A i \in 0 .. ATEXIT_SIZE - 1 : Table(ind).fns[i] = NoFunc
BY DEF Table, AllTables

LEMMA ExitStarts == ExitInit => ExitInv
<1> SUFFICES ASSUME ExitInit PROVE ExitInv
  OBVIOUS
<1>1. /\ asked = <<>> /\ called = <<>> /\ Len(asked) = 0 /\ Len(called) = 0 /\ asked \in Seq(Funcs)
      /\ called \in Seq(Funcs)
  BY DEF ExitInit
<1>2. tables = <<Table(0)>> /\ head = 0 /\ exiting = "no"
  BY DEF ExitInit
<1>3. tables \in Seq(AllTables) /\ Len(tables) = 1
  <2> DEFINE t == Table(0)
  <2>1. t \in AllTables
    BY EmptyTable
  <2> HIDE DEF t
  <2>2. <<t>> \in Seq(AllTables) /\ Len(<<t>>) = 1
    BY <2>1
  <2> QED
    BY <1>2, <2>2 DEF t
<1> QED
  BY <1>1, <1>2, <1>3 DEF ExitInv, ExitTypes

(* Two fields of a record are set.                                         *)
LEMMA Updates ==
  ASSUME NEW F, NEW t \in [ind : Nat, fns : F, next : Nat], NEW f \in F, NEW m \in Nat
  PROVE  /\ [t EXCEPT !.fns = f, !.ind = m] \in [ind : Nat, fns : F, next : Nat]
         /\ [t EXCEPT !.fns = f, !.ind = m].ind = m /\ [t EXCEPT !.fns = f, !.ind = m].fns = f
OBVIOUS

(* A function is put into a place of a table.                              *)
PutIn(ts, p, ind, fn) == [ts EXCEPT ![p].fns = [@ EXCEPT ![ind] = fn], ![p].ind = ind + 1]
LEMMA Puts ==
  ASSUME NEW ts \in Seq(AllTables), NEW p \in 1 .. Len(ts), NEW ind \in 0 .. ATEXIT_SIZE - 1,
         NEW fn \in Funcs
  PROVE  /\ PutIn(ts, p, ind, fn) \in Seq(AllTables) /\ Len(PutIn(ts, p, ind, fn)) = Len(ts)
         /\ PutIn(ts, p, ind, fn)[p].ind = ind + 1
         /\ \A i \in 0 .. ATEXIT_SIZE - 1 :
              PutIn(ts, p, ind, fn)[p].fns[i] = IF i = ind THEN fn ELSE ts[p].fns[i]
<1> DEFINE us == PutIn(ts, p, ind, fn)
           t == ts[p]
           fns == [t.fns EXCEPT ![ind] = fn]
           u == [t EXCEPT !.fns = fns, !.ind = ind + 1]
<1>1. t \in AllTables
  OBVIOUS
<1>2. us = [ts EXCEPT ![p] = u]
  BY DEF PutIn
<1>3. t.fns \in [0 .. ATEXIT_SIZE - 1 -> Funcs \cup {NoFunc}] /\ DOMAIN t = {"ind", "fns", "next"}
  BY <1>1 DEF AllTables
<1>4. /\ fns \in [0 .. ATEXIT_SIZE - 1 -> Funcs \cup {NoFunc}]
      /\ \A i \in 0 .. ATEXIT_SIZE - 1 : fns[i] = IF i = ind THEN fn ELSE t.fns[i]
  BY <1>3
<1> HIDE DEF fns, t, us
<1>5. u \in AllTables /\ u.ind = ind + 1 /\ u.fns = fns
  <2>1. ind + 1 \in Nat
    BY ExitAssumption
  <2> DEFINE m == ind + 1
  <2> HIDE DEF m
  <2>2. m \in Nat /\ t \in AllTables /\ fns \in [0 .. ATEXIT_SIZE - 1 -> Funcs \cup {NoFunc}]
    BY <1>1, <1>4, <2>1 DEF m
  <2>3. /\ [t EXCEPT !.fns = fns, !.ind = m] \in AllTables
        /\ [t EXCEPT !.fns = fns, !.ind = m].ind = m /\ [t EXCEPT !.fns = fns, !.ind = m].fns = fns
    BY <2>2, Updates DEF AllTables
  <2> QED
    BY <2>3 DEF m
<1>6. us \in Seq(AllTables) /\ Len(us) = Len(ts) /\ us[p] = u
  <2> HIDE DEF u
  <2>1. ts \in [1 .. Len(ts) -> AllTables] /\ Len(ts) \in Nat
    OBVIOUS
  <2>2. us \in [1 .. Len(ts) -> AllTables] /\ us[p] = u
    BY <1>2, <1>5, <2>1
  <2> QED
    BY <2>1, <2>2
<1> QED
  BY <1>4, <1>5, <1>6 DEF t, us

(* The place atexit finds, and what it puts there.                         *)
LEMMA Registered ==
  ASSUME ExitInv, NEW fn \in Funcs, atexit(fn)
  PROVE  /\ tables' \in Seq(AllTables) /\ Len(tables') >= 1 /\ head' = Len(tables') /\ head' # 0
         /\ \E b \in 0 .. ATEXIT_SIZE - 1 : NewestHas(b)'
<1> DEFINE n == Len(asked)
<1>1. ExitTypes /\ n \in Nat /\ tables \in Seq(AllTables) /\ Len(tables) \in Nat
  BY DEF ExitInv, ExitTypes
<1>2. PICK ind \in IF Slot.grown THEN Garbage ELSE {tables[Slot.p].ind} :
        LET ts == IF Slot.grown
                  THEN Append([tables EXCEPT ![head].next = Slot.p], Table(ind))
                  ELSE tables
        IN  tables' = [ts EXCEPT ![Slot.p].fns = [@ EXCEPT ![ind] = fn], ![Slot.p].ind = ind + 1]
  BY DEF atexit
<1>3. head' = Slot.p /\ asked' = Append(asked, fn)
  BY DEF atexit
<1>4. /\ asked' \in Seq(Funcs) /\ Len(asked') = n + 1 /\ asked'[n + 1] = fn
      /\ \A i \in 1 .. n : asked'[i] = asked[i]
  BY <1>1, <1>3 DEF ExitTypes
<1>5. CASE Slot.grown
  <2>1. Slot = Overflow /\ head # 0 /\ tables[head].ind >= ATEXIT_SIZE
    BY <1>5 DEF Slot
  <2>2. Slot.p = Len(tables) + 1 /\ ind \in 0 .. ATEXIT_SIZE - 1
    BY <1>2, <1>5, <2>1, ExitAssumption DEF Overflow
  <2>3. head = Len(tables) /\ head \in 1 .. Len(tables)
    BY <1>1, <2>1 DEF ExitTypes
  <2> DEFINE olds == [tables EXCEPT ![head].next = Slot.p]
             ts == Append(olds, Table(ind))
  <2>4. olds \in Seq(AllTables) /\ Len(olds) = Len(tables)
    <3> DEFINE o == [tables[head] EXCEPT !.next = Slot.p]
    <3>1. tables[head] \in AllTables
      BY <1>1, <2>3
    <3>2. o \in AllTables
      <4> DEFINE t == tables[head]  q == Slot.p
      <4>1. q \in Nat /\ t \in AllTables
        BY <1>1, <2>2, <3>1
      <4> HIDE DEF t, q
      <4>2. [t EXCEPT !.next = q] \in AllTables
        BY <4>1 DEF AllTables
      <4> QED
        BY <4>2 DEF t, q
    <3>3. olds = [tables EXCEPT ![head] = o]
      OBVIOUS
    <3> HIDE DEF o, olds
    <3> QED
      BY <1>1, <2>3, <3>2, <3>3
  <2>5. Table(ind) \in AllTables /\ \A i \in 0 .. ATEXIT_SIZE - 1 : Table(ind).fns[i] = NoFunc
    BY <2>2, EmptyTable
  <2>6. tables' = PutIn(ts, Slot.p, ind, fn)
    BY <1>2, <1>5 DEF PutIn
  <2> HIDE DEF olds
  <2>7. /\ ts \in Seq(AllTables) /\ Len(ts) = Len(tables) + 1 /\ Slot.p \in 1 .. Len(ts)
        /\ ts[Slot.p] = Table(ind)
    <3> DEFINE t == Table(ind)
    <3> HIDE DEF t
    <3>1. Append(olds, t) \in Seq(AllTables) /\ Len(Append(olds, t)) = Len(olds) + 1
          /\ Append(olds, t)[Len(olds) + 1] = t
      BY <2>4, <2>5 DEF t
    <3> QED
      BY <1>1, <2>2, <2>4, <3>1 DEF t
  <2> HIDE DEF ts
  <2>8. /\ tables' \in Seq(AllTables) /\ Len(tables') = Len(ts) /\ tables'[Slot.p].ind = ind + 1
        /\ \A i \in 0 .. ATEXIT_SIZE - 1 :
             tables'[Slot.p].fns[i] = IF i = ind THEN fn ELSE ts[Slot.p].fns[i]
    BY <2>2, <2>6, <2>7, Puts
  <2>9. n >= ATEXIT_SIZE
    <3>1. PICK b \in 0 .. ATEXIT_SIZE - 1 : NewestHas(b)
      BY <2>1 DEF ExitInv
    <3>2. tables[head] \in AllTables
      BY <1>1, <2>3
    <3>3. tables[head].ind \in Nat
      BY <3>2 DEF AllTables
    <3> QED
      BY <1>1, <2>1, <3>1, <3>3, ExitAssumption DEF NewestHas
  <2>10. NewestHas(ind)'
    <3>1. \A i \in 0 .. ATEXIT_SIZE - 1 :
            /\ i < ind => tables'[head'].fns[i] = NoFunc
            /\ ind <= i /\ i < ind + 1 => tables'[head'].fns[i] = asked'[(n + 1) - (ind + 1) + 1 + i]
      <4> SUFFICES ASSUME NEW i \in 0 .. ATEXIT_SIZE - 1
                   PROVE  /\ i < ind => tables'[head'].fns[i] = NoFunc
                          /\ ind <= i /\ i < ind + 1 =>
                               tables'[head'].fns[i] = asked'[(n + 1) - (ind + 1) + 1 + i]
        OBVIOUS
      <4>1. CASE i = ind
        <5>1. (n + 1) - (ind + 1) + 1 + i = n + 1 /\ ~(i < ind)
          BY <1>1, <2>2, <4>1
        <5> QED
          BY <1>3, <1>4, <2>8, <4>1, <5>1
      <4>2. CASE i # ind
        <5>1. ~(ind <= i /\ i < ind + 1)
          BY <2>2, <4>2, ExitAssumption
        <5> QED
          BY <1>3, <2>5, <2>7, <2>8, <4>2, <5>1
      <4> QED
        BY <4>1, <4>2
    <3>2. ind < ind + 1 /\ ind + 1 <= ATEXIT_SIZE /\ (ind + 1) - ind <= n + 1 /\ ~(n + 1 <= ATEXIT_SIZE)
          /\ (ind + 1) - ind <= (n + 1) - ATEXIT_SIZE
      BY <1>1, <2>2, <2>9, ExitAssumption
    <3> QED
      BY <1>3, <1>4, <2>8, <3>1, <3>2 DEF NewestHas
  <2> QED
    BY <1>1, <1>3, <2>2, <2>7, <2>8, <2>10
<1>6. CASE ~Slot.grown
  <2> DEFINE p == Slot.p
  <2>1. /\ p \in 1 .. Len(tables) /\ p = Len(tables) /\ tables[p].ind < ATEXIT_SIZE
        /\ head = 0 => p = 1 /\ tables[p].ind = 0
        /\ head # 0 => p = head
    <3>1. CASE head = 0
      <4>1. Slot = [p |-> 1, grown |-> FALSE] /\ tables = <<Table(0)>>
        BY <3>1 DEF Slot, ExitInv
      <4>2. Table(0).ind = 0
        BY EmptyTable
      <4>3. Len(tables) = 1 /\ tables[1] = Table(0)
        <5> DEFINE t == Table(0)
        <5> HIDE DEF t
        <5>1. Len(<<t>>) = 1 /\ <<t>>[1] = t
          OBVIOUS
        <5> QED
          BY <4>1, <5>1 DEF t
      <4> QED
        BY <3>1, <4>1, <4>2, <4>3, ExitAssumption
    <3>2. CASE head # 0
      <4>1. Slot = [p |-> head, grown |-> FALSE] /\ ~(tables[head].ind >= ATEXIT_SIZE)
        BY <1>6, <3>2 DEF Slot, Overflow
      <4>2. head = Len(tables) /\ tables[head] \in AllTables
        BY <1>1, <3>2 DEF ExitTypes
      <4>3. tables[head].ind \in Nat
        BY <4>2 DEF AllTables
      <4> QED
        BY <1>1, <3>2, <4>1, <4>2, <4>3, ExitAssumption DEF ExitTypes
    <3> QED
      BY <3>1, <3>2
  <2> HIDE DEF p
  <2>2. ind = tables[p].ind
    BY <1>2, <1>6 DEF p
  <2>3. tables[p] \in AllTables
    BY <1>1, <2>1
  <2>4. ind \in 0 .. ATEXIT_SIZE - 1
    BY <2>1, <2>2, <2>3, ExitAssumption DEF AllTables
  <2>5. tables' = PutIn(tables, p, ind, fn)
    BY <1>2, <1>6 DEF p, PutIn
  <2>6. /\ tables' \in Seq(AllTables) /\ Len(tables') = Len(tables) /\ tables'[p].ind = ind + 1
        /\ \A i \in 0 .. ATEXIT_SIZE - 1 :
             tables'[p].fns[i] = IF i = ind THEN fn ELSE tables[p].fns[i]
    <3>1. /\ PutIn(tables, p, ind, fn) \in Seq(AllTables)
          /\ Len(PutIn(tables, p, ind, fn)) = Len(tables)
          /\ PutIn(tables, p, ind, fn)[p].ind = ind + 1
      BY <1>1, <2>1, <2>4, Puts
    <3>2. \A i \in 0 .. ATEXIT_SIZE - 1 :
             PutIn(tables, p, ind, fn)[p].fns[i] = IF i = ind THEN fn ELSE tables[p].fns[i]
      <4>1. /\ tables \in Seq(AllTables) /\ p \in 1 .. Len(tables)
            /\ ind \in 0 .. ATEXIT_SIZE - 1 /\ fn \in Funcs
        BY <1>1, <2>1, <2>4
      <4> QED
        <5> SUFFICES ASSUME NEW i \in 0 .. ATEXIT_SIZE - 1
                     PROVE  PutIn(tables, p, ind, fn)[p].fns[i] = IF i = ind THEN fn ELSE tables[p].fns[i]
          OBVIOUS
        <5> QED
          BY <4>1, Puts
    <3> QED
      BY <2>5, <3>1, <3>2
  <2>7. head' = p
    BY <1>3 DEF p
  <2>8. PICK b \in 0 .. ATEXIT_SIZE - 1 :
          /\ b <= ind /\ ind - b <= n
          /\ \A i \in 0 .. ATEXIT_SIZE - 1 :
               /\ i < b => tables[p].fns[i] = NoFunc
               /\ b <= i /\ i < ind => tables[p].fns[i] = asked[n - ind + 1 + i]
          /\ IF n <= ATEXIT_SIZE THEN b = 0 /\ ind = n ELSE ind - b <= n - ATEXIT_SIZE
    <3>1. CASE head = 0
      <4>1. n = 0 /\ ind = 0
        BY <2>1, <2>2, <3>1 DEF ExitInv
      <4> QED
        BY <4>1, ExitAssumption
    <3>2. CASE head # 0
      <4>1. PICK b \in 0 .. ATEXIT_SIZE - 1 : NewestHas(b)
        BY <3>2 DEF ExitInv
      <4>2. head = p /\ tables[head].ind = ind
        BY <2>1, <2>2, <3>2
      <4>3. /\ b < ind /\ ind - b <= n
            /\ \A i \in 0 .. ATEXIT_SIZE - 1 :
                 /\ i < b => tables[p].fns[i] = NoFunc
                 /\ b <= i /\ i < ind => tables[p].fns[i] = asked[n - ind + 1 + i]
            /\ IF n <= ATEXIT_SIZE THEN b = 0 /\ ind = n ELSE ind - b <= n - ATEXIT_SIZE
        BY <4>1, <4>2 DEF NewestHas
      <4>4. b <= ind
        BY <2>4, <4>3
      <4> QED
        BY <4>3, <4>4
    <3> QED
      BY <3>1, <3>2
  <2>9. NewestHas(b)'
    <3>1. \A i \in 0 .. ATEXIT_SIZE - 1 :
            /\ i < b => tables'[head'].fns[i] = NoFunc
            /\ b <= i /\ i < ind + 1 => tables'[head'].fns[i] = asked'[(n + 1) - (ind + 1) + 1 + i]
      <4> SUFFICES ASSUME NEW i \in 0 .. ATEXIT_SIZE - 1
                   PROVE  /\ i < b => tables'[head'].fns[i] = NoFunc
                          /\ b <= i /\ i < ind + 1 =>
                               tables'[head'].fns[i] = asked'[(n + 1) - (ind + 1) + 1 + i]
        OBVIOUS
      <4>1. CASE i = ind
        <5>1. (n + 1) - (ind + 1) + 1 + i = n + 1 /\ ~(i < b)
          BY <1>1, <2>4, <2>8, <4>1, ExitAssumption
        <5> QED
          BY <1>4, <2>6, <2>7, <4>1, <5>1
      <4>2. CASE i # ind
        <5>1. i < ind + 1 => i < ind
          BY <2>4, <4>2, ExitAssumption
        <5>2. b <= i /\ i < ind =>
                /\ n - ind + 1 + i \in 1 .. n
                /\ (n + 1) - (ind + 1) + 1 + i = n - ind + 1 + i
          BY <1>1, <2>4, <2>8, ExitAssumption
        <5>3. tables'[head'].fns[i] = tables[p].fns[i]
          BY <2>6, <2>7, <4>2
        <5> QED
          BY <1>4, <2>8, <5>1, <5>2, <5>3
      <4> QED
        BY <4>1, <4>2
    <3>2. b < ind + 1 /\ ind + 1 <= ATEXIT_SIZE /\ (ind + 1) - b <= n + 1
      BY <1>1, <2>4, <2>8, ExitAssumption
    <3>3. IF n + 1 <= ATEXIT_SIZE THEN b = 0 /\ ind + 1 = n + 1
          ELSE (ind + 1) - b <= (n + 1) - ATEXIT_SIZE
      BY <1>1, <2>4, <2>8, ExitAssumption
    <3> QED
      BY <1>4, <2>6, <2>7, <3>1, <3>2, <3>3 DEF NewestHas
  <2> QED
    BY <1>1, <2>1, <2>6, <2>7, <2>9
<1> QED
  BY <1>5, <1>6

LEMMA RegisterKeeps ==
  ASSUME ExitInv, NEW fn \in Funcs, atexit(fn)
  PROVE  ExitInv'
<1>1. asked' = Append(asked, fn) /\ exiting = "no" /\ UNCHANGED <<called, exiting>>
  BY DEF atexit
<1>2. called = <<>> /\ called' = <<>> /\ Len(called') = 0 /\ called' \in Seq(Funcs)
  BY <1>1 DEF ExitInv
<1>3. asked' \in Seq(Funcs) /\ Len(asked') \in Nat
  BY <1>1 DEF ExitInv, ExitTypes
<1>4. tables' \in Seq(AllTables) /\ Len(tables') >= 1 /\ head' = Len(tables') /\ head' # 0
  BY Registered
<1>5. PICK b \in 0 .. ATEXIT_SIZE - 1 : NewestHas(b)'
  BY Registered
<1>6. Calling(b)'
  <2>1. tables'[head'] \in AllTables
    BY <1>4
  <2>2. tables'[head'].ind \in Nat
    BY <2>1 DEF AllTables
  <2> QED
    BY <1>1, <1>2, <1>5, <2>2, ExitAssumption DEF Calling, NewestHas
<1>7. ExitTypes'
  BY <1>1, <1>2, <1>3, <1>4 DEF ExitTypes
<1> QED
  BY <1>1, <1>2, <1>3, <1>4, <1>5, <1>6, <1>7 DEF ExitInv

LEMMA ExitKeeps ==
  ASSUME ExitInv, exit_starts \/ exit_calls
  PROVE  ExitInv'
<1> DEFINE n == Len(asked)  k == Len(called)  t == tables[head]
<1>1. UNCHANGED <<tables, head, asked>>
  BY DEF exit_starts, exit_calls
<1>2. ExitTypes /\ n \in Nat /\ k \in Nat
  BY DEF ExitInv, ExitTypes
<1>3. \A b : NewestHas(b) => NewestHas(b)'
  BY <1>1 DEF NewestHas
<1>4. CASE exit_starts
  <2>1. exiting = "no" /\ exiting' = (IF head = 0 THEN "done" ELSE "calls") /\ called' = called
    BY <1>4 DEF exit_starts
  <2>2. \A b : head # 0 /\ Calling(b) => Calling(b)'
    BY <1>1, <2>1 DEF Calling
  <2>3. ExitTypes'
    BY <1>1, <1>2, <2>1 DEF ExitTypes
  <2>4. head' # 0 => \E b \in 0 .. ATEXIT_SIZE - 1 : NewestHas(b)' /\ Calling(b)'
    BY <1>1, <1>3, <2>2 DEF ExitInv
  <2>5. exiting' # "no" /\ (head = 0 => exiting' = "done")
    BY <2>1
  <2> QED
    BY <1>1, <2>1, <2>3, <2>4, <2>5 DEF ExitInv
<1>5. CASE exit_calls
  <2> DEFINE i == t.ind - k
  <2>1. /\ exiting = "calls"
        /\ IF i = 0 THEN exiting' = "done" /\ UNCHANGED called
           ELSE IF t.fns[i - 1] = NoFunc THEN exiting' = "crash" /\ UNCHANGED called
           ELSE called' = Append(called, t.fns[i - 1]) /\ UNCHANGED exiting
    BY <1>5 DEF exit_calls
  <2>2. head # 0
    BY <2>1 DEF ExitInv
  <2>3. PICK b \in 0 .. ATEXIT_SIZE - 1 : NewestHas(b) /\ Calling(b)
    BY <2>2 DEF ExitInv
  <2>4. head \in 1 .. Len(tables) /\ tables \in Seq(AllTables)
    BY <1>2, <2>2 DEF ExitTypes
  <2>5. t.ind \in Nat /\ t.ind <= ATEXIT_SIZE /\ k <= t.ind - b /\ b < t.ind /\ t.ind - b <= n
    <3>1. t \in AllTables
      BY <2>4
    <3>2. t.ind \in Nat
      BY <3>1 DEF AllTables
    <3> QED
      BY <2>3, <3>2 DEF NewestHas, Calling
  <2> HIDE DEF t
  <2>6. CASE i = 0
    <3>1. exiting' = "done" /\ called' = called /\ k = t.ind
      BY <1>2, <2>1, <2>5, <2>6
    <3>2. Calling(b)'
      BY <1>1, <2>3, <3>1 DEF Calling, t
    <3>3. ExitTypes'
      BY <1>1, <1>2, <3>1 DEF ExitTypes
    <3> QED
      BY <1>1, <1>3, <2>2, <2>3, <3>1, <3>2, <3>3 DEF ExitInv
  <2>7. CASE i # 0 /\ t.fns[i - 1] = NoFunc
    <3>1. exiting' = "crash" /\ called' = called
      BY <2>1, <2>7
    <3>2. b # 0
      <4> SUFFICES ASSUME b = 0 PROVE FALSE
        OBVIOUS
      <4>1. i - 1 \in 0 .. ATEXIT_SIZE - 1 /\ b <= i - 1 /\ i - 1 < t.ind
        BY <1>2, <2>5, <2>7, ExitAssumption
      <4>2. t.fns[i - 1] = asked[n - t.ind + 1 + (i - 1)]
        BY <2>3, <4>1 DEF NewestHas, t
      <4>3. n - t.ind + 1 + (i - 1) \in 1 .. n
        BY <1>2, <2>5, <4>1
      <4>4. asked[n - t.ind + 1 + (i - 1)] \in Funcs
        BY <1>2, <4>3 DEF ExitTypes
      <4> QED
        BY <2>7, <4>2, <4>4, ExitAssumption
    <3>3. Calling(b)'
      BY <1>1, <2>3, <3>1, <3>2 DEF Calling
    <3>4. ExitTypes'
      BY <1>1, <1>2, <3>1 DEF ExitTypes
    <3> QED
      BY <1>1, <1>3, <2>2, <2>3, <3>1, <3>3, <3>4 DEF ExitInv
  <2>8. CASE i # 0 /\ t.fns[i - 1] # NoFunc
    <3>1. called' = Append(called, t.fns[i - 1]) /\ exiting' = "calls"
      BY <2>1, <2>8
    <3>2. i \in Int /\ i >= 1 /\ i - 1 \in 0 .. ATEXIT_SIZE - 1 /\ i - 1 < t.ind
      BY <1>2, <2>5, <2>8, ExitAssumption
    <3>3. b <= i - 1
      BY <2>3, <2>8, <3>2, ExitAssumption DEF NewestHas, t
    <3>4. n - t.ind + 1 + (i - 1) = n - k /\ n - k \in 1 .. n
      BY <1>2, <2>5, <3>2, <3>3
    <3>5. t.fns[i - 1] = asked[n - k] /\ asked[n - k] \in Funcs
      <4>1. t.fns[i - 1] = asked[n - t.ind + 1 + (i - 1)]
        BY <2>3, <3>2, <3>3 DEF NewestHas, t
      <4>2. asked[n - k] \in Funcs
        BY <1>2, <3>4 DEF ExitTypes
      <4> QED
        BY <3>4, <4>1, <4>2
    <3>6. /\ called' \in Seq(Funcs) /\ Len(called') = k + 1 /\ called'[k + 1] = asked[n - k]
          /\ \A j \in 1 .. k : called'[j] = called[j]
      BY <1>2, <3>1, <3>5 DEF ExitTypes
    <3>7. k + 1 <= n /\ n + 1 - (k + 1) = n - k /\ k + 1 <= t.ind - b
      BY <1>2, <2>5, <3>2, <3>3, <3>4
    <3>8. Len(called') <= Len(asked') /\ \A j \in 1 .. Len(called') : called'[j] = asked'[Len(asked') + 1 - j]
      <4>1. \A j \in 1 .. k : called[j] = asked[n + 1 - j]
        BY DEF ExitInv
      <4>2. \A j \in 1 .. k + 1 : j \in 1 .. k \/ j = k + 1
        BY <1>2
      <4> QED
        BY <1>1, <3>6, <3>7, <4>1, <4>2
    <3>9. Calling(b)'
      BY <1>1, <3>1, <3>6, <3>7 DEF Calling, t
    <3>10. ExitTypes'
      BY <1>1, <1>2, <3>1, <3>6 DEF ExitTypes
    <3> QED
      BY <1>1, <1>3, <2>2, <2>3, <3>1, <3>8, <3>9, <3>10 DEF ExitInv
  <2> QED
    BY <2>6, <2>7, <2>8
<1> QED
  BY <1>4, <1>5

(* What exit calls are the functions registered last, the last of them     *)
(* first; all that were registered, as long as they fit into the table     *)
(* that ANSI guarantees, and none of those in that table once there is     *)
(* another: for every size of the table, any number of tables and any      *)
(* place that malloc leaves in ind (atexit.c:44-49, exit.c:15-19).         *)
THEOREM CallsInReverse == ExitSpec => []CalledInReverse
<1>1. ExitInv /\ [ExitNext]_exitVars => ExitInv'
  <2> SUFFICES ASSUME ExitInv, [ExitNext]_exitVars PROVE ExitInv'
    OBVIOUS
  <2>1. CASE UNCHANGED exitVars
    BY <2>1 DEF exitVars, ExitInv, ExitTypes, NewestHas, Calling
  <2> QED
    BY <2>1, RegisterKeeps, ExitKeeps DEF ExitNext
<1>2. ASSUME ExitInv PROVE CalledInReverse
  <2> DEFINE n == Len(asked)
  <2>1. /\ called \in Seq(Funcs) /\ n \in Nat /\ Len(called) \in Nat
        /\ \A i \in 1 .. Len(called) : called[i] = asked[n + 1 - i]
    BY <1>2 DEF ExitInv, ExitTypes
  <2>2. called = [i \in DOMAIN called |-> asked[n + 1 - i]]
    BY <2>1
  <2>3. IF n <= ATEXIT_SIZE THEN exiting # "crash" /\ (exiting = "done" => Len(called) = n)
        ELSE Len(called) <= n - ATEXIT_SIZE
    <3>1. CASE head = 0
      <4>1. n = 0 /\ Len(called) = 0 /\ exiting \in {"no", "done"}
        BY <1>2, <3>1 DEF ExitInv
      <4> QED
        BY <4>1, ExitAssumption
    <3>2. CASE head # 0
      <4>1. PICK b \in 0 .. ATEXIT_SIZE - 1 : NewestHas(b) /\ Calling(b)
        BY <1>2, <3>2 DEF ExitInv
      <4>2. tables[head] \in AllTables
        BY <1>2, <3>2 DEF ExitInv, ExitTypes
      <4>3. tables[head].ind \in Nat
        BY <4>2 DEF AllTables
      <4> QED
        BY <2>1, <4>1, <4>3, ExitAssumption DEF NewestHas, Calling
    <3> QED
      BY <3>1, <3>2
  <2> QED
    BY <2>2, <2>3 DEF CalledInReverse
<1> QED
  BY <1>1, <1>2, ExitStarts, PTL DEF ExitSpec

-----------------------------------------------------------------------------
(* The dialer                                                              *)

(* The characters, and what else is kept with them.                        *)
Chars == STRING \cup {Nul, "hangup", "CR", " "}
Words == Seq(Chars) \ {<<>>}
(* expstr ends at place i of what was heard.                               *)
EndsAt(i) == i >= Len(exp) /\ \A j \in 1 .. Len(exp) : heard[i - Len(exp) + j] = exp[j]
(* The window is the end of what was heard, and the string was not heard   *)
(* before: while the window fills, no character before it begins one.      *)
Window ==
  /\ Len(win) <= Len(exp) /\ Len(win) <= Len(heard)
  /\ \A j \in 1 .. Len(win) : win[j] = heard[Len(heard) - Len(win) + j]
  /\ Len(win) < Len(exp) => \A j \in 1 .. Len(heard) - Len(win) : heard[j] # exp[1]
  /\ \A i \in 1 .. Len(heard) - 1 : ~EndsAt(i)
NotYet == heard # <<>> => ~EndsAt(Len(heard))
DialTypes ==
  /\ chat \in Seq(Words) /\ exp \in Seq(Chars) /\ win \in Seq(Chars) /\ heard \in Seq(Chars)
  /\ wire \in Seq(Chars)
Quiet == {"find", "open", "expect", "send", "echo", "connected"}
DialInv ==
  /\ DialTypes
  /\ dpc \in Quiet => alarm = "off"
  /\ dpc \in {"test", "read"} => exp # <<>> /\ c \in Chars
  /\ dpc \in {"test", "read"} /\ ~caught => Window /\ NotYet
  /\ dpc = "matched" /\ ~caught => (exp = <<>> /\ heard = <<>>) \/ (exp # <<>> /\ Window /\ win = exp)

-----------------------------------------------------------------------------
(* What is in the window after a byte b.                                   *)
Moved(b) ==
  IF win = <<>> THEN (IF b = Head(exp) THEN <<b>> ELSE <<>>)
  ELSE IF Len(win) < Len(exp) THEN Append(win, b) ELSE Append(Tail(win), b)

LEMMA ScanIs ==
  ASSUME NEW b, Scan(b)
  PROVE  /\ win' = Moved(b) /\ c' = (IF win = <<>> THEN b ELSE c)
         /\ dpc' = "overrun" \/ dpc' = IF Moved(b) = exp THEN "matched" ELSE "test"
BY DEF Scan, Skips, Moved

LEMMA ScanTypes ==
  ASSUME DialTypes, exp # <<>>, c \in Chars, NEW b \in Chars, Scan(b)
  PROVE  win' \in Seq(Chars) /\ c' \in Chars
<1>1. c' \in Chars
  BY ScanIs DEF DialTypes
<1>2. Moved(b) \in Seq(Chars)
  <2>1. CASE win = <<>>
    BY <2>1 DEF Moved
  <2>2. CASE win # <<>>
    <3>1. Tail(win) \in Seq(Chars)
      BY <2>2 DEF DialTypes
    <3> QED
      BY <2>2, <3>1 DEF Moved, DialTypes
  <2> QED
    BY <2>1, <2>2
<1> QED
  BY <1>1, <1>2, ScanIs

(* A byte moves the window on by a place, without losing the first match.  *)
LEMMA ScanKeeps ==
  ASSUME DialTypes, exp # <<>>, Window, NotYet, UNCHANGED exp,
         NEW b \in Chars, Scan(b), heard' = Append(heard, b)
  PROVE  Window' /\ (win' = exp \/ NotYet')
<1> DEFINE n == Len(heard)  k == Len(win)  L == Len(exp)  w == Moved(b)  m == Len(w)
<1>1. /\ n \in Nat /\ k \in Nat /\ L \in Nat /\ L >= 1 /\ k <= L /\ k <= n
      /\ Head(exp) = exp[1] /\ (win = <<>> <=> k = 0)
  BY DEF DialTypes, Window
<1>2. heard' \in Seq(Chars) /\ Len(heard') = n + 1 /\ heard'[n + 1] = b
      /\ \A j \in 1 .. n : heard'[j] = heard[j]
  BY DEF DialTypes
<1>3. w \in Seq(Chars) /\ m \in Nat /\ m <= L /\ m <= n + 1
      /\ \A j \in 1 .. m : w[j] = heard'[n + 1 - m + j]
  <2>1. CASE k = 0
    <3>1. CASE b = exp[1]
      <4>1. w = <<b>>
        BY <1>1, <2>1, <3>1 DEF Moved
      <4>2. w \in Seq(Chars) /\ m = 1 /\ w[1] = b
        <5> HIDE DEF w
        <5> QED
          BY <4>1
      <4> QED
        BY <1>1, <1>2, <4>2
    <3>2. CASE b # exp[1]
      <4>1. w = <<>>
        BY <1>1, <2>1, <3>2 DEF Moved
      <4> HIDE DEF w
      <4> QED
        BY <1>1, <4>1
    <3> QED
      BY <3>1, <3>2
  <2>2. CASE k > 0 /\ k < L
    <3>1. w = Append(win, b)
      BY <1>1, <2>2 DEF Moved
    <3>2. w \in Seq(Chars) /\ m = k + 1 /\ w[k + 1] = b /\ \A j \in 1 .. k : w[j] = win[j]
      <4> HIDE DEF w
      <4> QED
        BY <3>1 DEF DialTypes
    <3>3. \A j \in 1 .. k : win[j] = heard[n - k + j] /\ n - k + j \in 1 .. n
      BY <1>1 DEF Window
    <3> HIDE DEF w
    <3>4. ASSUME NEW j \in 1 .. m PROVE w[j] = heard'[n + 1 - m + j]
      <4>1. n + 1 - m + j = n - k + j
        BY <1>1, <3>2
      <4>2. CASE j = k + 1
        BY <1>1, <1>2, <3>2, <4>1, <4>2
      <4>3. CASE j # k + 1
        <5>1. j \in 1 .. k
          BY <1>1, <3>2, <4>3
        <5> QED
          BY <1>2, <3>2, <3>3, <4>1, <5>1
      <4> QED
        BY <4>2, <4>3
    <3>5. m \in Nat /\ m <= L /\ m <= n + 1
      BY <1>1, <2>2, <3>2
    <3> QED
      BY <3>2, <3>4, <3>5
  <2>3. CASE k > 0 /\ ~(k < L)
    <3>1. w = Append(Tail(win), b)
      BY <1>1, <2>3 DEF Moved
    <3>2. Tail(win) \in Seq(Chars) /\ Len(Tail(win)) = k - 1 /\ \A j \in 1 .. k - 1 : Tail(win)[j] = win[j + 1]
      BY <1>1, <2>3 DEF DialTypes
    <3>3. w \in Seq(Chars) /\ m = k /\ w[k] = b /\ \A j \in 1 .. k - 1 : w[j] = win[j + 1]
      <4> HIDE DEF w
      <4> QED
        BY <1>1, <3>1, <3>2
    <3>4. \A j \in 1 .. k - 1 : j + 1 \in 1 .. k /\ win[j + 1] = heard[n - k + j + 1] /\ n - k + j + 1 \in 1 .. n
      BY <1>1 DEF Window
    <3> HIDE DEF w
    <3>5. ASSUME NEW j \in 1 .. m PROVE w[j] = heard'[n + 1 - m + j]
      <4>1. n + 1 - m + j = n - k + j + 1
        BY <1>1, <3>3
      <4>2. CASE j = k
        BY <1>1, <1>2, <3>3, <4>1, <4>2
      <4>3. CASE j # k
        <5>1. j \in 1 .. k - 1
          BY <1>1, <3>3, <4>3
        <5> QED
          BY <1>2, <3>3, <3>4, <4>1, <5>1
      <4> QED
        BY <4>2, <4>3
    <3>6. m \in Nat /\ m <= L /\ m <= n + 1
      BY <1>1, <2>3, <3>3
    <3> QED
      BY <3>3, <3>5, <3>6
  <2>4. k = 0 \/ (k > 0 /\ k < L) \/ (k > 0 /\ ~(k < L))
    BY <1>1
  <2> QED
    BY <2>1, <2>2, <2>3, <2>4, Zenon
<1>4. m < L => \A j \in 1 .. n + 1 - m : heard'[j] # exp[1]
  <2> SUFFICES ASSUME m < L, NEW j \in 1 .. n + 1 - m PROVE heard'[j] # exp[1]
    OBVIOUS
  <2>1. CASE k = 0
    <3>1. \A i \in 1 .. n : heard[i] # exp[1]
      BY <1>1, <2>1 DEF Window
    <3>2. CASE b = exp[1]
      <4>1. w = <<b>>
        BY <1>1, <2>1, <3>2 DEF Moved
      <4>2. m = 1
        <5> HIDE DEF w
        <5> QED
          BY <4>1
      <4> QED
        BY <1>1, <1>2, <3>1, <4>2
    <3>3. CASE b # exp[1]
      BY <1>1, <1>2, <1>3, <3>1, <3>3
    <3> QED
      BY <3>2, <3>3
  <2>2. CASE k > 0 /\ k < L
    <3>1. w = Append(win, b)
      BY <1>1, <2>2 DEF Moved
    <3>2. m = k + 1
      <4> HIDE DEF w
      <4> QED
        BY <3>1 DEF DialTypes
    <3>3. j \in 1 .. n - k /\ j \in 1 .. n
      BY <1>1, <3>2
    <3> QED
      BY <1>1, <1>2, <2>2, <3>3 DEF Window
  <2>3. CASE k > 0 /\ ~(k < L)
    <3>1. w = Append(Tail(win), b)
      BY <1>1, <2>3 DEF Moved
    <3>2. Tail(win) \in Seq(Chars) /\ Len(Tail(win)) = k - 1
      BY <1>1, <2>3 DEF DialTypes
    <3>3. m = k
      <4> HIDE DEF w
      <4> QED
        BY <1>1, <3>1, <3>2
    <3> QED
      BY <1>1, <2>3, <3>3
  <2> QED
    BY <1>1, <2>1, <2>2, <2>3
<1>5. \A i \in 1 .. n : ~EndsAt(i)
  <2> SUFFICES ASSUME NEW i \in 1 .. n PROVE ~EndsAt(i)
    OBVIOUS
  <2>1. CASE i = n
    BY <1>1, <2>1 DEF NotYet
  <2>2. CASE i # n
    BY <1>1, <2>2 DEF Window
  <2> QED
    BY <2>1, <2>2
<1>6. \A i \in 1 .. n : EndsAt(i)' => EndsAt(i)
  <2> SUFFICES ASSUME NEW i \in 1 .. n, EndsAt(i)' PROVE EndsAt(i)
    OBVIOUS
  <2>1. i >= L /\ \A j \in 1 .. L : heard'[i - L + j] = exp[j]
    BY DEF EndsAt
  <2>2. \A j \in 1 .. L : i - L + j \in 1 .. n
    BY <1>1, <2>1
  <2> QED
    BY <1>2, <2>1, <2>2 DEF EndsAt
<1>7. w # exp => NotYet'
  <2> SUFFICES ASSUME ~NotYet' PROVE w = exp
    OBVIOUS
  <2>1. n + 1 >= L /\ \A j \in 1 .. L : heard'[n + 1 - L + j] = exp[j]
    <3>1. Len(heard') >= Len(exp') /\ \A j \in 1 .. Len(exp') : heard'[Len(heard') - Len(exp') + j] = exp'[j]
      BY DEF EndsAt, NotYet
    <3>2. exp' = exp /\ Len(heard') = n + 1
      BY <1>2
    <3>3. n + 1 >= L
      BY <3>1, <3>2
    <3>4. ASSUME NEW j \in 1 .. L PROVE heard'[n + 1 - L + j] = exp[j]
      <4>1. j \in 1 .. Len(exp')
        BY <3>2
      <4>2. heard'[Len(heard') - Len(exp') + j] = exp'[j]
        BY <3>1, <4>1
      <4>3. exp'[j] = exp[j]
        BY <3>2
      <4>4. Len(heard') - Len(exp') + j = n + 1 - L + j
        BY <1>1, <3>2
      <4> QED
        BY <4>2, <4>3, <4>4
    <3> QED
      BY <3>3, <3>4
  <2>2. heard'[n + 1 - L + 1] = exp[1]
    BY <1>1, <2>1
  <2>3. ~(m < L)
    <3>1. m < L => n + 1 - L + 1 \in 1 .. n + 1 - m
      BY <1>1, <1>3, <2>1
    <3> QED
      BY <1>4, <2>2, <3>1
  <2>4. m = L
    BY <1>1, <1>3, <2>3
  <2>5. \A j \in 1 .. L : w[j] = exp[j]
    BY <1>3, <2>1, <2>4
  <2> HIDE DEF w
  <2>6. Len(w) = Len(exp) /\ \A j \in 1 .. Len(exp) : w[j] = exp[j]
    BY <2>4, <2>5
  <2>7. w \in Seq(Chars) /\ exp \in Seq(Chars)
    BY <1>3 DEF DialTypes
  <2> QED
    BY <2>6, <2>7
<1>8. win' = w
  BY ScanIs
<1> HIDE DEF w
<1>9. Window'
  <2>1. (\A i \in 1 .. Len(heard) - 1 : ~EndsAt(i))'
    BY <1>1, <1>2, <1>5, <1>6
  <2>2. /\ Len(win') <= Len(exp') /\ Len(win') <= Len(heard')
        /\ \A j \in 1 .. Len(win') : win'[j] = heard'[Len(heard') - Len(win') + j]
    <3>1. Len(win') = m /\ Len(exp') = L /\ Len(heard') = n + 1
      BY <1>2, <1>8
    <3>2. \A j \in 1 .. m : win'[j] = heard'[n + 1 - m + j]
      BY <1>3, <1>8
    <3>3. m \in Nat /\ m <= L /\ m <= n + 1
      BY <1>3
    <3>4. Len(win') <= Len(exp') /\ Len(win') <= Len(heard')
      BY <3>1, <3>3
    <3>5. \A j \in 1 .. Len(win') : win'[j] = heard'[Len(heard') - Len(win') + j]
      <4>1. SUFFICES ASSUME NEW j \in 1 .. Len(win') PROVE win'[j] = heard'[Len(heard') - Len(win') + j]
        OBVIOUS
      <4>2. j \in 1 .. m
        BY <3>1, <4>1
      <4>3. win'[j] = heard'[n + 1 - m + j]
        BY <3>2, <4>2, Zenon
      <4>5. Len(heard') = n + 1
        BY <3>1
      <4>6. Len(win') = m
        BY <3>1
      <4>7. Len(heard') - Len(win') = n + 1 - m
        BY <4>5, <4>6
      <4>4. Len(heard') - Len(win') + j = n + 1 - m + j
        BY <4>7
      <4> QED
        BY <4>3, <4>4, Zenon
    <3> QED
      BY <3>4, <3>5
  <2>3. Len(win') < Len(exp') => \A j \in 1 .. Len(heard') - Len(win') : heard'[j] # exp'[1]
    BY <1>1, <1>2, <1>3, <1>4, <1>8
  <2> QED
    BY <2>1, <2>2, <2>3 DEF Window
<1> QED
  BY <1>7, <1>8, <1>9

LEMMA Strings ==
  /\ Nul \in Chars /\ "hangup" \in Chars /\ Sounds \subseteq Chars
  /\ \A e \in Chars : Escape(e) \in Chars
<1>1. Nul \in Chars /\ "hangup" \in Chars /\ "CR" \in Chars /\ " " \in Chars
  BY DEF Chars, Nul
<1>2. \A e \in Chars : Escape(e) \in {"CR", " ", e}
  BY DEF Escape
<1>3. Sounds \subseteq Chars
  BY DialAssumption DEF Chars
<1> QED
  BY <1>1, <1>2, <1>3

(* dial_find takes its chat from a whole line.                             *)
LEMMA ChatFound ==
  ASSUME chat \in Seq(Words), dial_find
  PROVE  chat' \in Seq(Words)
<1>1. PICK file \in Files :
        LET stop == {i \in DOMAIN file : dial_next(file[i]) /\ (Whole(file[i]) => file[i].dialer = Wanted)}
            i == CHOOSE j \in stop : \A k \in stop : j <= k
        IN  IF stop = {} THEN dpc' = "failed" /\ UNCHANGED chat
            ELSE IF Whole(file[i]) THEN dpc' = "open" /\ chat' = file[i].expsend
            ELSE dpc' = "quit" /\ UNCHANGED chat
  BY DEF dial_find
<1> DEFINE stop == {i \in DOMAIN file : dial_next(file[i]) /\ (Whole(file[i]) => file[i].dialer = Wanted)}
           first == CHOOSE j \in stop : \A k \in stop : j <= k
<1>2. chat' = chat \/ (stop # {} /\ Whole(file[first]) /\ chat' = file[first].expsend)
  BY <1>1
<1>3. stop \subseteq DOMAIN file /\ DOMAIN file \subseteq Nat
  BY DialAssumption
<1>4. stop # {} => first \in stop
  <2> HIDE DEF stop
  <2> SUFFICES ASSUME stop # {} PROVE first \in stop
    OBVIOUS
  <2>1. \E j \in stop : \A k \in stop : j <= k
    BY <1>3, LowestNat
  <2> HIDE DEF first
  <2>2. first \in stop /\ \A k \in stop : first <= k
    BY <2>1 DEF first
  <2> QED
    BY <2>2
<1> HIDE DEF stop, first
<1>5. stop # {} /\ Whole(file[first]) => file[first].expsend \in Seq(Words)
  <2> DEFINE S == STRING  said == Seq(S) \ {<<>>}
  <2>1. S \subseteq Chars
    BY DEF Chars
  <2>3. stop # {} /\ Whole(file[first]) => file[first].expsend \in Seq(said)
    BY <1>3, <1>4, DialAssumption DEF Whole
  <2> HIDE DEF S
  <2>2. said \subseteq Words
    BY <2>1 DEF Words
  <2> HIDE DEF said
  <2>4. Seq(said) \subseteq Seq(Words)
    BY <2>2
  <2> QED
    BY <2>3, <2>4
<1> QED
  BY <1>2, <1>5

LEMMA DialStarts == DialInit => DialInv
<1> SUFFICES ASSUME DialInit PROVE DialInv
  OBVIOUS
<1>1. DialTypes
  BY Strings DEF DialInit, DialTypes
<1>2. dpc = "find" /\ alarm = "off"
  BY DEF DialInit
<1> QED
  BY <1>1, <1>2 DEF DialInv

LEMMA ReadKeeps ==
  ASSUME DialInv, exp_read_late \/ exp_read \/ ReadByte \/ sig_alrm
  PROVE  DialInv'
<1> USE DEF DialInv
<1>1. UNCHANGED <<chat, exp>>
  BY DEF exp_read_late, exp_read, ReadByte, sig_alrm
<1>2. ASSUME TimedOut, caught', exp # <<>>, c \in Chars, wire' \in Seq(Chars), heard' \in Seq(Chars)
      PROVE  DialInv'
  <2>1. PICK b \in IF Skips THEN {c} ELSE Sounds : Scan(b)
    BY <1>2 DEF TimedOut
  <2>2. b \in Chars
    BY <1>2, <2>1, Strings
  <2>3. win' \in Seq(Chars) /\ c' \in Chars
    BY <1>2, <2>1, <2>2, ScanTypes
  <2>4. dpc' \in {"overrun", "matched", "test"}
    BY <2>1, ScanIs
  <2> QED
    BY <1>1, <1>2, <2>3, <2>4 DEF DialTypes, Quiet
<1>3. CASE exp_read_late
  BY <1>2, <1>3 DEF exp_read_late, DialTypes
<1>4. CASE exp_read
  <2>1. dpc = "test" /\ dpc' = "read" /\ UNCHANGED <<chat, exp, c, win, wire, heard, alarm, caught>>
    BY <1>4 DEF exp_read
  <2>2. DialTypes'
    BY <2>1 DEF DialTypes
  <2>3. (Window => Window') /\ (NotYet => NotYet')
    BY <2>1 DEF Window, NotYet, EndsAt
  <2> QED
    BY <2>1, <2>2, <2>3 DEF Quiet
<1>5. CASE ReadByte
  <2>1. dpc = "read" /\ wire # <<>> /\ wire' = Tail(wire) /\ UNCHANGED <<alarm, caught>> /\ exp # <<>> /\ c \in Chars
    BY <1>5 DEF ReadByte
  <2>2. wire' \in Seq(Chars) /\ Head(wire) \in Chars
    BY <2>1 DEF DialTypes
  <2>3. CASE Head(wire) = "hangup"
    <3>1. dpc' = "quit" /\ UNCHANGED <<win, c, heard>>
      BY <1>5, <2>3 DEF ReadByte
    <3> QED
      BY <1>1, <2>2, <3>1 DEF DialTypes, Quiet
  <2>4. CASE Head(wire) # "hangup"
    <3>1. Scan(Head(wire)) /\ heard' = Append(heard, Head(wire))
      BY <1>5, <2>4 DEF ReadByte
    <3>2. win' \in Seq(Chars) /\ c' \in Chars /\ heard' \in Seq(Chars)
      BY <2>1, <2>2, <3>1, ScanTypes DEF DialTypes
    <3>3. dpc' \in {"overrun", "matched", "test"} /\ (dpc' = "matched" => win' = exp) /\ (dpc' = "test" => win' # exp)
      BY <3>1, ScanIs
    <3>4. ~caught => Window' /\ (win' = exp \/ NotYet')
      <4> SUFFICES ASSUME ~caught PROVE Window' /\ (win' = exp \/ NotYet')
        OBVIOUS
      <4> QED
        BY <1>1, <2>1, <2>2, <3>1, ScanKeeps
    <3>5. DialTypes'
      BY <1>1, <2>2, <3>2 DEF DialTypes
    <3> QED
      BY <1>1, <2>1, <3>2, <3>3, <3>4, <3>5 DEF Quiet
  <2> QED
    BY <2>3, <2>4
<1>6. CASE sig_alrm
  <2>1. alarm' = "off" /\ caught' = TRUE /\ UNCHANGED <<wire, heard>>
    BY <1>6 DEF sig_alrm
  <2>2. CASE dpc = "read" /\ TimedOut
    BY <1>2, <2>1, <2>2 DEF DialTypes
  <2>3. CASE UNCHANGED <<dpc, win, c>>
    <3>1. DialTypes'
      BY <1>1, <2>1, <2>3 DEF DialTypes
    <3> QED
      BY <1>1, <2>1, <2>3, <3>1 DEF Quiet
  <2> QED
    BY <1>6, <2>2, <2>3 DEF sig_alrm
<1> QED
  BY <1>3, <1>4, <1>5, <1>6

LEMMA ExpectKeeps ==
  ASSUME DialInv, ExpectStart \/ ExpectNothing \/ Matched
  PROVE  DialInv'
<1> USE DEF DialInv
<1>1. chat # <<>> => Head(chat) \in Words /\ Tail(chat) \in Seq(Words)
  BY DEF DialTypes
<1>2. CASE ExpectStart
  <2>1. /\ dpc = "expect" /\ chat # <<>> /\ chat' = Tail(chat) /\ win' = <<>> /\ heard' = <<>>
        /\ c' = Nul /\ wire' = wire
        /\ \/ dpc' = "failed" /\ exp' = exp
           \/ exp' = [i \in DOMAIN Head(chat) |-> Escape(Head(chat)[i])] /\ dpc' = "test"
    BY <1>2 DEF ExpectStart
  <2> DEFINE word == Head(chat)  said == [i \in DOMAIN word |-> Escape(word[i])]
  <2>2. said \in Seq(Chars) /\ said # <<>>
    <3>1. word \in Seq(Chars) /\ word # <<>>
      BY <1>1, <2>1 DEF Words
    <3> HIDE DEF word
    <3>2. \A i \in DOMAIN word : Escape(word[i]) \in Chars
      BY <3>1, Strings
    <3>3. DOMAIN word = 1 .. Len(word) /\ Len(word) \in Nat /\ Len(word) # 0
      BY <3>1
    <3>4. said \in [1 .. Len(word) -> Chars]
      BY <3>2, <3>3
    <3> HIDE DEF said
    <3>5. said \in Seq(Chars) /\ Len(said) = Len(word)
      BY <3>3, <3>4
    <3> QED
      BY <3>3, <3>5
  <2> HIDE DEF said
  <2>3. DialTypes' /\ c' \in Chars
    <3>1. exp' \in Seq(Chars)
      BY <2>1, <2>2 DEF DialTypes, said
    <3>2. chat' \in Seq(Words) /\ wire' \in Seq(Chars)
      BY <1>1, <2>1 DEF DialTypes
    <3>3. win' \in Seq(Chars) /\ heard' \in Seq(Chars)
      BY <2>1
    <3> QED
      BY <2>1, <3>1, <3>2, <3>3, Strings DEF DialTypes
  <2>4. ASSUME dpc' = "test" PROVE exp' # <<>> /\ Window' /\ NotYet'
    <3>1. exp' = said
      BY <2>1, <2>4 DEF said
    <3>2. exp' \in Seq(Chars) /\ exp' # <<>> /\ Len(exp') \in Nat
      BY <2>2, <3>1
    <3>3. Len(win') = 0 /\ Len(heard') = 0
      BY <2>1
    <3> QED
      BY <2>1, <3>2, <3>3 DEF Window, NotYet
  <2>5. dpc' \in {"failed", "test"}
    BY <2>1
  <2> QED
    BY <2>3, <2>4, <2>5 DEF Quiet
<1>3. CASE ExpectNothing
  <2>1. /\ chat # <<>> /\ chat' = Tail(chat) /\ dpc' = "matched" /\ exp' = <<>> /\ heard' = <<>>
        /\ UNCHANGED <<c, win, wire>>
    BY <1>3 DEF ExpectNothing
  <2> QED
    BY <1>1, <2>1 DEF DialTypes, Quiet
<1>4. CASE Matched
  <2>1. /\ alarm' = "off" /\ dpc' \in {"connected", "send"} /\ UNCHANGED <<exp, c, win, wire, heard>>
        /\ chat' = chat \/ (chat # <<>> /\ chat' = Tail(chat))
    BY <1>4 DEF Matched
  <2> QED
    BY <1>1, <2>1 DEF DialTypes, Quiet
<1> QED
  BY <1>2, <1>3, <1>4

LEMMA SendKeeps ==
  ASSUME DialInv, SendEscape \/ SendPhone \/ SendByte \/ ReadEcho
  PROVE  DialInv'
<1> USE DEF DialInv
<1>1. dpc \in {"send", "echo"} /\ UNCHANGED <<chat, exp, win, heard, alarm, caught>>
  BY DEF SendEscape, SendPhone, SendByte, ReadEcho
<1>2. alarm' = "off"
  BY <1>1 DEF Quiet
<1>3. dpc' \in {"send", "echo", "connected", "expect", "failed", "overrun", "quit"}
  BY DEF SendEscape, SendPhone, SendByte, ReadEcho, SendReturns
<1>4. wire' \in Seq(Chars)
  <2>1. wire' = wire \/ (wire # <<>> /\ wire' = Tail(wire))
    BY DEF SendEscape, SendPhone, SendByte, ReadEcho
  <2>2. wire \in Seq(Chars)
    BY DEF DialTypes
  <2>3. wire # <<>> => Tail(wire) \in Seq(Chars)
    BY <2>2
  <2> QED
    BY <2>1, <2>2, <2>3
<1> QED
  BY <1>1, <1>2, <1>3, <1>4 DEF DialTypes, Quiet

(* Without a time out expect_str returns at the first occurrence of its    *)
(* string, having read no further, and leaves no alarm behind: for any     *)
(* Dialers files, whatever the modem sends and whenever the alarm comes    *)
(* (expect_str, exp_read, tty_dial).                                       *)
THEOREM MatchesFirst == DialerSpec => []FirstMatch
<1>1. DialInv /\ [DialNext]_dialVars => DialInv'
  <2> SUFFICES ASSUME DialInv, [DialNext]_dialVars PROVE DialInv'
    OBVIOUS
  <2>1. CASE UNCHANGED dialVars
    BY <2>1 DEF dialVars, DialInv, DialTypes, Window, NotYet, EndsAt
  <2>2. CASE dial_find
    <3>1. chat' \in Seq(Words)
      BY <2>2, ChatFound DEF DialInv, DialTypes
    <3>2. dpc = "find" /\ dpc' \in {"failed", "open", "quit"}
          /\ UNCHANGED <<exp, win, wire, heard, alarm>>
      BY <2>2 DEF dial_find
    <3> QED
      BY <3>1, <3>2 DEF DialInv, DialTypes, Quiet
  <2>3. CASE tty_open
    <3>1. dpc = "open" /\ dpc' \in {"failed", "quit", "expect"}
          /\ UNCHANGED <<chat, exp, win, wire, heard, alarm>>
      BY <2>3 DEF tty_open
    <3> QED
      BY <3>1 DEF DialInv, DialTypes, Quiet
  <2>4. CASE Modem
    <3>1. UNCHANGED <<dpc, chat, exp, c, win, heard, alarm, caught>>
      BY <2>4 DEF Modem
    <3>2. wire' \in Seq(Chars)
      BY <2>4, Strings DEF Modem, DialInv, DialTypes
    <3> QED
      BY <3>1, <3>2 DEF DialInv, DialTypes, Window, NotYet, EndsAt
  <2> QED
    BY <2>1, <2>2, <2>3, <2>4, ReadKeeps, ExpectKeeps, SendKeeps DEF DialNext, DialChild
<1>2. ASSUME DialInv PROVE FirstMatch
  <2>1. dpc \in {"send", "echo", "connected"} => alarm = "off"
    BY <1>2 DEF DialInv, Quiet
  <2> SUFFICES ASSUME dpc = "matched", ~caught
               PROVE  Received(heard) /\ \A i \in 1 .. Len(heard) - 1 : ~Received(SubSeq(heard, 1, i))
    BY <2>1 DEF FirstMatch
  <2>2. CASE exp = <<>> /\ heard = <<>>
    BY <2>2 DEF Received
  <2>3. CASE exp # <<>> /\ Window /\ win = exp
    <3> DEFINE n == Len(heard)  L == Len(exp)
    <3>1. n \in Nat /\ L \in Nat /\ L >= 1 /\ L <= n /\ heard \in Seq(Chars) /\ exp \in Seq(Chars)
          /\ \A j \in 1 .. L : exp[j] = heard[n - L + j]
      BY <1>2, <2>3 DEF DialInv, DialTypes, Window
    <3>2. Received(heard)
      <4> DEFINE s == SubSeq(heard, n - L + 1, n)
      <4>1. s \in Seq(Chars) /\ Len(s) = L /\ \A j \in 1 .. L : s[j] = heard[n - L + j]
        BY <3>1
      <4> HIDE DEF s
      <4>2. s = exp
        BY <3>1, <4>1
      <4> QED
        BY <3>1, <4>2 DEF s, Received
    <3>3. ASSUME NEW i \in 1 .. n - 1, Received(SubSeq(heard, 1, i)) PROVE FALSE
      <4> DEFINE h == SubSeq(heard, 1, i)  s == SubSeq(h, i - L + 1, i)
      <4>1. h \in Seq(Chars) /\ Len(h) = i /\ \A j \in 1 .. i : h[j] = heard[j]
        BY <3>1
      <4> HIDE DEF h
      <4>2. i >= L /\ s = exp
        BY <3>3, <4>1 DEF Received, h
      <4>3. \A j \in 1 .. L : s[j] = h[i - L + j] /\ i - L + j \in 1 .. i
        BY <3>1, <4>1, <4>2
      <4> HIDE DEF s
      <4>4. EndsAt(i)
        BY <4>1, <4>2, <4>3 DEF EndsAt
      <4> QED
        BY <2>3, <4>4 DEF Window
    <3> QED
      BY <3>2, <3>3
  <2> QED
    BY <1>2, <2>2, <2>3 DEF DialInv
<1> QED
  BY <1>1, <1>2, DialStarts, PTL DEF DialerSpec

-----------------------------------------------------------------------------
(* Parent and child                                                        *)

(* The n operations of devzero that are left to a process.                 *)
Loop(p) == IF p = "child" THEN <<"wait", "load", "store", "tell">> ELSE <<"load", "store", "tell", "wait">>
Left(p, n) == [j \in 1 .. n |-> Loop(p)[4 - ((n - j) % 4)]]
Both(n, k) == todo["parent"] = Left("parent", n) /\ todo["child"] = Left("child", k)
Told(n, k) == told["parent"] = n /\ told["child"] = k
(* The parent updates when the count is even, the child when it is odd,    *)
(* and what lies between the two is a byte on its way to the other.        *)
Even == area % 2 = 0
Turn(m) ==
  \/ Both(4 * m, 4 * m) /\ Told(0, 0) /\ Even
  \/ Both(4 * m + 3, 4 * m + 4) /\ Told(0, 0) /\ Even /\ reg["parent"] = area
  \/ Both(4 * m + 2, 4 * m + 4) /\ Told(0, 0) /\ ~Even
  \/ Both(4 * m + 1, 4 * m + 4) /\ Told(0, 1) /\ ~Even
  \/ Both(4 * m + 1, 4 * m + 3) /\ Told(0, 0) /\ ~Even
  \/ Both(4 * m + 1, 4 * m + 2) /\ Told(0, 0) /\ ~Even /\ reg["child"] = area
  \/ Both(4 * m + 1, 4 * m + 1) /\ Told(0, 0) /\ Even
  \/ Both(4 * m + 1, 4 * m) /\ Told(1, 0) /\ Even
Alternates == \A i \in DOMAIN got : got[i] = <<(IF (i % 2) = 1 THEN "parent" ELSE "child"), i - 1>>

(* tellwait2: the child has not begun while the parent has not told it.    *)
Parents == \A i \in DOMAIN output : output[i] = "parent"
Ordered == \A i, j \in DOMAIN output : output[i] = "parent" /\ output[j] = "child" => i < j
Speaks ==
  \/ /\ todo["parent"] \in {<<"putc", "putc", "tell">>, <<"putc", "tell">>, <<"tell">>}
     /\ todo["child"] = <<"wait", "putc", "putc">> /\ Told(0, 0) /\ Parents
  \/ todo["parent"] = <<>> /\ todo["child"] = <<"wait", "putc", "putc">> /\ Told(0, 1) /\ Parents
  \/ /\ todo["parent"] = <<>> /\ todo["child"] \in {<<"putc", "putc">>, <<"putc">>, <<>>}
     /\ Told(0, 0) /\ Ordered

(* deadlock: a byte is in a pipe from the telling to the waiting, and the  *)
(* lock that a process asks for last it has when it has ended.             *)
FirstLock(p) == IF p = "child" THEN "lock0" ELSE "lock1"
FinalLock(p) == IF p = "child" THEN "lock1" ELSE "lock0"
Stages ==
  [p \in Pair |-> << <<FirstLock(p), "tell", "wait", FinalLock(p)>>, <<"tell", "wait", FinalLock(p)>>, <<"wait", FinalLock(p)>>,
                     <<FinalLock(p)>>, <<>> >>]
LastByte(p) == IF p = "child" THEN 1 ELSE 0
(* What is in the pipe to a process, by the stages of the other and itself.*)
Pipe(other, own) == (IF other >= 3 THEN 1 ELSE 0) - (IF own >= 4 THEN 1 ELSE 0)
At(stage) ==
  \A p \in Pair :
    /\ todo[p] = Stages[p][stage[p]]
    /\ told[p] = Pipe(stage[Other(p)], stage[p])
    /\ <<p, LastByte(p)>> \in locks => stage[p] = 5
Locking == \E stage \in [Pair -> 1 .. 5] : At(stage)

TellTypes ==
  /\ todo = [p \in Pair |-> todo[p]] /\ told \in [Pair -> Int] /\ reg \in [Pair -> Nat] /\ area \in Nat
  /\ output \in Seq(Pair) /\ got \in Seq(Pair \X Nat) /\ Len(got) = area
TellInv ==
  /\ TellTypes /\ Alternates
  /\ program # "devzero" => got = <<>>
  /\ program # "deadlock" => locks = {}
  /\ program # "tellwait2" => output = <<>>
  /\ \/ program = "none" /\ todo["parent"] = <<>> /\ todo["child"] = <<>> /\ Told(0, 0) /\ area = 0
     \/ program = "tellwait2" /\ Speaks
     \/ program = "devzero" /\ \E m \in Nat : Turn(m)
     \/ program = "deadlock" /\ Locking

-----------------------------------------------------------------------------
LEMMA Pairs == Pair = {"parent", "child"} /\ Other("parent") = "child" /\ Other("child") = "parent"
BY DEF Pair, Other

LEMMA Modulo ==
  /\ \A q \in Int, r \in 0 .. 3 : (4 * q + r) % 4 = r
  /\ \A a \in Nat : a % 4 \in 0 .. 3 /\ a \div 4 \in Int /\ a = 4 * (a \div 4) + (a % 4)
OBVIOUS

(* What is left of devzero, one operation after the other.                 *)
LEMMA LeftIs ==
  ASSUME NEW p \in Pair, NEW n \in Nat
  PROVE  /\ n = 0 => Left(p, n) = <<>>
         /\ n > 0 => /\ Left(p, n) # <<>> /\ Head(Left(p, n)) = Loop(p)[4 - ((n - 1) % 4)]
                     /\ Tail(Left(p, n)) = Left(p, n - 1)
<1> DEFINE s == Left(p, n)  Ops == {"wait", "load", "store", "tell"}
<1>1. \A j \in 1 .. n : n - j \in Nat /\ 4 - ((n - j) % 4) \in 1 .. 4
  <2> SUFFICES ASSUME NEW j \in 1 .. n PROVE n - j \in Nat /\ 4 - ((n - j) % 4) \in 1 .. 4
    OBVIOUS
  <2>1. n - j \in Nat
    OBVIOUS
  <2>2. (n - j) % 4 \in 0 .. 3
    BY <2>1
  <2> QED
    BY <2>1, <2>2
<1>2. \A a \in 1 .. 4 : Loop(p)[a] \in Ops
  BY DEF Loop
<1>3. s \in Seq(Ops) /\ Len(s) = n /\ \A j \in 1 .. n : s[j] = Loop(p)[4 - ((n - j) % 4)]
  <2>1. s = [j \in 1 .. n |-> Loop(p)[4 - ((n - j) % 4)]]
    BY DEF Left
  <2> HIDE DEF s
  <2>2. \A j \in 1 .. n : Loop(p)[4 - ((n - j) % 4)] \in Ops
    BY <1>1, <1>2
  <2>3. s \in [1 .. n -> Ops]
    BY <2>1, <2>2
  <2>4. s \in Seq(Ops)
    BY <2>3
  <2> QED
    BY <2>1, <2>4
<1> HIDE DEF s
<1>4. n = 0 => s = <<>>
  BY <1>3
<1>5. ASSUME n > 0
      PROVE  s # <<>> /\ Head(s) = Loop(p)[4 - ((n - 1) % 4)] /\ Tail(s) = Left(p, n - 1)
  <2>1. s # <<>> /\ Head(s) = s[1] /\ Tail(s) \in Seq(Ops) /\ Len(Tail(s)) = n - 1
        /\ \A j \in 1 .. n - 1 : Tail(s)[j] = s[j + 1]
    BY <1>3, <1>5
  <2>2. \A j \in 1 .. n - 1 : s[j + 1] = Loop(p)[4 - (((n - 1) - j) % 4)]
    <3> SUFFICES ASSUME NEW j \in 1 .. n - 1 PROVE s[j + 1] = Loop(p)[4 - (((n - 1) - j) % 4)]
      OBVIOUS
    <3>1. j + 1 \in 1 .. n /\ n - (j + 1) = (n - 1) - j
      OBVIOUS
    <3> QED
      BY <1>3, <3>1
  <2>3. Tail(s) = [j \in 1 .. n - 1 |-> Tail(s)[j]]
    <3> DEFINE u == Tail(s)
    <3>1. u \in Seq(Ops) /\ Len(u) = n - 1
      BY <2>1
    <3> HIDE DEF u
    <3>2. u = [j \in 1 .. n - 1 |-> u[j]]
      BY <3>1
    <3> QED
      BY <3>2 DEF u
  <2>4. Tail(s) = Left(p, n - 1)
    BY <2>1, <2>2, <2>3 DEF Left
  <2> QED
    BY <1>3, <1>5, <2>1, <2>4
<1> QED
  BY <1>4, <1>5 DEF s

(* Which operation is next.                                                *)
LEMMA Heads ==
  ASSUME NEW p \in Pair, NEW m \in Nat, NEW r \in 1 .. 4
  PROVE  /\ Left(p, 4 * m + r) # <<>> /\ Head(Left(p, 4 * m + r)) = Loop(p)[5 - r]
         /\ Tail(Left(p, 4 * m + r)) = Left(p, 4 * m + r - 1)
<1>1. 4 * m + r \in Nat /\ 4 * m + r > 0 /\ (4 * m + r) - 1 = 4 * m + (r - 1) /\ r - 1 \in 0 .. 3 /\ m \in Int
  OBVIOUS
<1>2. (4 * m + (r - 1)) % 4 = r - 1
  BY <1>1, Modulo
<1>3. 4 - (((4 * m + r) - 1) % 4) = 5 - r
  BY <1>1, <1>2
<1> QED
  BY <1>1, <1>3, LeftIs

(* devzero begins with all its operations left.                            *)
LEMMA AllLeft == ASSUME NEW p \in Pair PROVE devzero(p) = Left(p, 4 * Loops)
<1>1. ASSUME NEW k \in 1 .. 4 * Loops PROVE ((k - 1) % 4) + 1 = 4 - ((4 * Loops - k) % 4)
  <2> DEFINE q == (k - 1) \div 4  r == (k - 1) % 4
  <2>1. k - 1 \in Nat /\ Loops \in Nat /\ k \in Int
    BY TellAssumption
  <2>2. q \in Int /\ r \in 0 .. 3 /\ k - 1 = 4 * q + r
    BY <2>1, Modulo
  <2> HIDE DEF q, r
  <2>3. 4 * Loops - k = 4 * (Loops - q - 1) + (3 - r) /\ Loops - q - 1 \in Int /\ 3 - r \in 0 .. 3
    BY <2>1, <2>2
  <2>4. (4 * Loops - k) % 4 = 3 - r
    BY <2>3, Modulo
  <2>5. (k - 1) % 4 = r
    BY DEF r
  <2> QED
    BY <2>2, <2>4, <2>5
<1> QED
  BY <1>1 DEF devzero, Left, Loop

-----------------------------------------------------------------------------
(* What a process does next changes what it does.                          *)
Effect(op, p) ==
  CASE op = "tell" -> told' = [told EXCEPT ![Other(p)] = @ + 1] /\ UNCHANGED <<output, area, reg, got>>
    [] op = "wait" -> told[p] > 0 /\ told' = [told EXCEPT ![p] = @ - 1] /\ UNCHANGED <<output, area, reg, got>>
    [] op = "putc" -> output' = Append(output, p) /\ UNCHANGED <<told, area, reg, got>>
    [] op = "load" -> reg' = [reg EXCEPT ![p] = area] /\ UNCHANGED <<told, output, area, got>>
    [] op = "store" -> area' = reg[p] + 1 /\ got' = Append(got, <<p, reg[p]>>) /\ UNCHANGED <<told, output, reg>>
Goes(p) ==
  /\ todo[p] # <<>> /\ Head(todo[p]) \in {"tell", "wait", "putc", "load", "store"} /\ Done(p)
  /\ Effect(Head(todo[p]), p) /\ UNCHANGED <<program, locks>>

LEMMA Steps ==
  ASSUME NEW p \in Pair, TELL(p) \/ WAIT(p) \/ putc(p) \/ load(p) \/ store(p)
  PROVE  Goes(p)
<1>1. CASE TELL(p)
  BY <1>1 DEF TELL, Does, Goes, Effect
<1>2. CASE WAIT(p)
  BY <1>2 DEF WAIT, Does, Goes, Effect
<1>3. CASE putc(p)
  BY <1>3 DEF putc, Does, Goes, Effect
<1>4. CASE load(p)
  BY <1>4 DEF load, Does, Goes, Effect
<1>5. CASE store(p)
  BY <1>5 DEF store, Does, Goes, Effect
<1> QED
  BY <1>1, <1>2, <1>3, <1>4, <1>5

LEMMA TellStarts == TellInit => TellInv
<1> SUFFICES ASSUME TellInit PROVE TellInv
  OBVIOUS
<1>1. TellTypes /\ Len(got) = 0
  BY DEF TellInit, TellTypes
<1>2. Alternates /\ Told(0, 0) /\ todo["parent"] = <<>> /\ todo["child"] = <<>>
  BY Pairs DEF TellInit, Alternates, Told
<1> QED
  BY <1>1, <1>2 DEF TellInit, TellInv

LEMMA Chooses == ASSUME TellInv, TELL_WAIT PROVE TellInv'
<1>1. program = "none" /\ Told(0, 0) /\ area = 0 /\ locks = {} /\ got = <<>> /\ output = <<>>
  BY DEF TellInv, TELL_WAIT
<1>2. TellTypes' /\ Alternates'
  BY DEF TELL_WAIT, TellInv, TellTypes, Alternates
<1>3. Told(0, 0)' /\ area' = 0 /\ locks' = {} /\ got' = <<>> /\ output' = <<>>
  BY <1>1 DEF TELL_WAIT, Told
<1>4. todo' = [p \in Pair |-> Program(program', p)] /\ program' \in {"tellwait2", "devzero", "deadlock"}
  BY DEF TELL_WAIT
<1>5. CASE program' = "tellwait2"
  <2>1. todo'["parent"] = <<"putc", "putc", "tell">> /\ todo'["child"] = <<"wait", "putc", "putc">>
    BY <1>4, <1>5, Pairs DEF Program, tellwait2
  <2>2. Parents'
    BY <1>3 DEF Parents
  <2>3. Speaks'
    BY <1>3, <2>1, <2>2 DEF Speaks
  <2> QED
    BY <1>2, <1>3, <1>5, <2>3 DEF TellInv
<1>6. CASE program' = "devzero"
  <2>1. todo'["parent"] = Left("parent", 4 * Loops) /\ todo'["child"] = Left("child", 4 * Loops)
    BY <1>4, <1>6, AllLeft, Pairs DEF Program
  <2>2. Even'
    BY <1>3 DEF Even
  <2>3. Both(4 * Loops, 4 * Loops)'
    BY <2>1 DEF Both, Left, Loop
  <2>4. Turn(Loops)'
    BY <1>3, <2>2, <2>3 DEF Turn
  <2> QED
    BY <1>2, <1>3, <1>6, <2>4, TellAssumption DEF TellInv
<1>7. CASE program' = "deadlock"
  <2> DEFINE stage == [p \in Pair |-> 1]
  <2>1. ASSUME NEW p \in Pair PROVE todo'[p] = Stages[p][1] /\ told'[p] = 0 /\ Other(p) \in Pair
    BY <1>3, <1>4, <1>7, Pairs DEF Program, deadlock, Stages, FirstLock, FinalLock, Told
  <2>2. stage \in [Pair -> 1 .. 5] /\ \A p \in Pair : stage[p] = 1
    OBVIOUS
  <2> HIDE DEF stage
  <2>3. At(stage)'
    BY <1>3, <2>1, <2>2 DEF At, Pipe
  <2>4. Locking'
    BY <2>2, <2>3 DEF Locking
  <2> QED
    BY <1>2, <1>3, <1>7, <2>4 DEF TellInv
<1> QED
  BY <1>4, <1>5, <1>6, <1>7

(* The types hold after every step.                                        *)
LEMMA TypesKeep ==
  ASSUME TellTypes, NEW p \in Pair, Goes(p), NEW op, op = Head(todo[p]), op = "store" => reg[p] = area
  PROVE  TellTypes' /\ DOMAIN todo' = Pair /\ todo'[p] = Tail(todo[p]) /\ todo'[Other(p)] = todo[Other(p)]
<1>1. todo' = [p_1 \in Pair |-> todo'[p_1]] /\ DOMAIN todo' = Pair
      /\ todo'[p] = Tail(todo[p]) /\ todo'[Other(p)] = todo[Other(p)]
  BY Pairs DEF Goes, Done, TellTypes
<1>2. p \in Pair /\ Other(p) \in Pair /\ told[p] \in Int /\ told[Other(p)] \in Int
  BY Pairs DEF TellTypes
<1>3. CASE op = "tell"
  <2>1. told' = [told EXCEPT ![Other(p)] = @ + 1] /\ UNCHANGED <<output, area, reg, got>>
    BY <1>3 DEF Goes, Effect
  <2> QED
    BY <1>1, <1>2, <2>1 DEF TellTypes
<1>4. CASE op = "wait"
  <2>1. told' = [told EXCEPT ![p] = @ - 1] /\ UNCHANGED <<output, area, reg, got>>
    BY <1>4 DEF Goes, Effect
  <2> QED
    BY <1>1, <1>2, <2>1 DEF TellTypes
<1>5. CASE op = "putc"
  <2>1. output' = Append(output, p) /\ UNCHANGED <<told, area, reg, got>>
    BY <1>5 DEF Goes, Effect
  <2> QED
    BY <1>1, <2>1 DEF TellTypes
<1>6. CASE op = "load"
  <2>1. reg' = [reg EXCEPT ![p] = area] /\ UNCHANGED <<told, output, area, got>>
    BY <1>6 DEF Goes, Effect
  <2> QED
    BY <1>1, <2>1 DEF TellTypes
<1>7. CASE op = "store"
  <2>1. area' = reg[p] + 1 /\ got' = Append(got, <<p, reg[p]>>) /\ UNCHANGED <<told, output, reg>>
    BY <1>7 DEF Goes, Effect
  <2>2. reg[p] \in Nat /\ <<p, reg[p]>> \in Pair \X Nat /\ got \in Seq(Pair \X Nat) /\ Len(got) = reg[p]
    BY <1>7 DEF TellTypes
  <2>3. got' \in Seq(Pair \X Nat) /\ Len(got') = reg[p] + 1
    BY <2>1, <2>2
  <2> QED
    BY <1>1, <2>1, <2>2, <2>3 DEF TellTypes
<1> QED
  BY <1>3, <1>4, <1>5, <1>6, <1>7 DEF Goes

-----------------------------------------------------------------------------
(* devzero                                                                 *)
NextIs(p, n, op, k) == Left(p, n) # <<>> /\ Head(Left(p, n)) = op /\ Tail(Left(p, n)) = Left(p, k)

LEMMA NextOps ==
  ASSUME NEW m \in Nat
  PROVE  /\ NextIs("parent", 4 * m + 4, "load", 4 * m + 3) /\ NextIs("parent", 4 * m + 3, "store", 4 * m + 2)
         /\ NextIs("parent", 4 * m + 2, "tell", 4 * m + 1) /\ NextIs("parent", 4 * m + 1, "wait", 4 * m)
         /\ NextIs("child", 4 * m + 4, "wait", 4 * m + 3) /\ NextIs("child", 4 * m + 3, "load", 4 * m + 2)
         /\ NextIs("child", 4 * m + 2, "store", 4 * m + 1) /\ NextIs("child", 4 * m + 1, "tell", 4 * m)
<1>1. /\ Loop("parent")[1] = "load" /\ Loop("parent")[2] = "store" /\ Loop("parent")[3] = "tell"
      /\ Loop("parent")[4] = "wait" /\ Loop("child")[1] = "wait" /\ Loop("child")[2] = "load"
      /\ Loop("child")[3] = "store" /\ Loop("child")[4] = "tell"
  BY DEF Loop
<1>2. ASSUME NEW p \in Pair, NEW r \in 1 .. 4, NEW op, op = Loop(p)[5 - r]
      PROVE  NextIs(p, 4 * m + r, op, 4 * m + (r - 1))
  <2>1. 4 * m + r - 1 = 4 * m + (r - 1)
    OBVIOUS
  <2> QED
    BY <1>2, <2>1, Heads DEF NextIs
<1>3. /\ 5 - 4 = 1 /\ 5 - 3 = 2 /\ 5 - 2 = 3 /\ 5 - 1 = 4
      /\ 4 - 1 = 3 /\ 3 - 1 = 2 /\ 2 - 1 = 1 /\ 4 * m + (1 - 1) = 4 * m
      /\ 1 \in 1 .. 4 /\ 2 \in 1 .. 4 /\ 3 \in 1 .. 4 /\ 4 \in 1 .. 4
  OBVIOUS
<1>4. "parent" \in Pair /\ "child" \in Pair
  BY Pairs
<1>5. NextIs("parent", 4 * m + 4, "load", 4 * m + 3) /\ NextIs("child", 4 * m + 4, "wait", 4 * m + 3)
  BY <1>1, <1>2, <1>3, <1>4
<1>6. NextIs("parent", 4 * m + 3, "store", 4 * m + 2) /\ NextIs("child", 4 * m + 3, "load", 4 * m + 2)
  BY <1>1, <1>2, <1>3, <1>4
<1>7. NextIs("parent", 4 * m + 2, "tell", 4 * m + 1) /\ NextIs("child", 4 * m + 2, "store", 4 * m + 1)
  BY <1>1, <1>2, <1>3, <1>4
<1>8. NextIs("parent", 4 * m + 1, "wait", 4 * m) /\ NextIs("child", 4 * m + 1, "tell", 4 * m)
  BY <1>1, <1>2, <1>3, <1>4
<1> QED
  BY <1>5, <1>6, <1>7, <1>8

LEMMA Moves ==
  ASSUME TellTypes, NEW p \in Pair, Goes(p), NEW n, NEW k, NEW op, todo[p] = Left(p, n), NextIs(p, n, op, k)
  PROVE  /\ todo'[p] = Left(p, k) /\ todo'[Other(p)] = todo[Other(p)]
         /\ op = Head(todo[p]) /\ Effect(op, p)
BY Pairs DEF Goes, Done, TellTypes, NextIs

(* One update more: they still alternate and count.                        *)
LEMMA Updated ==
  ASSUME TellTypes, Alternates, NEW p \in Pair, reg[p] = area, p = (IF Even THEN "parent" ELSE "child"),
         got' = Append(got, <<p, reg[p]>>), area' = reg[p] + 1
  PROVE  Alternates' /\ (Even <=> ~Even')
<1>1. got \in Seq(Pair \X Nat) /\ Len(got) = area /\ area \in Nat
  BY DEF TellTypes
<1>2. area % 2 \in 0 .. 1 /\ (area + 1) % 2 = 1 - (area % 2)
  <2>1. \A a \in Nat : a % 2 \in 0 .. 1 /\ a \div 2 \in Int /\ a = 2 * (a \div 2) + (a % 2)
    OBVIOUS
  <2>2. PICK q \in Int, r \in 0 .. 1 : area = 2 * q + r /\ area % 2 = r
    BY <1>1, <2>1
  <2>3. \A k \in Int : (2 * k) % 2 = 0 /\ (2 * k + 1) % 2 = 1
    OBVIOUS
  <2>4. CASE r = 0
    <3>1. area + 1 = 2 * q + 1
      BY <2>2, <2>4
    <3> QED
      BY <2>2, <2>3, <2>4, <3>1
  <2>5. CASE r = 1
    <3>1. area + 1 = 2 * (q + 1) /\ q + 1 \in Int
      BY <2>2, <2>5
    <3> QED
      BY <2>2, <2>3, <2>5, <3>1
  <2> QED
    BY <2>2, <2>4, <2>5
<1>3. Even <=> ~Even'
  BY <1>2 DEF Even
<1>4. DOMAIN got' = 1 .. area + 1 /\ got'[area + 1] = <<p, area>> /\ \A i \in 1 .. area : got'[i] = got[i]
  BY <1>1
<1>5. DOMAIN got = 1 .. area
  BY <1>1
<1>6. ASSUME NEW i \in 1 .. area + 1
      PROVE  got'[i] = <<(IF (i % 2) = 1 THEN "parent" ELSE "child"), i - 1>>
  <2>1. CASE i \in 1 .. area
    BY <1>4, <1>5, <2>1 DEF Alternates
  <2>2. CASE i = area + 1
    <3>1. (i % 2) = 1 <=> Even
      BY <1>2, <2>2 DEF Even
    <3>2. i - 1 = area
      BY <1>1, <2>2
    <3> QED
      BY <1>4, <2>2, <3>1, <3>2
  <2> QED
    BY <1>1, <2>1, <2>2
<1> QED
  BY <1>3, <1>4, <1>6 DEF Alternates

LEMMA TurnsKeep ==
  ASSUME TellTypes, Alternates, NEW m \in Nat, Turn(m), NEW p \in Pair, Goes(p)
  PROVE  TellTypes' /\ Alternates' /\ \E k \in Nat : Turn(k)'
<1> USE Pairs
<1>1. ASSUME NEW k \in Nat, NEW op, op = Head(todo[p]), op # "store", Effect(op, p), op # "putc", Turn(k)'
      PROVE  TellTypes' /\ Alternates' /\ \E j \in Nat : Turn(j)'
  <2>1. got' = got
    BY <1>1 DEF Effect, Goes
  <2>2. Alternates'
    BY <2>1 DEF Alternates
  <2>3. TellTypes'
    BY <1>1, TypesKeep
  <2> QED
    BY <1>1, <2>2, <2>3
<1>2. ASSUME NEW k \in Nat, Head(todo[p]) = "store", Effect("store", p), reg[p] = area,
             p = (IF Even THEN "parent" ELSE "child"), (Even <=> ~Even') => Turn(k)'
      PROVE  TellTypes' /\ Alternates' /\ \E j \in Nat : Turn(j)'
  <2>1. got' = Append(got, <<p, reg[p]>>) /\ area' = reg[p] + 1
    BY <1>2 DEF Effect
  <2>2. Alternates' /\ (Even <=> ~Even')
    BY <1>2, <2>1, Updated
  <2>3. TellTypes'
    BY <1>2, TypesKeep
  <2> QED
    BY <1>2, <2>2, <2>3
<1>3. told \in [Pair -> Int]
  BY DEF TellTypes
<1>4. CASE Both(4 * m, 4 * m) /\ Told(0, 0) /\ Even
  <2>1. m # 0
    <3>1. Left("parent", 0) = <<>> /\ Left("child", 0) = <<>>
      BY LeftIs
    <3>2. m = 0 => 4 * m = 0
      OBVIOUS
    <3> QED
      BY <1>4, <3>1, <3>2 DEF Goes, Both
  <2> DEFINE k == m - 1
  <2>2. k \in Nat /\ 4 * m = 4 * k + 4
    BY <2>1
  <2> HIDE DEF k
  <2>3. Both(4 * k + 4, 4 * k + 4)
    BY <1>4, <2>2
  <2>4. CASE p = "child"
    <3>1. Effect("wait", "child")
      BY <2>2, <2>3, <2>4, NextOps, Moves DEF Both
    <3> QED
      BY <1>4, <3>1 DEF Effect, Told
  <2>5. CASE p = "parent"
    <3>1. /\ todo'["parent"] = Left("parent", 4 * k + 3) /\ todo'["child"] = todo["child"]
          /\ Head(todo[p]) = "load" /\ Effect("load", "parent")
      BY <2>2, <2>3, <2>5, NextOps, Moves DEF Both
    <3>2. UNCHANGED <<told, area>> /\ reg'["parent"] = area'
      BY <3>1 DEF Effect, TellTypes
    <3>3. Both(4 * k + 3, 4 * k + 4)'
      BY <2>3, <3>1 DEF Both, Left, Loop
    <3>4. Told(0, 0)' /\ Even'
      BY <1>4, <3>2 DEF Told, Even
    <3>5. Turn(k)'
      BY <3>2, <3>3, <3>4 DEF Turn
    <3> QED
      BY <1>1, <2>2, <2>5, <3>1, <3>5
  <2> QED
    BY <2>4, <2>5
<1>5. CASE Both(4 * m + 3, 4 * m + 4) /\ Told(0, 0) /\ Even /\ reg["parent"] = area
  <2>1. CASE p = "child"
    <3>1. Effect("wait", "child")
      BY <1>5, <2>1, NextOps, Moves DEF Both
    <3> QED
      BY <1>5, <3>1 DEF Effect, Told
  <2>2. CASE p = "parent"
    <3>1. /\ todo'["parent"] = Left("parent", 4 * m + 2) /\ todo'["child"] = todo["child"]
          /\ Head(todo[p]) = "store" /\ Effect("store", "parent")
      BY <1>5, <2>2, NextOps, Moves, SMTT(20) DEF Both
    <3>2. Both(4 * m + 2, 4 * m + 4)'
      BY <1>5, <3>1 DEF Both, Left, Loop
    <3>3. Told(0, 0)'
      BY <1>5, <3>1 DEF Told, Effect
    <3>4. (Even <=> ~Even') => Turn(m)'
      BY <1>5, <3>2, <3>3 DEF Turn
    <3> QED
      BY <1>2, <1>5, <2>2, <3>1, <3>4
  <2> QED
    BY <2>1, <2>2
<1>6. CASE Both(4 * m + 2, 4 * m + 4) /\ Told(0, 0) /\ ~Even
  <2>1. CASE p = "child"
    <3>1. Effect("wait", "child")
      BY <1>6, <2>1, NextOps, Moves DEF Both
    <3> QED
      BY <1>6, <3>1 DEF Effect, Told
  <2>2. CASE p = "parent"
    <3>1. /\ todo'["parent"] = Left("parent", 4 * m + 1) /\ todo'["child"] = todo["child"]
          /\ Head(todo[p]) = "tell" /\ Effect("tell", "parent")
      BY <1>6, <2>2, NextOps, Moves DEF Both
    <3>2. Both(4 * m + 1, 4 * m + 4)'
      BY <1>6, <3>1 DEF Both, Left, Loop
    <3>3. told' = [told EXCEPT !["child"] = @ + 1] /\ UNCHANGED area
      BY <3>1 DEF Effect
    <3>4. Told(0, 1)' /\ ~Even'
      BY <1>3, <1>6, <3>3 DEF Told, Even
    <3>5. Turn(m)'
      BY <3>2, <3>3, <3>4 DEF Turn
    <3> QED
      BY <1>1, <2>2, <3>1, <3>5
  <2> QED
    BY <2>1, <2>2
<1>7. CASE Both(4 * m + 1, 4 * m + 4) /\ Told(0, 1) /\ ~Even
  <2>1. CASE p = "parent"
    <3>1. Effect("wait", "parent")
      BY <1>7, <2>1, NextOps, Moves DEF Both
    <3> QED
      BY <1>7, <3>1 DEF Effect, Told
  <2>2. CASE p = "child"
    <3>1. /\ todo'["child"] = Left("child", 4 * m + 3) /\ todo'["parent"] = todo["parent"]
          /\ Head(todo[p]) = "wait" /\ Effect("wait", "child")
      BY <1>7, <2>2, NextOps, Moves DEF Both
    <3>2. Both(4 * m + 1, 4 * m + 3)'
      BY <1>7, <3>1 DEF Both, Left, Loop
    <3>3. told' = [told EXCEPT !["child"] = @ - 1] /\ UNCHANGED area
      BY <3>1 DEF Effect
    <3>4. Told(0, 0)' /\ ~Even'
      BY <1>3, <1>7, <3>3 DEF Told, Even
    <3>5. Turn(m)'
      BY <3>2, <3>3, <3>4 DEF Turn
    <3> QED
      BY <1>1, <2>2, <3>1, <3>5
  <2> QED
    BY <2>1, <2>2
<1>8. CASE Both(4 * m + 1, 4 * m + 3) /\ Told(0, 0) /\ ~Even
  <2>1. CASE p = "parent"
    <3>1. Effect("wait", "parent")
      BY <1>8, <2>1, NextOps, Moves DEF Both
    <3> QED
      BY <1>8, <3>1 DEF Effect, Told
  <2>2. CASE p = "child"
    <3>1. /\ todo'["child"] = Left("child", 4 * m + 2) /\ todo'["parent"] = todo["parent"]
          /\ Head(todo[p]) = "load" /\ Effect("load", "child")
      BY <1>8, <2>2, NextOps, Moves DEF Both
    <3>2. Both(4 * m + 1, 4 * m + 2)'
      BY <1>8, <3>1 DEF Both, Left, Loop
    <3>3. UNCHANGED told /\ UNCHANGED area /\ reg'["child"] = area'
      BY <3>1 DEF Effect, TellTypes
    <3>4. Told(0, 0)' /\ ~Even'
      BY <1>3, <1>8, <3>3 DEF Told, Even
    <3>5. Turn(m)'
      BY <3>2, <3>3, <3>4 DEF Turn
    <3> QED
      BY <1>1, <2>2, <3>1, <3>5
  <2> QED
    BY <2>1, <2>2
<1>9. CASE Both(4 * m + 1, 4 * m + 2) /\ Told(0, 0) /\ ~Even /\ reg["child"] = area
  <2>1. CASE p = "parent"
    <3>1. Effect("wait", "parent")
      BY <1>9, <2>1, NextOps, Moves DEF Both
    <3> QED
      BY <1>9, <3>1 DEF Effect, Told
  <2>2. CASE p = "child"
    <3>1. /\ todo'["child"] = Left("child", 4 * m + 1) /\ todo'["parent"] = todo["parent"]
          /\ Head(todo[p]) = "store" /\ Effect("store", "child")
      BY <1>9, <2>2, NextOps, Moves DEF Both
    <3>2. Both(4 * m + 1, 4 * m + 1)'
      BY <1>9, <3>1 DEF Both, Left, Loop
    <3>3. Told(0, 0)'
      BY <1>9, <3>1 DEF Told, Effect
    <3>4. (Even <=> ~Even') => Turn(m)'
      BY <1>9, <3>2, <3>3 DEF Turn
    <3> QED
      BY <1>2, <1>9, <2>2, <3>1, <3>4
  <2> QED
    BY <2>1, <2>2
<1>10. CASE Both(4 * m + 1, 4 * m + 1) /\ Told(0, 0) /\ Even
  <2>1. CASE p = "parent"
    <3>1. Effect("wait", "parent")
      BY <1>10, <2>1, NextOps, Moves DEF Both
    <3> QED
      BY <1>10, <3>1 DEF Effect, Told
  <2>2. CASE p = "child"
    <3>1. /\ todo'["child"] = Left("child", 4 * m) /\ todo'["parent"] = todo["parent"]
          /\ Head(todo[p]) = "tell" /\ Effect("tell", "child")
      BY <1>10, <2>2, NextOps, Moves DEF Both
    <3>2. Both(4 * m + 1, 4 * m)'
      BY <1>10, <3>1 DEF Both, Left, Loop
    <3>3. told' = [told EXCEPT !["parent"] = @ + 1] /\ UNCHANGED area
      BY <3>1 DEF Effect
    <3>4. Told(1, 0)' /\ Even'
      BY <1>3, <1>10, <3>3 DEF Told, Even
    <3>5. Turn(m)'
      BY <3>2, <3>3, <3>4 DEF Turn
    <3> QED
      BY <1>1, <2>2, <3>1, <3>5
  <2> QED
    BY <2>1, <2>2
<1>11. CASE Both(4 * m + 1, 4 * m) /\ Told(1, 0) /\ Even
  <2>1. CASE p = "child"
    <3>1. m = 0 => Left("child", 4 * m) = <<>>
      <4>1. m = 0 => 4 * m = 0
        OBVIOUS
      <4> QED
        BY <4>1, LeftIs
    <3>2. m # 0
      BY <1>11, <2>1, <3>1 DEF Goes, Both
    <3>3. m - 1 \in Nat /\ 4 * m = 4 * (m - 1) + 4
      BY <3>2
    <3>4. NextIs("child", 4 * m, "wait", 4 * (m - 1) + 3)
      BY <3>3, NextOps
    <3>5. Effect("wait", "child")
      BY <1>11, <2>1, <3>4, Moves DEF Both
    <3> QED
      BY <1>11, <3>5 DEF Effect, Told
  <2>2. CASE p = "parent"
    <3>1. /\ todo'["parent"] = Left("parent", 4 * m) /\ todo'["child"] = todo["child"]
          /\ Head(todo[p]) = "wait" /\ Effect("wait", "parent")
      BY <1>11, <2>2, NextOps, Moves DEF Both
    <3>2. Both(4 * m, 4 * m)'
      BY <1>11, <3>1 DEF Both, Left, Loop
    <3>3. told' = [told EXCEPT !["parent"] = @ - 1] /\ UNCHANGED area
      BY <3>1 DEF Effect
    <3>4. Told(0, 0)' /\ Even'
      BY <1>3, <1>11, <3>3 DEF Told, Even
    <3>5. Turn(m)'
      BY <3>2, <3>3, <3>4 DEF Turn
    <3> QED
      BY <1>1, <2>2, <3>1, <3>5
  <2> QED
    BY <2>1, <2>2
<1> QED
  BY <1>4, <1>5, <1>6, <1>7, <1>8, <1>9, <1>10, <1>11 DEF Turn

-----------------------------------------------------------------------------
(* tellwait2                                                               *)
LEMMA Lists ==
  ASSUME NEW w, NEW x, NEW y, NEW z
  PROVE  /\ <<w>> # <<>> /\ Head(<<w>>) = w /\ Tail(<<w>>) = <<>>
         /\ <<w, x>> # <<>> /\ Head(<<w, x>>) = w /\ Tail(<<w, x>>) = <<x>>
         /\ <<w, x, y>> # <<>> /\ Head(<<w, x, y>>) = w /\ Tail(<<w, x, y>>) = <<x, y>>
         /\ <<w, x, y, z>> # <<>> /\ Head(<<w, x, y, z>>) = w /\ Tail(<<w, x, y, z>>) = <<x, y, z>>
<1>1. <<w>> # <<>> /\ Head(<<w>>) = w /\ Tail(<<w>>) = <<>>
  OBVIOUS
<1>2. <<w, x>> # <<>> /\ Head(<<w, x>>) = w /\ Tail(<<w, x>>) = <<x>>
  OBVIOUS
<1>3. <<w, x, y>> # <<>> /\ Head(<<w, x, y>>) = w /\ Tail(<<w, x, y>>) = <<x, y>>
  OBVIOUS
<1>4. <<w, x, y, z>> # <<>> /\ Head(<<w, x, y, z>>) = w /\ Tail(<<w, x, y, z>>) = <<x, y, z>>
  OBVIOUS
<1> QED
  BY <1>1, <1>2, <1>3, <1>4

LEMMA SpeaksKeep ==
  ASSUME TellTypes, Speaks, NEW p \in Pair, Goes(p)
  PROVE  Speaks' /\ TellTypes' /\ UNCHANGED got
<1> USE Pairs
<1>1. told \in [Pair -> Int] /\ DOMAIN todo = Pair /\ output \in Seq(Pair)
  BY DEF TellTypes
<1>2. todo'[p] = Tail(todo[p]) /\ todo'[Other(p)] = todo[Other(p)] /\ Effect(Head(todo[p]), p)
  BY <1>1 DEF Goes, Done, TellTypes
<1>3. Parents => Ordered
  BY DEF Parents, Ordered
<1>4. output' = Append(output, p) =>
        /\ p = "parent" /\ Parents => Parents'
        /\ p = "child" /\ Ordered => Ordered'
  <2> SUFFICES ASSUME output' = Append(output, p)
               PROVE  (p = "parent" /\ Parents => Parents') /\ (p = "child" /\ Ordered => Ordered')
    OBVIOUS
  <2>1. /\ Len(output) \in Nat /\ DOMAIN output = 1 .. Len(output) /\ DOMAIN output' = 1 .. Len(output) + 1
        /\ output'[Len(output) + 1] = p /\ \A i \in 1 .. Len(output) : output'[i] = output[i]
    BY <1>1
  <2>2. \A i \in DOMAIN output' : i \in DOMAIN output \/ i = Len(output) + 1
    BY <2>1
  <2>3. p = "parent" /\ Parents => Parents'
    BY <2>1, <2>2 DEF Parents
  <2>4. ASSUME p = "child", Ordered, NEW i \in DOMAIN output', NEW j \in DOMAIN output',
               output'[i] = "parent", output'[j] = "child"
        PROVE  i < j
    <3>1. i \in 1 .. Len(output)
      BY <2>1, <2>2, <2>4
    <3>2. CASE j \in 1 .. Len(output)
      BY <2>1, <2>4, <3>1, <3>2 DEF Ordered
    <3>3. CASE j = Len(output) + 1
      BY <2>1, <3>1, <3>3
    <3> QED
      BY <2>1, <2>2, <3>2, <3>3
  <2> QED
    BY <2>3, <2>4 DEF Ordered
<1>5. UNCHANGED output => (Parents => Parents') /\ (Ordered => Ordered')
  BY DEF Parents, Ordered
<1>6. CASE /\ todo["parent"] \in {<<"putc", "putc", "tell">>, <<"putc", "tell">>, <<"tell">>}
           /\ todo["child"] = <<"wait", "putc", "putc">> /\ Told(0, 0) /\ Parents
  <2>1. p = "parent"
    <3>1. CASE p = "child"
      <4>1. Effect("wait", "child")
        BY <1>6, <3>1, Lists DEF Goes
      <4> QED
        BY <1>6, <4>1 DEF Effect, Told
    <3> QED
      BY <3>1
  <2>2. CASE todo["parent"] = <<"tell">>
    <3>1. Effect("tell", "parent") /\ todo'["parent"] = <<>> /\ todo'["child"] = todo["child"]
      BY <1>2, <2>1, <2>2, Lists DEF Goes
    <3>2. told' = [told EXCEPT !["child"] = @ + 1] /\ UNCHANGED <<output, got>>
      BY <3>1 DEF Effect
    <3>3. Told(0, 1)' /\ Parents'
      BY <1>1, <1>5, <1>6, <3>2 DEF Told
    <3>4. Speaks' /\ Head(todo[p]) = "tell"
      BY <1>6, <2>1, <2>2, <3>1, <3>3, Lists DEF Speaks
    <3> QED
      BY <3>2, <3>4, TypesKeep
  <2>3. CASE todo["parent"] # <<"tell">>
    <3>1. Effect("putc", "parent") /\ todo'["parent"] \in {<<"putc", "tell">>, <<"tell">>} /\ todo'["child"] = todo["child"]
          /\ Head(todo["parent"]) = "putc"
      <4>1. todo["parent"] = <<"putc", "putc", "tell">> \/ todo["parent"] = <<"putc", "tell">>
        BY <1>6, <2>3
      <4>2. Head(todo["parent"]) = "putc" /\ Tail(todo["parent"]) \in {<<"putc", "tell">>, <<"tell">>}
        <5>1. Head(<<"putc", "putc", "tell">>) = "putc" /\ Tail(<<"putc", "putc", "tell">>) = <<"putc", "tell">>
          BY Lists
        <5>2. Head(<<"putc", "tell">>) = "putc" /\ Tail(<<"putc", "tell">>) = <<"tell">>
          BY Lists
        <5> QED
          BY <4>1, <5>1, <5>2, Zenon
      <4> QED
        BY <1>2, <2>1, <4>2
    <3>2. output' = Append(output, p) /\ UNCHANGED <<told, got>>
      BY <2>1, <3>1 DEF Effect
    <3>3. Told(0, 0)' /\ Parents'
      BY <1>4, <1>6, <2>1, <3>2 DEF Told
    <3>4. Speaks'
      BY <1>6, <3>1, <3>3 DEF Speaks
    <3> QED
      BY <2>1, <3>1, <3>2, <3>4, TypesKeep
  <2> QED
    BY <2>2, <2>3
<1>7. CASE todo["parent"] = <<>> /\ todo["child"] = <<"wait", "putc", "putc">> /\ Told(0, 1) /\ Parents
  <2>1. p = "child"
    BY <1>7 DEF Goes
  <2>2. Effect("wait", "child") /\ todo'["child"] = <<"putc", "putc">> /\ todo'["parent"] = todo["parent"]
        /\ Head(todo["child"]) = "wait"
    <3>1. Head(todo["child"]) = "wait" /\ Tail(todo["child"]) = <<"putc", "putc">>
      BY <1>7, Lists
    <3> QED
      BY <1>2, <2>1, <3>1
  <2>3. told' = [told EXCEPT !["child"] = @ - 1] /\ UNCHANGED <<output, got>>
    BY <2>2 DEF Effect
  <2>4. Told(0, 0)' /\ Ordered'
    BY <1>1, <1>3, <1>5, <1>7, <2>3 DEF Told
  <2>5. Speaks'
    BY <1>7, <2>2, <2>4 DEF Speaks
  <2> QED
    BY <2>1, <2>2, <2>3, <2>5, TypesKeep
<1>8. CASE /\ todo["parent"] = <<>> /\ todo["child"] \in {<<"putc", "putc">>, <<"putc">>, <<>>}
           /\ Told(0, 0) /\ Ordered
  <2>1. p = "child" /\ todo["child"] # <<>>
    BY <1>8 DEF Goes
  <2>2. Effect("putc", "child") /\ todo'["child"] \in {<<"putc">>, <<>>} /\ todo'["parent"] = todo["parent"]
        /\ Head(todo["child"]) = "putc"
    <3>1. todo["child"] = <<"putc", "putc">> \/ todo["child"] = <<"putc">>
      BY <1>8, <2>1
    <3>2. Head(todo["child"]) = "putc" /\ Tail(todo["child"]) \in {<<"putc">>, <<>>}
      <4>1. Head(<<"putc", "putc">>) = "putc" /\ Tail(<<"putc", "putc">>) = <<"putc">>
        BY Lists
      <4>2. Head(<<"putc">>) = "putc" /\ Tail(<<"putc">>) = <<>>
        BY Lists
      <4> QED
        BY <3>1, <4>1, <4>2, Zenon
    <3> QED
      BY <1>2, <2>1, <3>2
  <2>3. output' = Append(output, p) /\ UNCHANGED <<told, got>>
    BY <2>1, <2>2 DEF Effect
  <2>4. Told(0, 0)' /\ Ordered'
    BY <1>4, <1>8, <2>1, <2>3 DEF Told
  <2>5. Speaks'
    BY <1>8, <2>2, <2>4 DEF Speaks
  <2> QED
    BY <2>1, <2>2, <2>3, <2>5, TypesKeep
<1> QED
  BY <1>6, <1>7, <1>8 DEF Speaks

-----------------------------------------------------------------------------
(* deadlock                                                                *)
LEMMA StageIs ==
  ASSUME NEW p \in Pair
  PROVE  /\ Stages[p][1] # <<>> /\ Head(Stages[p][1]) = FirstLock(p) /\ Tail(Stages[p][1]) = Stages[p][2]
         /\ Stages[p][2] # <<>> /\ Head(Stages[p][2]) = "tell" /\ Tail(Stages[p][2]) = Stages[p][3]
         /\ Stages[p][3] # <<>> /\ Head(Stages[p][3]) = "wait" /\ Tail(Stages[p][3]) = Stages[p][4]
         /\ Stages[p][4] # <<>> /\ Head(Stages[p][4]) = FinalLock(p) /\ Tail(Stages[p][4]) = Stages[p][5]
         /\ Stages[p][5] = <<>>
<1> DEFINE f == FirstLock(p)  l == FinalLock(p)
<1>1. /\ Stages[p][1] = <<f, "tell", "wait", l>> /\ Stages[p][2] = <<"tell", "wait", l>>
      /\ Stages[p][3] = <<"wait", l>> /\ Stages[p][4] = <<l>> /\ Stages[p][5] = <<>>
  BY DEF Stages
<1> HIDE DEF f, l
<1>2. /\ <<f, "tell", "wait", l>> # <<>> /\ Head(<<f, "tell", "wait", l>>) = f
      /\ Tail(<<f, "tell", "wait", l>>) = <<"tell", "wait", l>>
  BY Lists
<1>3. <<"tell", "wait", l>> # <<>> /\ Head(<<"tell", "wait", l>>) = "tell" /\ Tail(<<"tell", "wait", l>>) = <<"wait", l>>
  BY Lists
<1>4. <<"wait", l>> # <<>> /\ Head(<<"wait", l>>) = "wait" /\ Tail(<<"wait", l>>) = <<l>>
  BY Lists
<1>5. <<l>> # <<>> /\ Head(<<l>>) = l /\ Tail(<<l>>) = <<>>
  BY Lists
<1> QED
  BY <1>1, <1>2, <1>3, <1>4, <1>5, Zenon DEF f, l

(* A process goes on to another stage.                                     *)
Advances(stage, p, n) ==
  /\ todo' = [todo EXCEPT ![p] = Stages[p][n]] /\ told' \in [Pair -> Int]
  /\ told'[p] = Pipe(stage[Other(p)], n) /\ told'[Other(p)] = Pipe(n, stage[Other(p)])
  /\ <<p, LastByte(p)>> \in locks' => n = 5
  /\ <<Other(p), LastByte(Other(p))>> \in locks' => <<Other(p), LastByte(Other(p))>> \in locks

LEMMA Advance ==
  ASSUME TellTypes, NEW stage \in [Pair -> 1 .. 5], At(stage), NEW p \in Pair, NEW n \in 1 .. 5,
         Advances(stage, p, n)
  PROVE  Locking'
<1>1. PICK next \in [Pair -> 1 .. 5] :
        /\ next[p] = n /\ next[Other(p)] = stage[Other(p)]
        /\ Other(p) \in Pair /\ Other(Other(p)) = p /\ \A o \in Pair : o = p \/ o = Other(p)
  <2> DEFINE next == [stage EXCEPT ![p] = n]
  <2>1. next \in [Pair -> 1 .. 5] /\ next[p] = n /\ next[Other(p)] = stage[Other(p)]
    BY Pairs
  <2> QED
    BY <2>1, Pairs
<1>2. todo'[p] = Stages[p][n] /\ todo'[Other(p)] = todo[Other(p)]
  BY Pairs DEF TellTypes, Advances
<1>3. todo'[p] = Stages[p][next[p]] /\ todo'[Other(p)] = Stages[Other(p)][next[Other(p)]]
  BY <1>1, <1>2 DEF At
<1>4. <<Other(p), LastByte(Other(p))>> \in locks' => next[Other(p)] = 5
  BY <1>1 DEF At, Advances
<1>6. /\ told'[p] = Pipe(next[Other(p)], next[p]) /\ told'[Other(p)] = Pipe(next[p], next[Other(p)])
      /\ <<p, LastByte(p)>> \in locks' => next[p] = 5
  BY <1>1 DEF Advances
<1>5. At(next)'
  <2> SUFFICES ASSUME NEW o \in Pair
               PROVE  /\ todo'[o] = Stages[o][next[o]] /\ told'[o] = Pipe(next[Other(o)], next[o])
                      /\ <<o, LastByte(o)>> \in locks' => next[o] = 5
    BY DEF At
  <2>1. CASE o = p
    BY <1>1, <1>3, <1>6, <2>1
  <2>2. CASE o = Other(p)
    BY <1>1, <1>3, <1>4, <1>6, <2>2
  <2> QED
    BY <1>1, <2>1, <2>2
<1> QED
  BY <1>1, <1>5 DEF Locking

LEMMA StagesGo ==
  ASSUME TellTypes, Locking, NEW p \in Pair, Goes(p)
  PROVE  Locking' /\ TellTypes' /\ UNCHANGED <<got, output>>
<1>1. PICK stage \in [Pair -> 1 .. 5] : At(stage)
  BY DEF Locking
<1>2. /\ todo' = [todo EXCEPT ![p] = Tail(@)] /\ Effect(Head(todo[p]), p) /\ UNCHANGED locks
      /\ todo[p] # <<>> /\ Head(todo[p]) \in {"tell", "wait", "putc", "load", "store"}
  BY DEF Goes, Done
<1>3. /\ todo[p] = Stages[p][stage[p]] /\ told \in [Pair -> Int] /\ Other(p) \in Pair /\ Other(p) # p
      /\ Other(Other(p)) = p
  BY <1>1, Pairs DEF At, TellTypes
<1>4. /\ told[p] = Pipe(stage[Other(p)], stage[p])
      /\ told[Other(p)] = Pipe(stage[p], stage[Other(p)])
      /\ <<p, LastByte(p)>> \in locks => stage[p] = 5
  BY <1>1, <1>3 DEF At
<1>5. stage[p] \in 1 .. 5 /\ stage[Other(p)] \in 1 .. 5
  BY <1>3
<1>6. CASE stage[p] = 2
  <2>1. Head(todo[p]) = "tell" /\ Tail(todo[p]) = Stages[p][3]
    BY <1>3, <1>6, StageIs
  <2>2. told' = [told EXCEPT ![Other(p)] = @ + 1] /\ UNCHANGED <<got, output>>
    BY <1>2, <2>1 DEF Effect
  <2>3. told' \in [Pair -> Int] /\ told'[p] = told[p] /\ told'[Other(p)] = told[Other(p)] + 1
    BY <1>3, <2>2
  <2>4. todo' = [todo EXCEPT ![p] = Stages[p][3]]
    BY <1>2, <2>1
  <2>5. <<p, LastByte(p)>> \notin locks'
    BY <1>2, <1>4, <1>6
  <2>6. /\ told'[p] = Pipe(stage[Other(p)], 3)
        /\ told'[Other(p)] = Pipe(3, stage[Other(p)])
    BY <1>4, <1>5, <1>6, <2>3 DEF Pipe
  <2>7. Locking'
    <3>1. Advances(stage, p, 3)
      BY <1>2, <2>3, <2>4, <2>5, <2>6 DEF Advances
    <3> QED
      BY <1>1, <3>1, Advance
  <2> QED
    BY <2>1, <2>2, <2>7, TypesKeep
<1>7. CASE stage[p] = 3
  <2>1. Head(todo[p]) = "wait" /\ Tail(todo[p]) = Stages[p][4]
    BY <1>3, <1>7, StageIs
  <2>2. told' = [told EXCEPT ![p] = @ - 1] /\ UNCHANGED <<got, output>>
    BY <1>2, <2>1 DEF Effect
  <2>3. told' \in [Pair -> Int] /\ told'[p] = told[p] - 1 /\ told'[Other(p)] = told[Other(p)]
    BY <1>3, <2>2
  <2>4. todo' = [todo EXCEPT ![p] = Stages[p][4]]
    BY <1>2, <2>1
  <2>5. <<p, LastByte(p)>> \notin locks'
    BY <1>2, <1>4, <1>7
  <2>6. /\ told'[p] = Pipe(stage[Other(p)], 4)
        /\ told'[Other(p)] = Pipe(4, stage[Other(p)])
    BY <1>4, <1>5, <1>7, <2>3 DEF Pipe
  <2>7. Locking'
    <3>1. Advances(stage, p, 4)
      BY <1>2, <2>3, <2>4, <2>5, <2>6 DEF Advances
    <3> QED
      BY <1>1, <3>1, Advance
  <2> QED
    BY <2>1, <2>2, <2>7, TypesKeep
<1>8. stage[p] # 1 /\ stage[p] # 4 /\ stage[p] # 5
  BY <1>2, <1>3, StageIs DEF FirstLock, FinalLock
<1> QED
  BY <1>5, <1>6, <1>7, <1>8

LEMMA LocksGo ==
  ASSUME TellTypes, Locking, NEW p \in Pair, lockabyte(p) \/ lockabyte_fails(p) \/ exit(p)
  PROVE  Locking' /\ TellTypes'
<1>1. PICK stage \in [Pair -> 1 .. 5] : At(stage)
  BY DEF Locking
<1>3. /\ todo[p] = Stages[p][stage[p]] /\ told \in [Pair -> Int] /\ Other(p) \in Pair /\ Other(p) # p
      /\ todo[Other(p)] = Stages[Other(p)][stage[Other(p)]] /\ Other(Other(p)) = p
  BY <1>1, Pairs DEF At, TellTypes
<1>4. /\ told[p] = Pipe(stage[Other(p)], stage[p])
      /\ told[Other(p)] = Pipe(stage[p], stage[Other(p)])
      /\ \A o \in Pair : <<o, LastByte(o)>> \in locks => stage[o] = 5
  BY <1>1, <1>3 DEF At
<1>5. stage[p] \in 1 .. 5 /\ stage[Other(p)] \in 1 .. 5
  BY <1>3
<1>6. UNCHANGED <<told, output, area, reg, got>>
  BY DEF lockabyte, lockabyte_fails, exit
<1>7. (lockabyte(p) \/ lockabyte_fails(p) \/ exit(p)) /\ todo' = [o \in Pair |-> todo'[o]] => TellTypes'
  BY <1>6 DEF TellTypes
<1>8. ASSUME NEW b \in {0, 1}, Wants(p, b)
      PROVE  (stage[p] = 1 /\ b # LastByte(p)) \/ (stage[p] = 4 /\ b = LastByte(p))
  <2>1. stage[p] # 2 /\ stage[p] # 3 /\ stage[p] # 5
    BY <1>3, <1>8, StageIs DEF Wants
  <2>2. CASE stage[p] = 1
    <3>1. Byte(FirstLock(p)) = b
      BY <1>3, <1>8, <2>2, StageIs DEF Wants
    <3>2. p = "parent" \/ p = "child"
      BY Pairs
    <3>3. Byte(FirstLock("parent")) = 1 /\ Byte(FirstLock("child")) = 0
          /\ LastByte("parent") = 0 /\ LastByte("child") = 1
      BY DEF Byte, FirstLock, LastByte
    <3>4. CASE p = "parent"
      <4>1. b = 1 /\ LastByte(p) = 0
        BY <3>1, <3>3, <3>4
      <4> QED
        BY <2>2, <4>1
    <3>5. CASE p = "child"
      <4>1. b = 0 /\ LastByte(p) = 1
        BY <3>1, <3>3, <3>5
      <4> QED
        BY <2>2, <4>1
    <3> QED
      BY <3>2, <3>4, <3>5
  <2>3. CASE stage[p] = 4
    <3>1. Byte(FinalLock(p)) = b
      BY <1>3, <1>8, <2>3, StageIs DEF Wants
    <3> QED
      BY <2>3, <3>1, Pairs DEF Byte, FinalLock, LastByte
  <2> QED
    BY <1>5, <2>1, <2>2, <2>3
<1>9. CASE lockabyte(p)
  <2>1. PICK b \in {0, 1} : Wants(p, b) /\ Done(p) /\ locks' = locks \cup {<<p, b>>}
    BY <1>9 DEF lockabyte
  <2>2. todo' = [todo EXCEPT ![p] = Tail(todo[p])] /\ UNCHANGED told
    BY <1>6, <2>1 DEF Done
  <2>3. <<Other(p), LastByte(Other(p))>> \in locks' => <<Other(p), LastByte(Other(p))>> \in locks
    BY <1>3, <2>1
  <2>6. TellTypes'
    BY <1>7, <1>9, <2>2 DEF TellTypes
  <2>4. CASE stage[p] = 1 /\ b # LastByte(p)
    <3>1. Tail(todo[p]) = Stages[p][2]
      BY <1>3, <2>4, StageIs
    <3>2. <<p, LastByte(p)>> \notin locks'
      BY <1>4, <2>1, <2>4
    <3>3. /\ told[p] = Pipe(stage[Other(p)], 2)
          /\ told[Other(p)] = Pipe(2, stage[Other(p)])
      BY <1>4, <1>5, <2>4 DEF Pipe
    <3>4. Advances(stage, p, 2)
      BY <1>3, <2>2, <2>3, <3>1, <3>2, <3>3 DEF Advances
    <3> QED
      BY <1>1, <2>6, <3>4, Advance
  <2>5. CASE stage[p] = 4 /\ b = LastByte(p)
    <3>1. Tail(todo[p]) = Stages[p][5]
      BY <1>3, <2>5, StageIs
    <3>3. /\ told[p] = Pipe(stage[Other(p)], 5)
          /\ told[Other(p)] = Pipe(5, stage[Other(p)])
      BY <1>4, <1>5, <2>5 DEF Pipe
    <3>4. Advances(stage, p, 5)
      BY <1>3, <2>2, <2>3, <3>1, <3>3 DEF Advances
    <3> QED
      BY <1>1, <2>6, <3>4, Advance
  <2> QED
    BY <1>8, <2>1, <2>4, <2>5, <2>6
<1>10. CASE lockabyte_fails(p)
  <2>1. PICK b \in {0, 1} : /\ Wants(p, b) /\ <<Other(p), b>> \in locks /\ Wants(Other(p), 1 - b)
                            /\ todo' = [todo EXCEPT ![p] = <<>>] /\ locks' = {l \in locks : l[1] # p}
    BY <1>10 DEF lockabyte_fails, Taken
  <2>2. stage[Other(p)] # 5
    BY <1>3, <2>1, StageIs DEF Wants
  <2>3. b # LastByte(Other(p))
    BY <1>3, <1>4, <2>1, <2>2
  <2>4. b = LastByte(p)
    BY <2>3, Pairs DEF LastByte
  <2>5. stage[p] = 4
    BY <1>8, <2>1, <2>4
  <2>6. /\ told[p] = Pipe(stage[Other(p)], 5)
        /\ told[Other(p)] = Pipe(5, stage[Other(p)])
    BY <1>4, <1>5, <2>5 DEF Pipe
  <2>7. todo' = [todo EXCEPT ![p] = Stages[p][5]]
    BY <2>1, StageIs
  <2>8. TellTypes'
    BY <1>7, <1>10, <2>1 DEF TellTypes
  <2>9. Advances(stage, p, 5)
    <3>1. UNCHANGED told /\ locks' \subseteq locks
      BY <1>6, <2>1
    <3> QED
      BY <1>3, <2>6, <2>7, <3>1 DEF Advances
  <2> QED
    BY <1>1, <2>8, <2>9, Advance
<1>11. CASE exit(p)
  <2>1. UNCHANGED <<todo, told>> /\ locks' \subseteq locks
    BY <1>11 DEF exit
  <2>2. At(stage)'
    BY <1>1, <2>1 DEF At
  <2>3. TellTypes'
    BY <1>7, <1>11, <2>1 DEF TellTypes
  <2> QED
    BY <2>2, <2>3 DEF Locking
<1> QED
  BY <1>9, <1>10, <1>11

-----------------------------------------------------------------------------
(* Outside deadlock no process asks for a lock, and none has one.          *)
LEMMA NoLocks ==
  ASSUME TellInv, program # "deadlock", NEW p \in Pair
  PROVE  ~(lockabyte(p) \/ lockabyte_fails(p) \/ exit(p))
<1> DEFINE Ops == {"wait", "load", "store", "tell", "putc"}
<1>1. todo[p] # <<>> => Head(todo[p]) \in Ops
  <2>1. CASE program = "none"
    BY <2>1, Pairs DEF TellInv
  <2>2. CASE program = "tellwait2"
    <3>1. todo[p] \in {<<"putc", "putc", "tell">>, <<"putc", "tell">>, <<"tell">>, <<>>,
                       <<"wait", "putc", "putc">>, <<"putc", "putc">>, <<"putc">>}
      BY <2>2, Pairs DEF TellInv, Speaks
    <3>2. /\ Head(<<"putc", "putc", "tell">>) = "putc" /\ Head(<<"putc", "tell">>) = "putc"
          /\ Head(<<"tell">>) = "tell" /\ Head(<<"wait", "putc", "putc">>) = "wait"
          /\ Head(<<"putc", "putc">>) = "putc" /\ Head(<<"putc">>) = "putc"
      BY Lists
    <3> QED
      BY <3>1, <3>2
  <2>3. CASE program = "devzero"
    <3>1. \E n \in Nat : todo[p] = Left(p, n)
      <4>1. PICK m \in Nat : Turn(m)
        BY <2>3 DEF TellInv
      <4>2. 4 * m \in Nat /\ 4 * m + 1 \in Nat /\ 4 * m + 2 \in Nat /\ 4 * m + 3 \in Nat /\ 4 * m + 4 \in Nat
        OBVIOUS
      <4> QED
        BY <4>1, <4>2, Pairs DEF Turn, Both
    <3>2. PICK n \in Nat : todo[p] = Left(p, n)
      BY <3>1
    <3>3. CASE n = 0
      BY <3>2, <3>3, LeftIs
    <3>4. CASE n > 0
      <4>1. Head(todo[p]) = Loop(p)[4 - ((n - 1) % 4)]
        BY <3>2, <3>4, LeftIs
      <4>2. n - 1 \in Nat
        BY <3>4
      <4>3. (n - 1) % 4 \in 0 .. 3
        BY <4>2, Modulo
      <4>4. 4 - ((n - 1) % 4) \in 1 .. 4
        BY <4>3
      <4>5. \A a \in 1 .. 4 : Loop(p)[a] \in Ops
        BY DEF Loop
      <4> QED
        BY <4>1, <4>4, <4>5
    <3> QED
      BY <3>2, <3>3, <3>4
  <2> QED
    BY <2>1, <2>2, <2>3 DEF TellInv
<1>2. locks = {}
  BY DEF TellInv
<1>3. \A b \in {0, 1} : ~Wants(p, b)
  BY <1>1 DEF Wants
<1> QED
  BY <1>2, <1>3 DEF lockabyte, lockabyte_fails, exit

LEMMA ProgramGoes == ASSUME TellInv, NEW p \in Pair, Goes(p) PROVE TellInv'
<1>1. TellTypes /\ Alternates /\ UNCHANGED <<program, locks>>
  BY DEF TellInv, Goes
<1>2. CASE program = "none"
  BY <1>2, Pairs DEF TellInv, Goes
<1>3. CASE program = "tellwait2"
  <2>1. Speaks /\ got = <<>> /\ locks = {}
    BY <1>3 DEF TellInv
  <2>2. Speaks' /\ TellTypes' /\ got' = <<>>
    BY <1>1, <2>1, SpeaksKeep
  <2>3. Alternates'
    BY <2>2 DEF Alternates
  <2> QED
    BY <1>1, <1>3, <2>1, <2>2, <2>3 DEF TellInv
<1>4. CASE program = "devzero"
  <2>1. PICK m \in Nat : Turn(m)
    BY <1>4 DEF TellInv
  <2>2. TellTypes' /\ Alternates' /\ \E k \in Nat : Turn(k)'
    BY <1>1, <2>1, TurnsKeep
  <2>3. PICK k \in Nat : Turn(k)'
    BY <2>2
  <2>4. (\E j \in Nat : Turn(j))'
    BY <2>3
  <2>5. output' = output
    <3>1. Head(todo[p]) # "putc"
      <4>1. PICK n \in Nat : todo[p] = Left(p, n)
        <5>1. 4 * m \in Nat /\ 4 * m + 1 \in Nat /\ 4 * m + 2 \in Nat /\ 4 * m + 3 \in Nat /\ 4 * m + 4 \in Nat
          OBVIOUS
        <5> QED
          BY <2>1, <5>1, Pairs DEF Turn, Both
      <4>2. n # 0
        BY <4>1, LeftIs DEF Goes
      <4>3. n - 1 \in Nat /\ Head(todo[p]) = Loop(p)[4 - ((n - 1) % 4)]
        <5>1. n > 0 /\ n - 1 \in Nat
          BY <4>2
        <5> QED
          BY <4>1, <5>1, LeftIs
      <4>4. (n - 1) % 4 \in 0 .. 3
        BY <4>3, Modulo
      <4>5. 4 - ((n - 1) % 4) \in 1 .. 4
        BY <4>4
      <4>6. \A a \in 1 .. 4 : Loop(p)[a] # "putc"
        BY DEF Loop
      <4> QED
        BY <4>3, <4>5, <4>6
    <3> QED
      BY <3>1 DEF Goes, Effect
  <2>6. output' = <<>> /\ locks = {}
    BY <1>4, <2>5 DEF TellInv
  <2> QED
    BY <1>1, <1>4, <2>2, <2>4, <2>6 DEF TellInv
<1>5. CASE program = "deadlock"
  <2>1. Locking /\ got = <<>> /\ output = <<>>
    BY <1>5 DEF TellInv
  <2>2. Locking' /\ TellTypes' /\ got' = <<>> /\ output' = <<>>
    BY <1>1, <2>1, StagesGo
  <2>3. Alternates'
    BY <2>2 DEF Alternates
  <2> QED
    BY <1>1, <1>5, <2>2, <2>3 DEF TellInv
<1> QED
  BY <1>2, <1>3, <1>4, <1>5 DEF TellInv

(* Once both have ended nothing is left in the pipes.                      *)
LEMMA InTurns == ASSUME TellInv PROVE TakeTurns
<1> USE Pairs
<1>1. program = "tellwait2" =>
        \A i, j \in DOMAIN output : output[i] = "parent" /\ output[j] = "child" => i < j
  BY DEF TellInv, Speaks, Parents, Ordered
<1>2. ASSUME \A p \in Pair : todo[p] = <<>> PROVE \A p \in Pair : told[p] = 0
  <2>1. CASE program = "none"
    BY <2>1 DEF TellInv, Told
  <2>2. CASE program = "tellwait2"
    <3>1. todo["child"] # <<"wait", "putc", "putc">>
      BY <1>2, Lists
    <3>2. Told(0, 0)
      BY <2>2, <3>1 DEF TellInv, Speaks
    <3> QED
      BY <3>2 DEF Told
  <2>3. CASE program = "devzero"
    <3>1. PICK m \in Nat : Turn(m)
      BY <2>3 DEF TellInv
    <3>2. /\ Left("parent", 4 * m + 3) # <<>> /\ Left("parent", 4 * m + 2) # <<>>
          /\ Left("parent", 4 * m + 1) # <<>>
      BY NextOps DEF NextIs
    <3>3. Told(0, 0)
      BY <1>2, <3>1, <3>2 DEF Turn, Both
    <3> QED
      BY <3>3 DEF Told
  <2>4. CASE program = "deadlock"
    <3>1. PICK stage \in [Pair -> 1 .. 5] : At(stage)
      BY <2>4 DEF TellInv, Locking
    <3>2. ASSUME NEW p \in Pair PROVE stage[p] = 5
      <4>1. stage[p] \in 1 .. 5 /\ Stages[p][stage[p]] = <<>>
        BY <1>2, <3>1 DEF At
      <4>2. stage[p] # 1 /\ stage[p] # 2 /\ stage[p] # 3 /\ stage[p] # 4
        BY <4>1, StageIs
      <4> QED
        BY <4>1, <4>2
    <3>3. ASSUME NEW p \in Pair PROVE told[p] = 0
      <4>1. told[p] = Pipe(5, 5)
        BY <3>1, <3>2 DEF At
      <4> QED
        BY <4>1 DEF Pipe
    <3> QED
      BY <3>3
  <2> QED
    BY <2>1, <2>2, <2>3, <2>4 DEF TellInv
<1> QED
  BY <1>1, <1>2 DEF TakeTurns, TellInv, Alternates

(* Parent and child take turns, for any number of loops: the child's       *)
(* output follows the parent's, the updates of the shared counter          *)
(* alternate and none is lost, and no byte is left in a pipe               *)
(* (TELL_WAIT and its four functions, devzero.c, tellwait2.c, deadlock.c). *)
THEOREM TurnsAreTaken == TellSpec => []TakeTurns
<1>1. TellInv /\ [TellNext]_tellVars => TellInv'
  <2> SUFFICES ASSUME TellInv, [TellNext]_tellVars PROVE TellInv'
    OBVIOUS
  <2>1. CASE UNCHANGED tellVars
    BY <2>1, ZenonT(30) DEF tellVars, TellInv, TellTypes, Alternates, Speaks, Parents, Ordered, Turn, Both, Told, Even,
      Left, Locking, At, Pipe, Stages
  <2>2. CASE TELL_WAIT
    BY <2>2, Chooses
  <2>3. ASSUME NEW p \in Pair, TELL(p) \/ WAIT(p) \/ putc(p) \/ load(p) \/ store(p)
        PROVE  TellInv'
    BY <2>3, Steps, ProgramGoes
  <2>4. ASSUME NEW p \in Pair, lockabyte(p) \/ lockabyte_fails(p) \/ exit(p)
        PROVE  TellInv'
    <3>1. program = "deadlock" /\ TellTypes /\ Locking /\ output = <<>> /\ got = <<>>
      BY <2>4, NoLocks DEF TellInv
    <3>2. Locking' /\ TellTypes'
      BY <2>4, <3>1, LocksGo
    <3>3. UNCHANGED <<program, output, got>>
      BY <2>4 DEF lockabyte, lockabyte_fails, exit
    <3>4. Alternates'
      BY <3>1, <3>3 DEF Alternates
    <3> QED
      BY <3>1, <3>2, <3>3, <3>4 DEF TellInv
  <2> QED
    BY <2>1, <2>2, <2>3, <2>4 DEF TellNext
<1> QED
  BY <1>1, TellStarts, InTurns, PTL DEF TellSpec

-----------------------------------------------------------------------------
(* Producer and consumer                                                   *)

Count(b) == IF b THEN 1 ELSE 0

ProdTypes ==
  /\ avail \in Nat /\ full \in Nat /\ bytes \in Nat /\ taken \in Nat
  /\ proAt \in {"time", "first", "mutex", "fifo", "count", "post", "end"}
  /\ conAt \in {"time", "first", "mutex", "fifo", "count", "post", "end"}

(* Each of the N units is in a semaphore or in the hands of a thread.      *)
Units ==
  avail + full + Count(proAt \in {"mutex", "fifo", "count"}) + Count(conAt \in {"mutex", "fifo", "count"}) = N

(* Words that were written and that no read has been called for.           *)
Written == full + Count(proAt = "count") + Count(conAt \in {"mutex", "fifo"})
Filled == bytes <= Written * Word

ProdInv == ProdTypes /\ Units /\ Filled /\ BufferEnds

(* Facts about products, which the solver does not find among the rest.    *)
LEMMA TimesNat ==
  ASSUME NEW k \in Nat, NEW w \in Nat
  PROVE  k * w \in Nat
OBVIOUS

(* One word more takes as many bytes more.                                 *)
LEMMA TimesOneMore ==
  ASSUME NEW k \in Nat, NEW w \in Nat
  PROVE  (k + 1) * w = k * w + w
OBVIOUS

(* More words take no fewer bytes.                                         *)
LEMMA TimesMore ==
  ASSUME NEW k \in Nat, NEW n \in Nat, NEW w \in Nat, k <= n
  PROVE  k * w <= n * w
<1>1. PICK d \in Nat : n = k + d
  <2>1. n - k \in Nat /\ n = k + (n - k)
    OBVIOUS
  <2>2. QED
    BY <2>1
<1>2. n * w = k * w + d * w
  BY <1>1
<1>3. d * w \in Nat /\ k * w \in Nat
  OBVIOUS
<1>4. QED
  BY <1>2, <1>3

(* What is in the FIFO fits into the buffer.                               *)
LEMMA Fits ==
  ASSUME ProdTypes, Units, Filled
  PROVE  Written \in Nat /\ bytes < BufSize
<1>1. Written \in Nat /\ Written <= N
  BY ProdAssumption DEF ProdTypes, Units, Written, Count
<1>2. Written * Word <= N * Word
  BY <1>1, TimesMore, ProdAssumption
<1>3. Written * Word \in Nat /\ N * Word \in Nat
  BY <1>1, ProdAssumption
<1>4. QED
  BY <1>1, <1>2, <1>3, ProdAssumption DEF ProdTypes, Filled

(* Nothing is written at the start.                                        *)
LEMMA StartsFitting == ProdInit => ProdInv
<1> SUFFICES ASSUME ProdInit PROVE ProdInv
  OBVIOUS
<1>1. ProdTypes /\ Units /\ Written = 0 /\ bytes = 0
  BY ProdAssumption DEF ProdInit, ProdTypes, Units, Written, Count
<1>2. Filled
  BY <1>1, ProdAssumption DEF Filled
<1>3. BufferEnds
  <2>1. N * Word \in Nat
    BY ProdAssumption
  <2>2. QED
    BY <2>1, ProdAssumption DEF ProdInit, BufferEnds
<1>4. QED
  BY <1>1, <1>2, <1>3 DEF ProdInv

(* Only a write and a read change what is in the FIFO.                     *)
LEMMA StaysFitting == ProdInv /\ [ProdNext]_prodVars => ProdInv'
<1> SUFFICES ASSUME ProdInv, [ProdNext]_prodVars PROVE ProdInv'
  OBVIOUS
<1> USE DEF ProdInv
<1>1. Written \in Nat /\ bytes < BufSize
  BY Fits
<1>2. CASE productor_write
  <2>1. ProdTypes' /\ Units' /\ Written' = Written + 1 /\ bytes' = bytes + Word
    BY <1>2, ProdAssumption DEF productor_write, ProdTypes, Units, Written, Count
  <2>2. Written' * Word = Written * Word + Word
    BY <1>1, <2>1, TimesOneMore, ProdAssumption
  <2>3. Written * Word \in Nat
    BY <1>1, ProdAssumption
  <2>4. Filled'
    BY <2>1, <2>2, <2>3, ProdAssumption DEF Filled, ProdTypes
  <2>5. BufferEnds'
    BY <1>2 DEF productor_write, BufferEnds
  <2>6. QED
    BY <2>1, <2>4, <2>5
<1>3. CASE consumer_read
  <2>1. taken' = bytes /\ bytes' = 0
    BY <1>1, <1>3 DEF consumer_read, ProdTypes
  <2>2. ProdTypes' /\ Units' /\ Written' \in Nat
    BY <1>3, <2>1 DEF consumer_read, ProdTypes, Units, Written, Count
  <2>3. Written' * Word \in Nat
    BY <2>2, TimesNat, ProdAssumption
  <2>4. Filled' /\ BufferEnds'
    BY <1>1, <2>1, <2>3 DEF Filled, BufferEnds
  <2>5. QED
    BY <2>2, <2>4
<1>4. CASE ~productor_write /\ ~consumer_read
  <2>1. ProdTypes' /\ Units' /\ Written' = Written /\ bytes' = bytes /\ taken' = taken
    <3>1. CASE \/ TimeUp \/ productor_time \/ wait_avail \/ productor_mutex
               \/ post_full \/ productor_post
      BY <3>1, ProdAssumption DEF TimeUp, productor_time, wait_avail, productor_mutex, post_full,
         productor_post, ProdTypes, Units, Written, Count
    <3>2. CASE \/ consumer_time \/ wait_full \/ consumer_mutex \/ post_avail \/ consumer_post
      BY <3>2, ProdAssumption DEF consumer_time, wait_full, consumer_mutex, post_avail,
         consumer_post, ProdTypes, Units, Written, Count
    <3>3. CASE UNCHANGED prodVars
      BY <3>3 DEF prodVars, ProdTypes, Units, Written
    <3>4. QED
      BY <1>4, <3>1, <3>2, <3>3 DEF ProdNext
  <2>2. Filled' /\ BufferEnds'
    BY <2>1 DEF Filled, BufferEnds
  <2>3. QED
    BY <2>1, <2>2
<1>5. QED
  BY <1>2, <1>3, <1>4

(* What the consumer's printf prints ends inside buf_r, however many words *)
(* a read takes: for any N and any word with N words shorter than buf_r.   *)
THEOREM PrintsInside == ProdSpec => []BufferEnds
<1>1. ProdInv => BufferEnds
  BY DEF ProdInv
<1>2. QED
  BY <1>1, StartsFitting, StaysFitting, PTL DEF ProdSpec
=============================================================================
