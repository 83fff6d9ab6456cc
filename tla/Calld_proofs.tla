----------------------------- MODULE Calld_proofs -----------------------------
(***************************************************************************)
(* Proofs about the dialer daemon: for any number of clients, any device   *)
(* lines, any Systems file and any number of children.  What holds of      *)
(* client[] and of the handler is proved of every behaviour; who has which *)
(* device, and who gets which answer, of patient clients, who wait for     *)
(* their answer.                                                           *)
(***************************************************************************)
EXTENDS Calld, FiniteSetTheorems, WellFoundedInduction, TLAPS

DaemonPoints == {"check", "sel", "asleep", "scan", "request", "lock", "tell", "enter",
                 "done", "dead"}
ChildStates == {"none", "wait", "dial", "sent", "exit0", "exit1", "killed", "reaped"}
AnswerKinds == {"none", "fd", "nodev", "locked", "unable", "notfound"}
Fds == Clients \cup {NoClient}
Wants == {Want[c] : c \in Clients} \cup {NoWant}
ClientEntry == [fd : Fds, pid : 0 .. MaxPid, childdone : {0, 1, 2}, want : Wants,
                sysftell : Int, foundone : BOOLEAN]

TypeOK ==
  /\ dpc \in DaemonPoints /\ idx \in Nat
  /\ back \in {"scan", "done"} /\ after \in {"sel", "check"}
  /\ rset \subseteq Clients /\ allset \subseteq Clients
  /\ client \in [Slots -> ClientEntry]
  /\ lock \in [Lines -> 0 .. MaxPid]
  /\ chld_flag \in BOOLEAN /\ sigchld \in BOOLEAN
  /\ child \in [Pids -> [st : ChildStates, cli : Fds, sys : Nat]]
  /\ npid \in 0 .. MaxPid
  /\ conn \in [Clients -> {"off", "queued", "open", "closed"}]
  /\ sent \in [Clients -> {"no", "unread", "read"}]
  /\ hup \in [Clients -> BOOLEAN]
  /\ got \in [Clients -> [kind : AnswerKinds, sys : Nat]]

-----------------------------------------------------------------------------
(* The invariant of every behaviour.                                       *)

(* request() is at an entry in use.                                        *)
Serving == dpc \in {"request", "lock", "tell"} => idx \in Slots /\ client[idx].fd # NoClient

(* Only children that were forked have a state, and no two entries of      *)
(* client[] have the same pid.                                             *)
PidsOwn ==
  /\ \A q \in Pids : q > npid => child[q] = NoChild
  /\ \A i \in Slots : client[i].pid <= npid
  /\ \A i, j \in Slots : client[i].pid = client[j].pid /\ client[i].pid # 0 => i = j

TrackInv == TypeOK /\ Serving /\ PidsOwn /\ ClientsTracked

-----------------------------------------------------------------------------
(* The invariant of patient clients: each waits for its answer, and the    *)
(* childdone that malloc() leaves in a new entry of client[] is not that   *)
(* of a child that has failed.                                             *)
Patient == Impatient = {} /\ 2 \notin HeapDone

(* A child that may still dial, or whose failure is still to be noted; the *)
(* entries that match a client's request; a pid that has no lock, and one  *)
(* whose child is not pending; a client that has asked and waits.          *)
Pending == {"wait", "dial", "exit1"}
Matching(c) == {k \in Entries : Matches(Want[c], k)}
Unlocked(pid) == pid # 0 => \A l \in Lines : lock[l] # pid
Quiet(pid) == pid \in Pids => child[pid].st \notin Pending
Waits(c) == sent[c] = "read" /\ got[c] = NoAnswer

(* The scans return to where they came from.                               *)
BackRight == dpc \in {"scan", "done"} => back = dpc

(* The life of a client: it asks, then it is answered, then it hangs up.   *)
AnsweredRead == \A c \in Clients : got[c] # NoAnswer => sent[c] = "read"
PatientHup == \A c \in Clients : hup[c] => got[c] # NoAnswer
AskedOpen == \A c \in Clients : sent[c] = "read" => conn[c] \in {"open", "closed"}

(* What is left of a scan of client[] is still readable: the select() that *)
(* said so is not out of date when the entry is reached.                   *)
ScanLeft ==
  \A i \in Slots :
    /\ client[i].fd \in rset
    /\ \/ dpc = "scan" /\ i >= idx
       \/ dpc \in {"request", "lock", "tell"} /\ back = "scan" /\ i > idx
    => sent[client[i].fd] = "unread" \/ hup[client[i].fd]

(* The entry of a client that has asked holds its request, and foundone    *)
(* tells whether an entry of the Systems file matched it.                  *)
EntriesRight ==
  \A i \in Slots : client[i].fd # NoClient /\ sent[client[i].fd] = "read" =>
    /\ client[i].want = Want[client[i].fd]
    /\ IF client[i].foundone THEN Matching(client[i].fd) # {} ELSE client[i].sysftell = 0

(* A child dials for a client, an entry that matches its request.          *)
ChildrenRight ==
  \A q \in Pids : child[q].st # "none" =>
    /\ child[q].cli \in Clients /\ child[q].sys \in Matching(child[q].cli)
    /\ LineOf(q) \in Lines

(* The client of a pending child waits, and has the entry with its pid.    *)
PendingOwned ==
  \A q \in Pids : child[q].st \in Pending =>
    /\ Waits(child[q].cli)
    /\ \E i \in Slots : client[i].fd = child[q].cli /\ client[i].pid = q

(* childdone is 2 only while its client waits for another try.             *)
FailedWait ==
  \A i \in Slots : client[i].childdone = 2 =>
    /\ client[i].fd # NoClient /\ Waits(client[i].fd)
    /\ client[i].pid \in Pids /\ child[client[i].pid].st = "reaped"

(* request() serves a client that waits; when it starts, nothing is left   *)
(* of the client's last child, and when it has forked, the new child waits *)
(* for a lock on a line that is free, then set.                            *)
ServedWaits ==
  dpc \in {"request", "lock", "tell"} =>
    Waits(client[idx].fd) /\ client[idx].childdone # 2
RequestFree ==
  dpc = "request" => Unlocked(client[idx].pid) /\ Quiet(client[idx].pid)
ForkedChild ==
  dpc \in {"lock", "tell"} =>
    /\ client[idx].pid \in Pids
    /\ child[client[idx].pid].st \in {"wait", "killed", "reaped"}
    /\ child[client[idx].pid].cli = client[idx].fd
    /\ dpc = "lock" => Unlocked(client[idx].pid) /\ lock[LineOf(client[idx].pid)] = 0
    /\ dpc = "tell" => lock[LineOf(client[idx].pid)] = client[idx].pid

(* A lock has an owner that has asked, and a client that holds a line owns *)
(* the lock on it.                                                         *)
OwnersRead ==
  \A l \in Lines : lock[l] # 0 =>
    \E i \in Slots : /\ client[i].pid = lock[l] /\ client[i].fd # NoClient
                     /\ sent[client[i].fd] = "read"
HoldersLock ==
  \A c \in Clients : got[c].kind = "fd" /\ ~hup[c] =>
    /\ got[c].sys \in Entries /\ Systems[got[c].sys].line \in Lines
    /\ \E i \in Slots : client[i].fd = c /\ client[i].pid \in Pids /\
                        lock[Systems[got[c].sys].line] = client[i].pid

PatientInv ==
  /\ TrackInv
  /\ BackRight /\ AnsweredRead
  /\ PatientHup /\ AskedOpen /\ ScanLeft /\ EntriesRight /\ ChildrenRight /\ PendingOwned
  /\ FailedWait /\ ServedWaits /\ RequestFree /\ ForkedChild /\ OwnersRead
  /\ DialedIsLocked /\ HoldersLock /\ AnswerMatches

-----------------------------------------------------------------------------
(* What Min, an operator of FiniteSetsExt, returns.                        *)
LEMMA MinIn ==
  ASSUME NEW S, S \subseteq Nat, IsFiniteSet(S), S # {}
  PROVE  Min(S) \in S
<1> DEFINE Below(x) == {y \in S : y < x}
           Belows == {Below(x) : x \in S}
<1>1. Belows \subseteq FiniteSubsetsOf(S) /\ Belows # {}
  <2>1. \A x \in S : Below(x) \in SUBSET S /\ IsFiniteSet(Below(x))
    BY FS_Subset
  <2> QED
    BY <2>1 DEF FiniteSubsetsOf
<1>2. PICK B \in Belows : \A C \in Belows : <<C, B>> \notin StrictSubsetOrdering(S)
  BY <1>1, FS_StrictSubsetOrderingWellFounded, WFMin
<1>3. PICK x \in S : B = Below(x)
  BY <1>2
<1>4. ASSUME NEW y \in S, y < x PROVE FALSE
  <2>1. Below(y) \subseteq Below(x) /\ y \in Below(x) /\ y \notin Below(y)
    <3>1. \A z \in S : z \in Nat
      OBVIOUS
    <3>2. x \in Nat /\ y \in Nat
      BY <3>1
    <3>3. \A z \in S : z < y => z < x
      BY <1>4, <3>1, <3>2
    <3>4. ~(y < y)
      BY <3>2
    <3> QED
      BY <1>4, <3>3, <3>4, Zenon
  <2>2. <<Below(y), Below(x)>> \in StrictSubsetOrdering(S)
    BY <2>1 DEF StrictSubsetOrdering
  <2> QED
    BY <1>2, <1>3, <2>2
<1>5. \A y \in S : x <= y
  BY <1>4
<1>6. QED
  BY <1>5 DEF Min

LEMMA SlotsFinite == Slots \subseteq Nat /\ IsFiniteSet(Slots) /\ Cardinality(Slots) = Cardinality(Clients)
<1>1. Cardinality(Clients) \in Nat
  BY CalldAssumption, FS_CardinalityType
<1>2. QED
  BY <1>1, FS_Interval DEF Slots

LEMMA MinOfSlots ==
  ASSUME NEW S \in SUBSET Slots, S # {}
  PROVE  Min(S) \in S
BY SlotsFinite, FS_Subset, MinIn

LEMMA MinOfStops ==
  ASSUME NEW e, Stops(e) # {}
  PROVE  Min(Stops(e)) \in Stops(e) /\ Min(Stops(e)) \in Ahead(e) /\ Min(Stops(e)) \in Entries
<1>1. Entries \subseteq Nat /\ IsFiniteSet(Entries)
  BY CalldAssumption, FS_Interval DEF Entries
<1>2. Stops(e) \subseteq Ahead(e) /\ Ahead(e) \subseteq Entries
  BY DEF Stops, Ahead
<1>3. QED
  BY <1>1, <1>2, FS_Subset, MinIn

(* client_add finds an entry: the clients that have one are others.        *)
LEMMA FreeSlot ==
  ASSUME TrackInv, NEW c \in Clients, conn[c] = "queued"
  PROVE  \E i \in Slots : client[i].fd = NoClient
<1>1. SUFFICES ASSUME \A i \in Slots : client[i].fd # NoClient PROVE FALSE
  OBVIOUS
<1> DEFINE f == [i \in Slots |-> client[i].fd]
<1>2. \A i \in Slots : client[i].fd \in Clients \ {c}
  BY <1>1 DEF TrackInv, ClientsTracked, TypeOK, ClientEntry, Fds
<1>3. f \in [Slots -> Clients \ {c}]
  BY <1>2
<1>4. \A i, j \in Slots : f[i] = f[j] => i = j
  BY <1>1 DEF TrackInv, ClientsTracked
<1>5. IsFiniteSet(Clients \ {c}) /\ Cardinality(Clients \ {c}) = Cardinality(Clients) - 1
      /\ Cardinality(Clients) \in Nat
  BY CalldAssumption, FS_RemoveElement, FS_CardinalityType
<1>6. Cardinality(Clients \ {c}) < Cardinality(Slots)
  BY <1>5, SlotsFinite
<1>7. \E i, j \in Slots : i # j /\ f[i] = f[j]
  <2> HIDE DEF f
  <2>1. IsFiniteSet(Slots)
    BY SlotsFinite
  <2> QED
    BY <1>3, <1>5, <1>6, <2>1, FS_PigeonHole
<1>8. QED
  BY <1>4, <1>7

-----------------------------------------------------------------------------
LEMMA InitTyping == Init => TypeOK
<1> SUFFICES ASSUME Init PROVE TypeOK
  OBVIOUS
<1> DEFINE New == {[fd |-> NoClient, pid |-> 0, childdone |-> d, want |-> NoWant,
                    sysftell |-> 0, foundone |-> FALSE] : d \in HeapDone}
<1>1. New \subseteq ClientEntry
  <2>1. NoClient \in Fds /\ NoWant \in Wants /\ 0 \in 0 .. MaxPid
    BY CalldAssumption DEF Fds, Wants
  <2>2. HeapDone \subseteq {0, 1, 2}
    BY CalldAssumption
  <2>3. ASSUME NEW d \in HeapDone
        PROVE  [fd |-> NoClient, pid |-> 0, childdone |-> d, want |-> NoWant,
                sysftell |-> 0, foundone |-> FALSE] \in ClientEntry
    BY <2>1, <2>2 DEF ClientEntry
  <2> QED
    BY <2>3
<1>2. client \in [Slots -> New]
  BY DEF Init
<1>3. client \in [Slots -> ClientEntry]
  <2> HIDE DEF New
  <2> QED
    BY <1>1, <1>2
<1>4. NoChild \in [st : ChildStates, cli : Fds, sys : Nat]
  BY DEF NoChild, ChildStates, Fds
<1>5. NoAnswer \in [kind : AnswerKinds, sys : Nat]
  BY DEF NoAnswer, AnswerKinds
<1>6. /\ lock \in [Lines -> 0 .. MaxPid] /\ npid \in 0 .. MaxPid
      /\ child \in [Pids -> [st : ChildStates, cli : Fds, sys : Nat]]
      /\ got \in [Clients -> [kind : AnswerKinds, sys : Nat]]
  BY <1>4, <1>5, CalldAssumption DEF Init
<1>7. /\ dpc \in DaemonPoints /\ idx \in Nat
      /\ back \in {"scan", "done"} /\ after \in {"sel", "check"}
      /\ rset \subseteq Clients /\ allset \subseteq Clients
      /\ chld_flag \in BOOLEAN /\ sigchld \in BOOLEAN
  BY DEF Init, DaemonPoints
<1>8. /\ conn \in [Clients -> {"off", "queued", "open", "closed"}]
      /\ sent \in [Clients -> {"no", "unread", "read"}]
      /\ hup \in [Clients -> BOOLEAN]
  BY DEF Init
<1>9. QED
  BY <1>3, <1>6, <1>7, <1>8 DEF TypeOK

-----------------------------------------------------------------------------
(* What the actions that change client[] do to its entries.                *)
OnlyEntry(i) == \A j \in Slots \ {i} : client'[j] = client[j]

LEMMA FdOf == ASSUME TypeOK, NEW i \in Slots PROVE client[i].fd \in Clients \/ client[i].fd = NoClient
BY DEF TypeOK, ClientEntry, Fds

LEMMA FdTyping ==
  ASSUME TypeOK, NEW i \in Slots, NEW f \in Fds, client' = [client EXCEPT ![i].fd = f]
  PROVE  client' \in [Slots -> ClientEntry]
<1>1. [client[i] EXCEPT !.fd = f] \in ClientEntry
  BY SMTT(20) DEF TypeOK, ClientEntry
<1>2. client' = [client EXCEPT ![i] = [client[i] EXCEPT !.fd = f]]
  OBVIOUS
<1> QED
  BY <1>1, <1>2 DEF TypeOK

LEMMA DoneTyping ==
  ASSUME TypeOK, NEW i \in Slots, NEW d \in {0, 1, 2}, client' = [client EXCEPT ![i].childdone = d]
  PROVE  client' \in [Slots -> ClientEntry]
<1>1. [client[i] EXCEPT !.childdone = d] \in ClientEntry
  BY DEF TypeOK, ClientEntry
<1>2. client' = [client EXCEPT ![i] = [client[i] EXCEPT !.childdone = d]]
  OBVIOUS
<1> QED
  BY <1>1, <1>2 DEF TypeOK

LEMMA ConnTyping ==
  ASSUME TypeOK, NEW f, NEW s \in {"off", "queued", "open", "closed"},
         conn' = [conn EXCEPT ![f] = s]
  PROVE  conn' \in [Clients -> {"off", "queued", "open", "closed"}]
BY DEF TypeOK

LEMMA UnlockTyping ==
  ASSUME TypeOK, NEW pid, lock' = LockWithout(pid)
  PROVE  lock' \in [Lines -> 0 .. MaxPid]
BY CalldAssumption DEF TypeOK, LockWithout

LEMMA AcceptEffect ==
  ASSUME TrackInv, SelectAccept
  PROVE  \E c \in Clients, i \in Slots :
           /\ conn[c] = "queued" /\ client[i].fd = NoClient
           /\ client' = [client EXCEPT ![i].fd = c]
           /\ allset' = allset \cup {c} /\ conn' = [conn EXCEPT ![c] = "open"]
<1>1. PICK c \in Calling : /\ client_add(c)
                           /\ allset' = allset \cup {c} /\ conn' = [conn EXCEPT ![c] = "open"]
  BY DEF SelectAccept
<1>2. c \in Clients /\ conn[c] = "queued"
  BY DEF Calling
<1> DEFINE S == {j \in Slots : client[j].fd = NoClient}
<1>3. S # {} /\ S \in SUBSET Slots
  BY <1>2, FreeSlot
<1>4. Min(S) \in S
  BY <1>3, MinOfSlots
<1>5. client' = [client EXCEPT ![Min(S)].fd = c]
  BY <1>1 DEF client_add
<1> QED
  BY <1>1, <1>2, <1>4, <1>5

LEMMA ScanEOFEffect ==
  ASSUME TypeOK, ScanEOF
  PROVE  \E i \in Slots :
           /\ i >= idx /\ client[i].fd \in rset /\ sent[client[i].fd] # "unread"
           /\ lock' = LockWithout(client[i].pid)
           /\ client' = [client EXCEPT ![i].fd = NoClient]
           /\ allset' = allset \ {client[i].fd}
           /\ conn' = [conn EXCEPT ![client[i].fd] = "closed"]
           /\ idx' = i + 1
<1>1. Min(ToRead) \in ToRead
  BY MinOfSlots DEF ScanEOF, ToRead
<1> QED
  BY <1>1 DEF ScanEOF, ToRead, cli_done

LEMMA ScanDataEffect ==
  ASSUME TypeOK, ScanData
  PROVE  \E i \in Slots :
           /\ i >= idx /\ client[i].fd \in rset /\ sent[client[i].fd] = "unread"
           /\ sent' = [sent EXCEPT ![client[i].fd] = "read"]
           /\ client' = [client EXCEPT ![i] =
                [client[i] EXCEPT !.want = Want[client[i].fd], !.childdone = 0, !.sysftell = 0,
                                  !.foundone = FALSE]]
           /\ idx' = i
<1>1. Min(ToRead) \in ToRead
  BY MinOfSlots DEF ScanData, ToRead
<1> QED
  BY <1>1 DEF ScanData, ToRead

LEMMA SuccessEffect ==
  ASSUME TypeOK, DoneSuccess
  PROVE  \E i \in Slots :
           /\ client[i].fd # NoClient /\ client[i].childdone = 1
           /\ client' = [client EXCEPT ![i].childdone = 0] /\ idx' = i + 1
<1>1. Min(ToFinish) \in ToFinish
  BY MinOfSlots DEF DoneSuccess, ToFinish
<1> QED
  BY <1>1 DEF DoneSuccess, ToFinish

LEMMA RetryEffect ==
  ASSUME TypeOK, DoneRetry
  PROVE  \E i \in Slots :
           /\ client[i].fd # NoClient /\ client[i].childdone = 2
           /\ client' = [client EXCEPT ![i].childdone = 0]
           /\ lock' = LockWithout(client[i].pid) /\ idx' = i
<1>1. Min(ToFinish) \in ToFinish
  BY MinOfSlots DEF DoneRetry, ToFinish
<1>2. client[Min(ToFinish)].childdone = 2
  BY <1>1 DEF DoneRetry, ToFinish, TypeOK, ClientEntry
<1> QED
  BY <1>1, <1>2 DEF DoneRetry, ToFinish

LEMMA ForkEffect ==
  ASSUME TypeOK, Serving, RequestFork
  PROVE  \E k \in Entries :
           /\ idx \in Slots /\ k \in Ahead(client[idx]) /\ npid + 1 \in Pids
           /\ Systems[k].line \in Lines /\ lock[Systems[k].line] = 0
           /\ client' = [client EXCEPT ![idx] =
                [client[idx] EXCEPT !.sysftell = k, !.foundone = TRUE, !.pid = npid + 1]]
           /\ child' = [child EXCEPT ![npid + 1] =
                [st |-> "wait", cli |-> client[idx].fd, sys |-> k]]
<1> DEFINE k == Min(Stops(client[idx]))
<1>1. Stops(client[idx]) # {} /\ Systems[k].line # "none"
  BY DEF RequestFork, CanDial
<1>2. k \in Stops(client[idx]) /\ k \in Ahead(client[idx]) /\ k \in Entries
  BY <1>1, MinOfStops
<1>3. Systems[k].line \in Lines /\ lock[Systems[k].line] = 0
  BY <1>1, <1>2, CalldAssumption DEF Stops
<1>4. npid + 1 \in Pids
  BY CalldAssumption DEF RequestFork, TypeOK, Pids
<1>5. /\ client' = [client EXCEPT ![idx] =
           [client[idx] EXCEPT !.sysftell = k, !.foundone = TRUE, !.pid = npid + 1]]
      /\ child' = [child EXCEPT ![npid + 1] = [st |-> "wait", cli |-> client[idx].fd, sys |-> k]]
  BY DEF RequestFork
<1>6. idx \in Slots
  BY DEF Serving, RequestFork
<1> QED
  BY <1>2, <1>3, <1>4, <1>5, <1>6

(* The answer of a request that fails, and its effect on the entry.        *)
FailedAnswer == [kind |-> ErrorOf(client[idx]), sys |-> 0]

LEMMA FailEffect ==
  ASSUME TypeOK, Serving, RequestFail, ~hup[client[idx].fd]
  PROVE  \E t \in Int :
           /\ idx \in Slots
           /\ client' = [client EXCEPT ![idx] =
                [client[idx] EXCEPT !.fd = NoClient, !.sysftell = t,
                                    !.foundone = @ \/ Ahead(client[idx]) # {}]]
           /\ allset' = allset \ {client[idx].fd}
           /\ conn' = [conn EXCEPT ![client[idx].fd] = "closed"]
           /\ got' = [got EXCEPT ![client[idx].fd] = FailedAnswer]
           /\ dpc' = back /\ idx' = idx + 1
<1> DEFINE t == IF Stops(client[idx]) = {} THEN -1 ELSE Min(Stops(client[idx]))
           e == [client[idx] EXCEPT !.sysftell = t,
                                    !.foundone = @ \/ Ahead(client[idx]) # {}]
<1>1. t \in Int
  BY MinOfStops DEF Entries
<1>2. idx \in Slots /\ client[idx].fd \in Clients
  BY FdOf DEF Serving, RequestFail
<1>3. /\ got' = [got EXCEPT ![client[idx].fd] = FailedAnswer]
      /\ cli_done(idx, [client EXCEPT ![idx] = e])
      /\ dpc' = back /\ idx' = idx + 1
  BY <1>2 DEF RequestFail, FailedAnswer
<1>4. [client EXCEPT ![idx] = e][idx] = e
  BY <1>2 DEF TypeOK
<1>5. e.fd = client[idx].fd
  BY <1>2 DEF TypeOK, ClientEntry
<1>6. /\ client' = [client EXCEPT ![idx] = [e EXCEPT !.fd = NoClient]]
      /\ allset' = allset \ {client[idx].fd}
      /\ conn' = [conn EXCEPT ![client[idx].fd] = "closed"]
  <2> HIDE DEF e, t
  <2> QED
    BY <1>2, <1>3, <1>4, <1>5 DEF cli_done, TypeOK
<1>7. [e EXCEPT !.fd = NoClient] =
        [client[idx] EXCEPT !.fd = NoClient, !.sysftell = t,
                            !.foundone = @ \/ Ahead(client[idx]) # {}]
  <2> HIDE DEF t
  <2> QED
    BY <1>2 DEF TypeOK, ClientEntry
<1> QED
  <2> HIDE DEF e, t
  <2> QED
    BY <1>1, <1>2, <1>3, <1>6, <1>7

LEMMA SigEffect ==
  ASSUME TypeOK, sig_chld
  PROVE  \E q \in Zombies :
           /\ child' = [child EXCEPT ![q].st = "reaped"]
           /\ \/ client' = client
              \/ \E i \in Slots :
                   /\ client[i].pid = q /\ child[q].st # "killed"
                   /\ client' = [client EXCEPT ![i].childdone = StatusOf(q)]
           /\ dpc' \in {dpc, "dead"} \/ (dpc = "asleep" /\ dpc' = "enter")
           /\ after' \in {after, "check"}
<1>1. PICK q \in Zombies :
       /\ child' = [child EXCEPT ![q].st = "reaped"]
       /\ client' = IF child[q].st = "killed" \/ EntriesOf(q) = {} THEN client
                    ELSE [client EXCEPT ![Min(EntriesOf(q))].childdone = StatusOf(q)]
       /\ \/ child[q].st # "killed" /\ EntriesOf(q) = {} /\ Dies /\ after' = after
          \/ /\ child[q].st = "killed" \/ EntriesOf(q) # {}
             /\ dpc' = IF dpc = "asleep" THEN "enter" ELSE dpc
             /\ after' = IF dpc = "asleep" THEN "check" ELSE after
  BY DEF sig_chld
<1>2. EntriesOf(q) # {} => Min(EntriesOf(q)) \in Slots /\ client[Min(EntriesOf(q))].pid = q
  BY MinOfSlots DEF EntriesOf
<1>3. /\ dpc' \in {dpc, "dead"} \/ (dpc = "asleep" /\ dpc' = "enter")
      /\ after' \in {after, "check"}
  BY <1>1 DEF Dies
<1> QED
  BY <1>1, <1>2, <1>3

LEMMA ForkedEntry ==
  ASSUME NEW e \in ClientEntry, NEW k \in Int, NEW b \in BOOLEAN, NEW p \in 0 .. MaxPid
  PROVE  [e EXCEPT !.sysftell = k, !.foundone = b, !.pid = p] \in ClientEntry
<1>1. [e EXCEPT !.sysftell = k] \in ClientEntry
  BY DEF ClientEntry
<1>2. \A f \in ClientEntry : [f EXCEPT !.foundone = b] \in ClientEntry
  BY DEF ClientEntry
<1>3. \A f \in ClientEntry : [f EXCEPT !.pid = p] \in ClientEntry
  BY DEF ClientEntry
<1> QED
  BY <1>1, <1>2, <1>3

LEMMA AskedEntry ==
  ASSUME NEW e \in ClientEntry, NEW w \in Wants
  PROVE  [e EXCEPT !.want = w, !.childdone = 0, !.sysftell = 0, !.foundone = FALSE] \in ClientEntry
<1>1. [e EXCEPT !.want = w] \in ClientEntry
  BY DEF ClientEntry
<1>2. \A f \in ClientEntry : [f EXCEPT !.childdone = 0] \in ClientEntry
  BY DEF ClientEntry
<1>3. \A f \in ClientEntry : [f EXCEPT !.sysftell = 0] \in ClientEntry
  BY DEF ClientEntry
<1>4. \A f \in ClientEntry : [f EXCEPT !.foundone = FALSE] \in ClientEntry
  BY DEF ClientEntry
<1> QED
  BY <1>1, <1>2, <1>3, <1>4

LEMMA ForkTyping == ASSUME TypeOK, Serving, RequestFork PROVE TypeOK'
<1>1. PICK k \in Entries :
           /\ idx \in Slots /\ k \in Ahead(client[idx]) /\ npid + 1 \in Pids
           /\ client' = [client EXCEPT ![idx] =
                [client[idx] EXCEPT !.sysftell = k, !.foundone = TRUE, !.pid = npid + 1]]
           /\ child' = [child EXCEPT ![npid + 1] =
                [st |-> "wait", cli |-> client[idx].fd, sys |-> k]]
  BY ForkEffect
<1>2. /\ client[idx] \in ClientEntry /\ k \in Nat /\ k \in Int /\ npid + 1 \in 0 .. MaxPid
      /\ TRUE \in BOOLEAN
  BY <1>1, CalldAssumption DEF TypeOK, Entries, Pids
<1>3. [client[idx] EXCEPT !.sysftell = k, !.foundone = TRUE, !.pid = npid + 1] \in ClientEntry
  BY <1>2, ForkedEntry
<1>4. client' \in [Slots -> ClientEntry]
  BY <1>1, <1>3 DEF TypeOK
<1>5. [st |-> "wait", cli |-> client[idx].fd, sys |-> k] \in [st : ChildStates, cli : Fds, sys : Nat]
  BY <1>2 DEF ClientEntry, ChildStates
<1>6. child' \in [Pids -> [st : ChildStates, cli : Fds, sys : Nat]]
  BY <1>1, <1>5 DEF TypeOK
<1>7. /\ dpc' = "lock" /\ npid' = npid + 1
      /\ UNCHANGED <<idx, back, after, rset, allset, lock, chld_flag, sigchld, clientVars>>
  BY DEF RequestFork
<1> QED
  BY <1>2, <1>4, <1>6, <1>7 DEF TypeOK, DaemonPoints, clientVars

LEMMA FailTyping == ASSUME TypeOK, Serving, RequestFail PROVE TypeOK'
<1>0. UNCHANGED <<back, after, rset, lock, chld_flag, childVars, sent, hup>>
  BY DEF RequestFail
<1>1. CASE hup[client[idx].fd]
  <2>1. dpc' = "dead" /\ UNCHANGED <<idx, client, allset, conn, got>>
    BY <1>1 DEF RequestFail, Dies
  <2> QED
    BY <1>0, <2>1 DEF TypeOK, DaemonPoints, childVars
<1>2. CASE ~hup[client[idx].fd]
  <2>1. PICK t \in Int :
           /\ idx \in Slots
           /\ client' = [client EXCEPT ![idx] =
                [client[idx] EXCEPT !.fd = NoClient, !.sysftell = t,
                                    !.foundone = @ \/ Ahead(client[idx]) # {}]]
           /\ allset' = allset \ {client[idx].fd}
           /\ conn' = [conn EXCEPT ![client[idx].fd] = "closed"]
           /\ got' = [got EXCEPT ![client[idx].fd] = FailedAnswer]
           /\ dpc' = back /\ idx' = idx + 1
    BY <1>2, FailEffect
  <2>2. client[idx] \in ClientEntry
    BY <2>1 DEF TypeOK
  <2>3. [client[idx] EXCEPT !.fd = NoClient, !.sysftell = t,
                            !.foundone = @ \/ Ahead(client[idx]) # {}] \in ClientEntry
    <3> DEFINE b == client[idx].foundone \/ Ahead(client[idx]) # {}
    <3>1. b \in BOOLEAN
      OBVIOUS
    <3>2. [client[idx] EXCEPT !.fd = NoClient, !.sysftell = t, !.foundone = b] \in ClientEntry
      <4> HIDE DEF b
      <4> QED
        BY <2>2, <3>1 DEF ClientEntry, Fds
    <3> QED
      BY <2>2, <3>2 DEF ClientEntry
  <2>4. client' \in [Slots -> ClientEntry]
    BY <2>1, <2>3 DEF TypeOK
  <2>5. ErrorOf(client[idx]) \in AnswerKinds
    BY <2>2 DEF ErrorOf, AnswerKinds, ClientEntry
  <2>6. FailedAnswer \in [kind : AnswerKinds, sys : Nat]
    BY <2>5 DEF FailedAnswer
  <2>7. got' \in [Clients -> [kind : AnswerKinds, sys : Nat]]
    BY <2>1, <2>6 DEF TypeOK
  <2>8. conn' \in [Clients -> {"off", "queued", "open", "closed"}]
    BY <2>1, ConnTyping
  <2>9. dpc' \in DaemonPoints /\ idx' \in Nat /\ allset' \subseteq Clients
    BY <2>1 DEF TypeOK, DaemonPoints
  <2> QED
    BY <1>0, <2>4, <2>7, <2>8, <2>9 DEF TypeOK, childVars
<1> QED
  BY <1>1, <1>2

LEMMA SigTyping == ASSUME TypeOK, sig_chld PROVE TypeOK'
<1>1. PICK q \in Zombies :
           /\ child' = [child EXCEPT ![q].st = "reaped"]
           /\ \/ client' = client
              \/ \E i \in Slots :
                   /\ client[i].pid = q /\ child[q].st # "killed"
                   /\ client' = [client EXCEPT ![i].childdone = StatusOf(q)]
           /\ dpc' \in {dpc, "dead"} \/ (dpc = "asleep" /\ dpc' = "enter")
           /\ after' \in {after, "check"}
  BY SigEffect
<1>2. child' \in [Pids -> [st : ChildStates, cli : Fds, sys : Nat]]
  BY <1>1, ZenonT(30) DEF TypeOK, ChildStates
<1>3. client' \in [Slots -> ClientEntry]
  <2>1. CASE client' = client
    BY <2>1 DEF TypeOK
  <2>2. ASSUME NEW i \in Slots, client' = [client EXCEPT ![i].childdone = StatusOf(q)]
        PROVE  client' \in [Slots -> ClientEntry]
    <3>1. StatusOf(q) \in {0, 1, 2}
      BY DEF StatusOf
    <3> QED
      BY <2>2, <3>1, DoneTyping
  <2> QED
    BY <1>1, <2>1, <2>2
<1>4. /\ sigchld' = FALSE /\ chld_flag' = TRUE
      /\ UNCHANGED <<idx, back, rset, allset, lock, npid, clientVars>>
  BY DEF sig_chld
<1>5. dpc' \in DaemonPoints /\ after' \in {"sel", "check"}
  BY <1>1 DEF TypeOK, DaemonPoints
<1> QED
  BY <1>2, <1>3, <1>4, <1>5 DEF TypeOK, clientVars

LEMMA ChildToTyping ==
  ASSUME TypeOK, NEW q \in Pids, NEW st \in ChildStates, ChildTo(q, st)
  PROVE  /\ child' \in [Pids -> [st : ChildStates, cli : Fds, sys : Nat]]
         /\ sigchld' \in BOOLEAN
<1>1. child' = [child EXCEPT ![q].st = st] /\ sigchld' = (sigchld \/ st \in {"exit0", "exit1", "killed"})
  BY DEF ChildTo
<1>2. [child[q] EXCEPT !.st = st] \in [st : ChildStates, cli : Fds, sys : Nat]
  BY DEF TypeOK
<1>3. child' = [child EXCEPT ![q] = [child[q] EXCEPT !.st = st]]
  BY <1>1
<1> QED
  BY <1>1, <1>2, <1>3 DEF TypeOK

LEMMA NextTyping == ASSUME TypeOK, Serving, [Next]_vars PROVE TypeOK'
<1>1. CASE Check \/ SelectSleep \/ SelectScan \/ ScanEnd \/ DoneEnter \/ DoneEnd \/ RequestLost
  <2>1. /\ UNCHANGED <<allset, client, lock, childVars, clientVars>>
        /\ chld_flag' \in {chld_flag, FALSE} /\ rset' \in {rset, Readable} /\ idx' \in {idx, 1}
        /\ back' \in {back, "scan", "done"} /\ after' \in {after, "sel"}
    BY <1>1 DEF Check, SelectSleep, SelectScan, ScanEnd, DoneEnter, DoneEnd, RequestLost
  <2>2. dpc' \in {"check", "sel", "enter", "asleep", "scan", "done", after, "dead"}
    BY <1>1 DEF Check, SelectSleep, SelectScan, ScanEnd, DoneEnter, DoneEnd, RequestLost, Dies
  <2>3. dpc' \in DaemonPoints
    BY <2>2 DEF TypeOK, DaemonPoints
  <2>4. Readable \subseteq Clients
    BY DEF Readable, TypeOK
  <2>5. UNCHANGED <<allset, client, lock, sigchld, child, npid, conn, sent, hup, got>>
    BY <2>1 DEF childVars, clientVars
  <2>6. rset' \subseteq Clients
    BY <2>1, <2>4 DEF TypeOK
  <2>8. idx' \in Nat
    BY <2>1 DEF TypeOK
  <2>9. chld_flag' \in BOOLEAN
    BY <2>1 DEF TypeOK
  <2>7. back' \in {"scan", "done"} /\ after' \in {"sel", "check"}
    BY <2>1 DEF TypeOK
  <2> QED
    BY <2>3, <2>5, <2>6, <2>7, <2>8, <2>9 DEF TypeOK
<1>2. CASE SelectAccept
  <2>1. PICK c \in Calling : /\ client_add(c)
                             /\ allset' = allset \cup {c} /\ conn' = [conn EXCEPT ![c] = "open"]
    BY <1>2 DEF SelectAccept
  <2>2. c \in Clients
    BY DEF Calling
  <2> DEFINE i == Min({j \in Slots : client[j].fd = NoClient})
  <2>3. client' = [client EXCEPT ![i].fd = c]
    BY <2>1 DEF client_add
  <2>4. client' \in [Slots -> ClientEntry]
    <3>1. CASE i \in Slots
      <4> HIDE DEF i
      <4> QED
        BY <2>2, <2>3, <3>1, FdTyping DEF Fds
    <3>2. CASE i \notin Slots
      <4> HIDE DEF i
      <4> QED
        BY <2>3, <3>2 DEF TypeOK
    <3> QED
      BY <3>1, <3>2
  <2>5. conn' \in [Clients -> {"off", "queued", "open", "closed"}]
    BY <2>1, ConnTyping
  <2>6. /\ allset' \subseteq Clients /\ dpc' = "check"
        /\ UNCHANGED <<idx, back, after, rset, lock, chld_flag, childVars, sent, hup, got>>
    BY <1>2, <2>1, <2>2 DEF SelectAccept, TypeOK
  <2> QED
    BY <2>4, <2>5, <2>6 DEF TypeOK, DaemonPoints, childVars
<1>3. CASE ScanEOF
  <2>1. PICK i \in Slots :
           /\ lock' = LockWithout(client[i].pid)
           /\ client' = [client EXCEPT ![i].fd = NoClient]
           /\ allset' = allset \ {client[i].fd}
           /\ conn' = [conn EXCEPT ![client[i].fd] = "closed"]
           /\ idx' = i + 1
    BY <1>3, ScanEOFEffect
  <2>2. client' \in [Slots -> ClientEntry] /\ lock' \in [Lines -> 0 .. MaxPid]
    BY <2>1, FdTyping, UnlockTyping DEF Fds
  <2>3. conn' \in [Clients -> {"off", "queued", "open", "closed"}]
    BY <2>1, ConnTyping
  <2>4. allset' \subseteq Clients /\ idx' \in Nat
    BY <2>1 DEF TypeOK, Slots
  <2> QED
    BY <1>3, <2>2, <2>3, <2>4 DEF ScanEOF, TypeOK, childVars
<1>4. CASE ScanData
  <2>1. PICK i \in Slots :
           /\ sent' = [sent EXCEPT ![client[i].fd] = "read"]
           /\ client[i].fd \in rset
           /\ client' = [client EXCEPT ![i] =
                [client[i] EXCEPT !.want = Want[client[i].fd], !.childdone = 0, !.sysftell = 0,
                                  !.foundone = FALSE]]
           /\ idx' = i
    BY <1>4, ScanDataEffect
  <2>2. client[i] \in ClientEntry /\ client[i].fd \in Clients /\ i \in Nat
    BY <2>1 DEF TypeOK, Slots
  <2>3. Want[client[i].fd] \in Wants
    BY <2>2 DEF Wants
  <2>4. [client[i] EXCEPT !.want = Want[client[i].fd], !.childdone = 0, !.sysftell = 0,
                          !.foundone = FALSE] \in ClientEntry
    BY <2>2, <2>3, AskedEntry
  <2>5. client' \in [Slots -> ClientEntry]
    BY <2>1, <2>4 DEF TypeOK
  <2>6. sent' \in [Clients -> {"no", "unread", "read"}]
    BY <2>1 DEF TypeOK
  <2> QED
    BY <1>4, <2>1, <2>2, <2>5, <2>6 DEF ScanData, TypeOK, DaemonPoints, childVars
<1>5. CASE DoneSuccess
  <2>1. PICK i \in Slots : client' = [client EXCEPT ![i].childdone = 0] /\ idx' = i + 1
    BY <1>5, SuccessEffect
  <2>2. client' \in [Slots -> ClientEntry]
    BY <2>1, DoneTyping
  <2>3. idx' \in Nat
    BY <2>1 DEF Slots
  <2> QED
    BY <1>5, <2>2, <2>3 DEF DoneSuccess, TypeOK, childVars, clientVars
<1>6. CASE DoneRetry
  <2>1. PICK i \in Slots : /\ client' = [client EXCEPT ![i].childdone = 0]
                           /\ lock' = LockWithout(client[i].pid) /\ idx' = i
    BY <1>6, RetryEffect
  <2>2. client' \in [Slots -> ClientEntry]
    BY <2>1, DoneTyping
  <2>3. lock' \in [Lines -> 0 .. MaxPid]
    BY <2>1, UnlockTyping
  <2>4. idx' \in Nat
    BY <2>1 DEF Slots
  <2> QED
    BY <1>6, <2>2, <2>3, <2>4 DEF DoneRetry, TypeOK, DaemonPoints, childVars, clientVars
<1>7. CASE RequestFork
  BY <1>7, ForkTyping
<1>8. CASE RequestFail
  BY <1>8, FailTyping
<1>9. CASE LockSet
  <2>1. client[idx].pid \in 0 .. MaxPid
    BY <1>9 DEF Serving, LockSet, TypeOK, ClientEntry
  <2>2. lock' \in [Lines -> 0 .. MaxPid]
    BY <1>9, <2>1 DEF LockSet, TypeOK
  <2> QED
    BY <1>9, <2>2 DEF LockSet, TypeOK, DaemonPoints, childVars, clientVars
<1>10. CASE TellChild
  <2>1. child' = [child EXCEPT ![client[idx].pid].st = IF @ = "wait" THEN "dial" ELSE @]
    BY <1>10 DEF TellChild
  <2>2. child' \in [Pids -> [st : ChildStates, cli : Fds, sys : Nat]]
    <3> DEFINE p == client[idx].pid
               st == IF child[p].st = "wait" THEN "dial" ELSE child[p].st
    <3>1. CASE p \in Pids
      <4>1. st \in ChildStates
        BY <3>1 DEF TypeOK, ChildStates
      <4>2. child' = [child EXCEPT ![p] = [child[p] EXCEPT !.st = st]]
        BY <2>1, <3>1
      <4> HIDE DEF st, p
      <4>3. [child[p] EXCEPT !.st = st] \in [st : ChildStates, cli : Fds, sys : Nat]
        BY <3>1, <4>1 DEF TypeOK
      <4> QED
        BY <4>2, <4>3 DEF TypeOK
    <3>2. CASE p \notin Pids
      BY <2>1, <3>2 DEF TypeOK
    <3> QED
      BY <3>1, <3>2
  <2> QED
    BY <1>10, <2>2 DEF TellChild, TypeOK, DaemonPoints, clientVars
<1>11. CASE sig_chld
  BY <1>11, SigTyping
<1>12. ASSUME NEW q \in Pids, ChildSendfd(q) PROVE TypeOK'
  <2>1. child' \in [Pids -> [st : ChildStates, cli : Fds, sys : Nat]] /\ sigchld' \in BOOLEAN
    BY <1>12, ChildToTyping DEF ChildSendfd, ChildStates
  <2>2. [kind |-> "fd", sys |-> child[q].sys] \in [kind : AnswerKinds, sys : Nat]
    BY DEF TypeOK, AnswerKinds
  <2>3. got' \in [Clients -> [kind : AnswerKinds, sys : Nat]]
    BY <1>12, <2>2 DEF ChildSendfd, TypeOK
  <2> QED
    BY <1>12, <2>1, <2>3 DEF ChildSendfd, ChildTo, TypeOK, daemonVars
<1>13. ASSUME NEW q \in Pids, ChildExit0(q) \/ ChildExit1(q) \/ ChildKilled(q) PROVE TypeOK'
  <2>1. PICK st \in ChildStates : ChildTo(q, st)
    BY <1>13 DEF ChildExit0, ChildExit1, ChildKilled, ChildStates
  <2>2. child' \in [Pids -> [st : ChildStates, cli : Fds, sys : Nat]] /\ sigchld' \in BOOLEAN
    BY <2>1, ChildToTyping
  <2>3. UNCHANGED <<npid, daemonVars, clientVars>>
    BY <1>13 DEF ChildExit0, ChildExit1, ChildKilled, ChildTo
  <2> QED
    BY <2>2, <2>3 DEF TypeOK, daemonVars, clientVars
<1>14. ASSUME NEW c \in Clients, Client(c) PROVE TypeOK'
  BY <1>14 DEF Client, Connect, Ask, HangUp, TypeOK, daemonVars, childVars
<1>15. CASE UNCHANGED vars
  BY <1>15 DEF TypeOK, vars, daemonVars, childVars, clientVars
<1> QED
  BY <1>1, <1>2, <1>3, <1>4, <1>5, <1>6, <1>7, <1>8, <1>9, <1>10, <1>11, <1>12, <1>13, <1>14, <1>15
  DEF Next, Daemon, Child

-----------------------------------------------------------------------------
SameFds == \A i \in Slots : client'[i].fd = client[i].fd
SamePids == \A i \in Slots : client'[i].pid = client[i].pid

(* The actions that only move the daemon.                                  *)
Moves == Check \/ SelectSleep \/ SelectScan \/ ScanEnd \/ DoneEnter \/ DoneEnd \/ RequestLost

LEMMA MovesEffect ==
  ASSUME TypeOK, Moves
  PROVE  /\ UNCHANGED <<allset, client, lock, sigchld, child, npid, conn, sent, hup, got>>
         /\ dpc' \notin {"request", "lock", "tell"}
<1>1. UNCHANGED <<allset, client, lock, sigchld, child, npid, conn, sent, hup, got>>
  BY DEF Moves, Check, SelectSleep, SelectScan, ScanEnd, DoneEnter, DoneEnd, RequestLost,
         childVars, clientVars
<1>2. dpc' \in {"check", "sel", "enter", "asleep", "scan", "done", after, "dead"}
  BY DEF Moves, Check, SelectSleep, SelectScan, ScanEnd, DoneEnter, DoneEnd, RequestLost, Dies
<1> QED
  BY <1>1, <1>2 DEF TypeOK

(* What a step of a child or a client leaves alone.                        *)
Others == \/ \E q \in Pids : Child(q) \/ ChildKilled(q)
          \/ \E c \in Clients : Client(c)

LEMMA OthersEffect ==
  ASSUME Others
  PROVE  UNCHANGED <<dpc, idx, back, after, rset, allset, client, lock, chld_flag, npid>>
BY DEF Others, Child, ChildSendfd, ChildExit0, ChildExit1, ChildKilled, ChildTo, Client, Connect,
       Ask, HangUp, daemonVars, childVars

LEMMA SigEntries ==
  ASSUME TypeOK, sig_chld
  PROVE  /\ SameFds /\ SamePids
         /\ \A i \in Slots : /\ client'[i].want = client[i].want
                             /\ client'[i].sysftell = client[i].sysftell
                             /\ client'[i].foundone = client[i].foundone
<1>1. PICK q \in Zombies :
         \/ client' = client
         \/ \E i \in Slots : client' = [client EXCEPT ![i].childdone = StatusOf(q)]
  BY SigEffect
<1>2. CASE client' = client
  BY <1>2 DEF SameFds, SamePids
<1>3. ASSUME NEW i \in Slots, NEW d, client' = [client EXCEPT ![i].childdone = d]
      PROVE  /\ SameFds /\ SamePids
             /\ \A j \in Slots : /\ client'[j].want = client[j].want
                                 /\ client'[j].sysftell = client[j].sysftell
                                 /\ client'[j].foundone = client[j].foundone
  BY <1>3 DEF TypeOK, ClientEntry, SameFds, SamePids
<1> QED
  BY <1>1, <1>2, <1>3

(* What the daemon's actions do to the fds and the pids of client[].       *)
LEMMA ForkEntries ==
  ASSUME TypeOK, Serving, RequestFork
  PROVE  /\ SameFds /\ OnlyEntry(idx) /\ client'[idx].pid = npid + 1
         /\ client'[idx].want = client[idx].want /\ client'[idx].foundone = TRUE
         /\ client'[idx].childdone = client[idx].childdone
<1>1. PICK k \in Entries :
           /\ idx \in Slots
           /\ client' = [client EXCEPT ![idx] =
                [client[idx] EXCEPT !.sysftell = k, !.foundone = TRUE, !.pid = npid + 1]]
  BY ForkEffect
<1>2. OnlyEntry(idx) /\ client'[idx] =
         [client[idx] EXCEPT !.sysftell = k, !.foundone = TRUE, !.pid = npid + 1]
  BY <1>1 DEF OnlyEntry, TypeOK
<1>3. client[idx] \in ClientEntry
  BY <1>1 DEF TypeOK
<1>4. /\ client'[idx].fd = client[idx].fd /\ client'[idx].pid = npid + 1
      /\ client'[idx].want = client[idx].want /\ client'[idx].foundone = TRUE
      /\ client'[idx].childdone = client[idx].childdone
  BY <1>2, <1>3 DEF ClientEntry
<1> QED
  BY <1>1, <1>2, <1>4 DEF OnlyEntry, SameFds

LEMMA FailEntries ==
  ASSUME TypeOK, Serving, RequestFail, ~hup[client[idx].fd]
  PROVE  /\ idx \in Slots /\ OnlyEntry(idx) /\ SamePids
         /\ client'[idx].fd = NoClient /\ client'[idx].childdone = client[idx].childdone
         /\ allset' = allset \ {client[idx].fd}
         /\ conn' = [conn EXCEPT ![client[idx].fd] = "closed"]
<1>1. PICK t \in Int :
           /\ idx \in Slots
           /\ client' = [client EXCEPT ![idx] =
                [client[idx] EXCEPT !.fd = NoClient, !.sysftell = t,
                                    !.foundone = @ \/ Ahead(client[idx]) # {}]]
           /\ allset' = allset \ {client[idx].fd}
           /\ conn' = [conn EXCEPT ![client[idx].fd] = "closed"]
  BY FailEffect
<1>2. OnlyEntry(idx) /\ client'[idx] =
         [client[idx] EXCEPT !.fd = NoClient, !.sysftell = t,
                             !.foundone = @ \/ Ahead(client[idx]) # {}]
  BY <1>1 DEF OnlyEntry, TypeOK
<1>3. client[idx] \in ClientEntry
  BY <1>1 DEF TypeOK
<1>4. /\ client'[idx].fd = NoClient /\ client'[idx].pid = client[idx].pid
      /\ client'[idx].childdone = client[idx].childdone
  BY <1>2, <1>3 DEF ClientEntry
<1> QED
  BY <1>1, <1>2, <1>4 DEF OnlyEntry, SamePids

LEMMA FreedEntry ==
  ASSUME TypeOK, NEW i \in Slots, NEW f, client' = [client EXCEPT ![i].fd = f]
  PROVE  /\ OnlyEntry(i) /\ SamePids /\ client'[i].fd = f
         /\ client'[i].childdone = client[i].childdone
         /\ client'[i].want = client[i].want /\ client'[i].sysftell = client[i].sysftell
         /\ client'[i].foundone = client[i].foundone
BY DEF TypeOK, ClientEntry, OnlyEntry, SamePids

LEMMA MarkedEntry ==
  ASSUME TypeOK, NEW i \in Slots, NEW d, client' = [client EXCEPT ![i].childdone = d]
  PROVE  /\ OnlyEntry(i) /\ SameFds /\ SamePids /\ client'[i].childdone = d
         /\ client'[i].want = client[i].want /\ client'[i].sysftell = client[i].sysftell
         /\ client'[i].foundone = client[i].foundone
BY DEF TypeOK, ClientEntry, OnlyEntry, SameFds, SamePids

LEMMA AskedEffect ==
  ASSUME TypeOK, NEW i \in Slots, NEW w,
         client' = [client EXCEPT ![i] = [client[i] EXCEPT !.want = w, !.childdone = 0,
                                                    !.sysftell = 0, !.foundone = FALSE]]
  PROVE  /\ OnlyEntry(i) /\ SameFds /\ SamePids
         /\ client'[i].want = w /\ client'[i].childdone = 0 /\ client'[i].sysftell = 0
         /\ client'[i].foundone = FALSE
<1>1. OnlyEntry(i) /\ client'[i] =
         [client[i] EXCEPT !.want = w, !.childdone = 0, !.sysftell = 0, !.foundone = FALSE]
  BY DEF OnlyEntry, TypeOK
<1>2. client[i] \in ClientEntry
  BY DEF TypeOK
<1>3. client'[i].fd = client[i].fd /\ client'[i].pid = client[i].pid
  BY <1>1, <1>2 DEF ClientEntry
<1>4. client'[i].childdone = 0
  BY <1>1, <1>2, ZenonT(30) DEF ClientEntry
<1>5. client'[i].sysftell = 0 /\ client'[i].foundone = FALSE
  BY <1>1, <1>2, ZenonT(30) DEF ClientEntry
<1>6. client'[i].want = w
  BY <1>1, <1>2, ZenonT(30) DEF ClientEntry
<1>7. OnlyEntry(i)
  BY <1>1
<1>8. SameFds /\ SamePids
  BY <1>3, <1>7 DEF OnlyEntry, SameFds, SamePids
<1> QED
  BY <1>4, <1>5, <1>6, <1>7, <1>8

(* Every step that leaves the fds alone but those the four above account   *)
(* for.                                                                    *)
LEMMA FdsKept ==
  ASSUME TypeOK, Serving, [Next]_vars
  PROVE  \/ SelectAccept \/ ScanEOF
         \/ RequestFail /\ ~hup[client[idx].fd]
         \/ /\ SameFds /\ allset' = allset
            /\ conn' = conn \/ \E c \in Clients : Connect(c)
<1>1. CASE Moves
  BY <1>1, MovesEffect DEF SameFds
<1>2. CASE ScanData
  <2>1. conn' = conn /\ allset' = allset
    BY <1>2 DEF ScanData
  <2> QED
    BY <1>2, <2>1, ScanDataEffect, AskedEffect
<1>3. CASE DoneSuccess
  <2>1. conn' = conn /\ allset' = allset
    BY <1>3 DEF DoneSuccess, clientVars
  <2> QED
    BY <1>3, <2>1, SuccessEffect, MarkedEntry
<1>4. CASE DoneRetry
  <2>1. conn' = conn /\ allset' = allset
    BY <1>4 DEF DoneRetry, clientVars
  <2> QED
    BY <1>4, <2>1, RetryEffect, MarkedEntry
<1>5. CASE RequestFork
  <2>1. conn' = conn /\ allset' = allset
    BY <1>5 DEF RequestFork, clientVars
  <2> QED
    BY <1>5, <2>1, ForkEntries
<1>6. CASE RequestFail /\ hup[client[idx].fd]
  BY <1>6 DEF RequestFail, SameFds
<1>7. CASE LockSet \/ TellChild
  BY <1>7 DEF LockSet, TellChild, SameFds, clientVars
<1>8. CASE sig_chld
  <2>1. conn' = conn /\ allset' = allset
    BY <1>8 DEF sig_chld, clientVars
  <2> QED
    BY <1>8, <2>1, SigEntries
<1>9. CASE Others
  <2>1. conn' = conn \/ \E c \in Clients : Connect(c)
    BY <1>9 DEF Others, Child, ChildSendfd, ChildExit0, ChildExit1, ChildKilled, Client, Ask,
                HangUp, clientVars
  <2> QED
    BY <1>9, <2>1, OthersEffect DEF SameFds
<1>10. CASE UNCHANGED vars
  BY <1>10 DEF vars, daemonVars, clientVars, SameFds
<1> QED
  BY <1>1, <1>2, <1>3, <1>4, <1>5, <1>6, <1>7, <1>8, <1>9, <1>10
  DEF Next, Daemon, Moves, Others

LEMMA ServingKept ==
  ASSUME TypeOK, Serving, [Next]_vars
  PROVE  Serving'
<1>1. CASE dpc' \in {"request", "lock", "tell"} /\ UNCHANGED <<dpc, idx>> /\ SameFds
  BY <1>1 DEF Serving, SameFds
<1>2. CASE dpc' \notin {"request", "lock", "tell"}
  BY <1>2 DEF Serving
<1>3. CASE Moves
  BY <1>2, <1>3, MovesEffect
<1>4. CASE SelectAccept \/ ScanEOF \/ ScanEnd \/ DoneSuccess \/ TellChild
  <2>1. dpc' \in {"check", "scan", "done", back}
    BY <1>4 DEF SelectAccept, ScanEOF, ScanEnd, DoneSuccess, TellChild
  <2> QED
    BY <1>2, <2>1 DEF TypeOK
<1>5. CASE ScanData
  <2>1. PICK i \in Slots :
           /\ client[i].fd \in rset
           /\ client' = [client EXCEPT ![i] =
                [client[i] EXCEPT !.want = Want[client[i].fd], !.childdone = 0, !.sysftell = 0,
                                  !.foundone = FALSE]]
           /\ idx' = i
    BY <1>5, ScanDataEffect
  <2>2. SameFds
    BY <2>1, AskedEffect
  <2>3. client'[i].fd \in Clients
    BY <2>1, <2>2 DEF SameFds, TypeOK
  <2> QED
    BY <2>1, <2>3, CalldAssumption DEF Serving
<1>6. CASE DoneRetry
  <2>1. PICK i \in Slots :
           /\ client[i].fd # NoClient
           /\ client' = [client EXCEPT ![i].childdone = 0] /\ idx' = i
    BY <1>6, RetryEffect
  <2>2. client'[i].fd # NoClient
    BY <2>1, MarkedEntry DEF SameFds
  <2> QED
    BY <2>1, <2>2 DEF Serving
<1>7. CASE RequestFork
  <2>1. SameFds /\ idx \in Slots /\ idx' = idx /\ client[idx].fd # NoClient
    BY <1>7, ForkEntries DEF RequestFork, Serving
  <2> QED
    BY <2>1 DEF SameFds, Serving
<1>8. CASE RequestFail
  <2>1. dpc' \in {back, "dead"}
    BY <1>8 DEF RequestFail, Dies
  <2> QED
    BY <1>2, <2>1 DEF TypeOK
<1>9. CASE LockSet
  <2>1. dpc = "lock" /\ UNCHANGED <<idx, client>>
    BY <1>9 DEF LockSet
  <2> QED
    BY <2>1 DEF Serving
<1>10. CASE sig_chld
  <2>1. SameFds /\ idx' = idx /\ dpc' \in {dpc, "dead", "enter"}
    BY <1>10, SigEffect, SigEntries DEF sig_chld
  <2> QED
    BY <1>1, <1>2, <2>1
<1>11. CASE Others \/ UNCHANGED vars
  <2>1. UNCHANGED <<dpc, idx, client>>
    BY <1>11, OthersEffect DEF vars, daemonVars
  <2> QED
    BY <2>1 DEF Serving
<1> QED
  BY <1>3, <1>4, <1>5, <1>6, <1>7, <1>8, <1>9, <1>10, <1>11
  DEF Next, Daemon, Moves, Others

LEMMA TrackedKept ==
  ASSUME TrackInv, [Next]_vars
  PROVE  ClientsTracked'
<1>0. TypeOK /\ Serving /\ ClientsTracked
  BY DEF TrackInv
<1>1. CASE SelectAccept
  <2>1. PICK c \in Clients, i \in Slots :
           /\ conn[c] = "queued" /\ client[i].fd = NoClient
           /\ client' = [client EXCEPT ![i].fd = c]
           /\ allset' = allset \cup {c} /\ conn' = [conn EXCEPT ![c] = "open"]
    BY <1>1, AcceptEffect
  <2>2. OnlyEntry(i) /\ client'[i].fd = c
    BY <1>0, <2>1, FreedEntry
  <2>3. c \notin allset /\ c # NoClient
    BY <1>0, <2>1, CalldAssumption DEF ClientsTracked
  <2>4. \A j \in Slots : client[j].fd # c
    BY <1>0, <2>3 DEF ClientsTracked
  <2>5. allset' = {client'[j].fd : j \in Slots} \ {NoClient}
    <3>1. ASSUME NEW x \in allset' PROVE \E j \in Slots : x = client'[j].fd
      <4>1. CASE x = c
        BY <2>2, <4>1
      <4>2. CASE x \in allset
        <5>1. PICK j \in Slots : client[j].fd = x /\ x # NoClient
          BY <1>0, <4>2 DEF ClientsTracked
        <5>2. j # i
          BY <2>1, <5>1
        <5> QED
          BY <2>2, <5>1, <5>2 DEF OnlyEntry
      <4> QED
        BY <2>1, <3>1, <4>1, <4>2
    <3>2. NoClient \notin allset'
      BY <1>0, <2>1, <2>3 DEF ClientsTracked
    <3>3. ASSUME NEW j \in Slots, client'[j].fd # NoClient PROVE client'[j].fd \in allset'
      <4>1. CASE j = i
        BY <2>1, <2>2, <4>1
      <4>2. CASE j # i
        BY <1>0, <2>1, <2>2, <3>3, <4>2 DEF OnlyEntry, ClientsTracked
      <4> QED
        BY <4>1, <4>2
    <3> QED
      BY <3>1, <3>2, <3>3
  <2>6. allset' = {d \in Clients : conn'[d] = "open"}
    BY <1>0, <2>1 DEF ClientsTracked, TypeOK
  <2>7. \A j, k \in Slots : client'[j].fd = client'[k].fd /\ j # k => client'[j].fd = NoClient
    BY <1>0, <2>2, <2>4 DEF OnlyEntry, ClientsTracked
  <2> QED
    BY <2>5, <2>6, <2>7 DEF ClientsTracked
<1>2. ASSUME NEW i \in Slots, client[i].fd # NoClient, OnlyEntry(i), client'[i].fd = NoClient,
             allset' = allset \ {client[i].fd},
             conn' = [conn EXCEPT ![client[i].fd] = "closed"]
      PROVE  ClientsTracked'
  <2>1. \A j \in Slots \ {i} : client[j].fd # client[i].fd
    BY <1>0, <1>2 DEF ClientsTracked
  <2>2. allset' = {client'[j].fd : j \in Slots} \ {NoClient}
    <3>1. ASSUME NEW x \in allset' PROVE \E j \in Slots : x = client'[j].fd
      <4>1. x \in allset /\ x # client[i].fd
        BY <1>2, <3>1
      <4>2. PICK j \in Slots : client[j].fd = x
        BY <1>0, <4>1 DEF ClientsTracked
      <4>3. j # i
        BY <4>1, <4>2
      <4> QED
        BY <1>2, <4>2, <4>3 DEF OnlyEntry
    <3>2. NoClient \notin allset'
      BY <1>0, <1>2 DEF ClientsTracked
    <3>3. ASSUME NEW j \in Slots, client'[j].fd # NoClient PROVE client'[j].fd \in allset'
      <4>1. j # i
        BY <1>2, <3>3
      <4>2. client'[j].fd = client[j].fd
        BY <1>2, <4>1 DEF OnlyEntry
      <4>3. client[j].fd \in allset /\ client[j].fd # client[i].fd
        BY <1>0, <2>1, <3>3, <4>1, <4>2 DEF ClientsTracked
      <4> QED
        BY <1>2, <4>2, <4>3
    <3> QED
      BY <3>1, <3>2, <3>3
  <2>3. allset' = {d \in Clients : conn'[d] = "open"}
    BY <1>0, <1>2 DEF ClientsTracked, TypeOK
  <2>4. \A j, k \in Slots : client'[j].fd = client'[k].fd /\ j # k => client'[j].fd = NoClient
    BY <1>0, <1>2 DEF OnlyEntry, ClientsTracked
  <2> QED
    BY <2>2, <2>3, <2>4 DEF ClientsTracked
<1>3. CASE ScanEOF
  <2>1. PICK i \in Slots :
           /\ client[i].fd \in rset
           /\ client' = [client EXCEPT ![i].fd = NoClient]
           /\ allset' = allset \ {client[i].fd}
           /\ conn' = [conn EXCEPT ![client[i].fd] = "closed"]
    BY <1>0, <1>3, ScanEOFEffect
  <2>2. client[i].fd # NoClient
    BY <1>0, <2>1, CalldAssumption DEF TypeOK
  <2>3. OnlyEntry(i) /\ client'[i].fd = NoClient
    BY <1>0, <2>1, FreedEntry
  <2> QED
    BY <1>2, <2>1, <2>2, <2>3
<1>4. CASE RequestFail /\ ~hup[client[idx].fd]
  <2>1. client[idx].fd # NoClient
    BY <1>0, <1>4 DEF RequestFail, Serving
  <2> QED
    BY <1>0, <1>2, <1>4, <2>1, FailEntries
<1>5. CASE SameFds /\ allset' = allset /\ (conn' = conn \/ \E c \in Clients : Connect(c))
  <2>1. {d \in Clients : conn'[d] = "open"} = {d \in Clients : conn[d] = "open"}
    BY <1>0, <1>5 DEF Connect, TypeOK
  <2>2. {client'[i].fd : i \in Slots} = {client[i].fd : i \in Slots}
    BY <1>5 DEF SameFds
  <2>3. \A i, j \in Slots : client'[i].fd = client'[j].fd /\ i # j => client'[i].fd = NoClient
    BY <1>0, <1>5 DEF SameFds, ClientsTracked
  <2>4. /\ allset' = {client'[i].fd : i \in Slots} \ {NoClient}
        /\ allset' = {d \in Clients : conn'[d] = "open"}
    BY <1>0, <1>5, <2>1, <2>2 DEF ClientsTracked
  <2> QED
    BY <2>3, <2>4 DEF ClientsTracked
<1> QED
  BY <1>0, <1>1, <1>3, <1>4, <1>5, FdsKept

-----------------------------------------------------------------------------
(* What the steps do to the children: all of child[] but one is kept, and  *)
(* the one moves along its life.                                           *)
LEMMA ChildStep ==
  ASSUME TypeOK, Serving, PidsOwn, [Next]_vars
  PROVE  \/ child' = child /\ npid' = npid /\ sigchld' = sigchld
         \/ /\ RequestFork /\ npid' = npid + 1 /\ npid + 1 \in Pids /\ sigchld' = sigchld
            /\ child'[npid + 1].st = "wait"
            /\ \A p \in Pids \ {npid + 1} : child'[p] = child[p]
         \/ \E q \in Pids :
              /\ npid' = npid
              /\ \A p \in Pids \ {q} : child'[p] = child[p]
              /\ child'[q].cli = child[q].cli /\ child'[q].sys = child[q].sys
              /\ \/ /\ child[q].st = "wait" /\ child'[q].st = "dial" /\ TellChild
                    /\ sigchld' = sigchld
                 \/ ChildSendfd(q) /\ child'[q].st = "sent" /\ sigchld' = sigchld
                 \/ /\ ChildExit0(q) \/ ChildExit1(q) \/ ChildKilled(q)
                    /\ child'[q].st \in {"exit0", "exit1", "killed"} /\ sigchld' = TRUE
                 \/ sig_chld /\ q \in Zombies /\ child'[q].st = "reaped" /\ sigchld' = FALSE
<1>1. CASE Moves
  BY <1>1, MovesEffect
<1>2. CASE SelectAccept \/ ScanEOF \/ ScanData \/ DoneSuccess \/ DoneRetry \/ RequestFail \/ LockSet
  BY <1>2 DEF SelectAccept, ScanEOF, ScanData, DoneSuccess, DoneRetry, RequestFail, LockSet,
              childVars
<1>3. CASE RequestFork
  <2>1. npid + 1 \in Pids /\ \E k \in Entries :
          child' = [child EXCEPT ![npid + 1] = [st |-> "wait", cli |-> client[idx].fd, sys |-> k]]
    BY <1>3, ForkEffect
  <2>2. child'[npid + 1].st = "wait" /\ \A p \in Pids \ {npid + 1} : child'[p] = child[p]
    BY <2>1 DEF TypeOK
  <2>3. npid' = npid + 1 /\ sigchld' = sigchld
    BY <1>3 DEF RequestFork
  <2> QED
    BY <1>3, <2>1, <2>2, <2>3
<1>4. CASE TellChild
  <2> DEFINE p == client[idx].pid
  <2>1. /\ child' = [child EXCEPT ![p].st = IF @ = "wait" THEN "dial" ELSE @]
        /\ npid' = npid /\ sigchld' = sigchld
    BY <1>4 DEF TellChild
  <2>2. CASE p \in Pids /\ child[p].st = "wait"
    <3> HIDE DEF p
    <3>1. /\ \A r \in Pids \ {p} : child'[r] = child[r]
          /\ child'[p].cli = child[p].cli /\ child'[p].sys = child[p].sys
          /\ child'[p].st = "dial"
      BY <2>1, <2>2 DEF TypeOK
    <3> QED
      BY <1>4, <2>1, <2>2, <3>1
  <2>3. CASE p \notin Pids \/ child[p].st # "wait"
    <3> HIDE DEF p
    <3>1. child' = child
      BY <2>1, <2>3 DEF TypeOK
    <3> QED
      BY <2>1, <3>1
  <2> QED
    BY <2>2, <2>3
<1>5. CASE sig_chld
  <2>1. PICK q \in Zombies : child' = [child EXCEPT ![q].st = "reaped"]
    BY <1>5, SigEffect
  <2>2. q \in Pids
    BY DEF Zombies
  <2>3. /\ \A p \in Pids \ {q} : child'[p] = child[p]
        /\ child'[q].cli = child[q].cli /\ child'[q].sys = child[q].sys
        /\ child'[q].st = "reaped"
    BY <2>1, <2>2 DEF TypeOK
  <2>4. npid' = npid /\ sigchld' = FALSE
    BY <1>5 DEF sig_chld
  <2> QED
    BY <1>5, <2>2, <2>3, <2>4
<1>6. ASSUME NEW q \in Pids, Child(q) \/ ChildKilled(q)
      PROVE  /\ npid' = npid
             /\ \A p \in Pids \ {q} : child'[p] = child[p]
             /\ child'[q].cli = child[q].cli /\ child'[q].sys = child[q].sys
             /\ \/ ChildSendfd(q) /\ child'[q].st = "sent" /\ sigchld' = sigchld
                \/ /\ ChildExit0(q) \/ ChildExit1(q) \/ ChildKilled(q)
                   /\ child'[q].st \in {"exit0", "exit1", "killed"} /\ sigchld' = TRUE
  <2>1. ASSUME NEW st, ChildTo(q, st)
        PROVE  /\ npid' = npid
               /\ \A p \in Pids \ {q} : child'[p] = child[p]
               /\ child'[q].cli = child[q].cli /\ child'[q].sys = child[q].sys
               /\ child'[q].st = st
               /\ sigchld' = (sigchld \/ st \in {"exit0", "exit1", "killed"})
    BY <2>1 DEF ChildTo, TypeOK
  <2>2. CASE ChildSendfd(q)
    <3>1. ChildTo(q, "sent") /\ sigchld \in BOOLEAN
      BY <2>2 DEF ChildSendfd, TypeOK
    <3> QED
      BY <2>1, <2>2, <3>1
  <2>3. CASE ChildExit0(q) \/ ChildExit1(q) \/ ChildKilled(q)
    <3>1. \E st \in {"exit0", "exit1", "killed"} : ChildTo(q, st)
      BY <2>3 DEF ChildExit0, ChildExit1, ChildKilled
    <3> QED
      BY <2>1, <2>3, <3>1
  <2> QED
    BY <1>6, <2>2, <2>3 DEF Child
<1>7. CASE (\E c \in Clients : Client(c)) \/ UNCHANGED vars
  BY <1>7 DEF Client, Connect, Ask, HangUp, childVars, vars
<1> QED
  BY <1>1, <1>2, <1>3, <1>4, <1>5, <1>6, <1>7 DEF Next, Daemon, Moves

LEMMA PidsKept ==
  ASSUME TypeOK, Serving, [Next]_vars
  PROVE  RequestFork \/ SamePids
<1>1. CASE Moves \/ Others \/ UNCHANGED vars \/ LockSet \/ TellChild
  <2>1. client' = client
    BY <1>1, MovesEffect, OthersEffect DEF LockSet, TellChild, vars, daemonVars
  <2> QED
    BY <2>1 DEF SamePids
<1>2. CASE SelectAccept
  <2>1. PICK c \in Calling : client_add(c)
    BY <1>2 DEF SelectAccept
  <2> DEFINE i == Min({j \in Slots : client[j].fd = NoClient})
  <2>2. client' = [client EXCEPT ![i].fd = c]
    BY <2>1 DEF client_add
  <2> HIDE DEF i
  <2> QED
    BY <2>2 DEF TypeOK, ClientEntry, SamePids
<1>3. CASE ScanEOF
  BY <1>3, ScanEOFEffect, FreedEntry
<1>4. CASE ScanData
  BY <1>4, ScanDataEffect, AskedEffect
<1>5. CASE DoneSuccess
  BY <1>5, SuccessEffect, MarkedEntry
<1>6. CASE DoneRetry
  BY <1>6, RetryEffect, MarkedEntry
<1>7. CASE RequestFail
  <2>1. CASE hup[client[idx].fd]
    BY <1>7, <2>1 DEF RequestFail, SamePids
  <2>2. CASE ~hup[client[idx].fd]
    BY <1>7, <2>2, FailEntries
  <2> QED
    BY <2>1, <2>2
<1>8. CASE sig_chld
  BY <1>8, SigEntries
<1> QED
  BY <1>1, <1>2, <1>3, <1>4, <1>5, <1>6, <1>7, <1>8 DEF Next, Daemon, Moves, Others

LEMMA PidsOwnKept ==
  ASSUME TypeOK, Serving, PidsOwn, [Next]_vars
  PROVE  PidsOwn'
<1>1. CASE RequestFork
  <2>1. /\ idx \in Slots /\ OnlyEntry(idx) /\ client'[idx].pid = npid + 1
    BY <1>1, ForkEntries DEF Serving, RequestFork
  <2>2. npid \in Nat /\ npid' = npid + 1
    BY <1>1 DEF TypeOK, RequestFork
  <2>3. \A i \in Slots : client[i].pid \in Nat /\ client[i].pid <= npid
    BY DEF TypeOK, ClientEntry, PidsOwn
  <2>4. \A i \in Slots : client'[i].pid <= npid'
    BY <2>1, <2>2, <2>3 DEF OnlyEntry
  <2>5. \A i, j \in Slots : client'[i].pid = client'[j].pid /\ client'[i].pid # 0 => i = j
    <3>1. \A i \in Slots \ {idx} : client'[i].pid # npid + 1
      BY <2>1, <2>2, <2>3 DEF OnlyEntry
    <3> QED
      BY <2>1, <3>1 DEF OnlyEntry, PidsOwn
  <2>6. npid + 1 \in Pids /\ \E k \in Entries :
          child' = [child EXCEPT ![npid + 1] = [st |-> "wait", cli |-> client[idx].fd, sys |-> k]]
    BY <1>1, ForkEffect
  <2>7. \A q \in Pids : q > npid' => child'[q] = NoChild
    BY <2>2, <2>6 DEF PidsOwn, TypeOK, Pids
  <2> QED
    BY <2>4, <2>5, <2>7 DEF PidsOwn
<1>2. CASE SamePids
  <2>1. CASE RequestFork
    BY <1>1, <2>1
  <2>2. CASE npid' = npid /\ child' = child
    BY <1>2, <2>2 DEF SamePids, PidsOwn
  <2>3. ASSUME NEW q \in Pids, npid' = npid, child[q].st # "none",
               \A p \in Pids \ {q} : child'[p] = child[p]
        PROVE  PidsOwn'
    <3>1. ~(q > npid)
      BY <2>3 DEF PidsOwn, NoChild
    <3>2. \A p \in Pids : p > npid' => child'[p] = NoChild
      BY <2>3, <3>1 DEF PidsOwn
    <3>3. /\ \A i \in Slots : client'[i].pid <= npid'
          /\ \A i, j \in Slots : client'[i].pid = client'[j].pid /\ client'[i].pid # 0 => i = j
      BY <1>2, <2>3 DEF SamePids, PidsOwn
    <3> QED
      BY <3>2, <3>3 DEF PidsOwn
  <2>4. \A q \in Pids :
          \/ child[q].st = "wait"
          \/ ChildSendfd(q) \/ ChildExit0(q) \/ ChildExit1(q) \/ ChildKilled(q)
          \/ q \in Zombies
          => child[q].st # "none"
    BY DEF ChildSendfd, ChildExit0, ChildExit1, ChildKilled, Zombies
  <2> QED
    BY <2>1, <2>2, <2>3, <2>4, ChildStep
<1> QED
  BY <1>1, <1>2, PidsKept

LEMMA ReturnsKept ==
  ASSUME TypeOK, Serving, PidsOwn, HandlerReturns, [Next]_vars
  PROVE  HandlerReturns'
<1>1. CASE child' = child /\ sigchld' = sigchld
  BY <1>1 DEF HandlerReturns, Zombies
<1>2. CASE sigchld' = FALSE
  BY <1>2 DEF HandlerReturns
<1>3. ASSUME NEW q \in Pids, child'[q].st \in {"exit0", "exit1", "killed"}
      PROVE  HandlerReturns'
  BY <1>3 DEF HandlerReturns, Zombies
<1>4. ASSUME NEW q \in Pids, q \notin Zombies, sigchld' = sigchld,
             \A p \in Pids \ {q} : child'[p] = child[p]
      PROVE  HandlerReturns'
  BY <1>4 DEF HandlerReturns, Zombies
<1>5. CASE RequestFork /\ npid + 1 \in Pids
  <2>1. npid + 1 \notin Zombies
    BY <1>5 DEF PidsOwn, TypeOK, NoChild, Zombies
  <2> QED
    BY <1>1, <1>4, <1>5, <2>1, ChildStep DEF RequestFork
<1>6. \A q \in Pids : (child[q].st = "wait" \/ ChildSendfd(q)) => q \notin Zombies
  BY DEF Zombies, ChildSendfd
<1> QED
  BY <1>1, <1>2, <1>3, <1>4, <1>5, <1>6, ChildStep

LEMMA InitTracked == Init => TrackInv /\ HandlerReturns
<1> SUFFICES ASSUME Init PROVE TrackInv /\ HandlerReturns
  OBVIOUS
<1>1. TypeOK
  BY InitTyping
<1>2. Serving
  BY DEF Init, Serving
<1>3. \A i \in Slots : client[i].fd = NoClient /\ client[i].pid = 0
  BY DEF Init
<1>4. PidsOwn
  BY <1>3 DEF Init, PidsOwn
<1>5. ClientsTracked
  BY <1>3 DEF Init, ClientsTracked
<1>6. HandlerReturns
  BY DEF Init, HandlerReturns
<1> QED
  BY <1>1, <1>2, <1>4, <1>5, <1>6 DEF TrackInv

LEMMA TrackedNext ==
  ASSUME TrackInv, HandlerReturns, [Next]_vars
  PROVE  TrackInv' /\ HandlerReturns'
<1>1. TypeOK /\ Serving /\ PidsOwn
  BY DEF TrackInv
<1>2. TypeOK' /\ Serving' /\ PidsOwn' /\ ClientsTracked'
  BY <1>1, NextTyping, ServingKept, PidsOwnKept, TrackedKept
<1>3. HandlerReturns'
  BY <1>1, ReturnsKept
<1> QED
  BY <1>2, <1>3 DEF TrackInv

LEMMA AlwaysTracked == Spec => [](TrackInv /\ HandlerReturns)
<1>1. (TrackInv /\ HandlerReturns) /\ [Next]_vars => (TrackInv /\ HandlerReturns)'
  BY TrackedNext
<1> QED
  BY <1>1, InitTracked, PTL DEF Spec

(* Every reachable state of the daemon is well typed.                      *)
THEOREM Typing == Spec => []TypeOK
<1>1. TrackInv /\ HandlerReturns => TypeOK
  BY DEF TrackInv
<1> QED
  BY <1>1, AlwaysTracked, PTL

(* client[], allset and the open stream pipes are one set in every         *)
(* behaviour, patient clients or not: client_add() and client_del() of     *)
(* client.c and the FD_SET() and FD_CLR() calls of loop.c and request.c    *)
(* never get out of step.                                                  *)
THEOREM TracksClients == Spec => []ClientsTracked
<1>1. TrackInv /\ HandlerReturns => ClientsTracked
  BY DEF TrackInv
<1> QED
  BY <1>1, AlwaysTracked, PTL

(* The SIGCHLD handler of sigchld.c finds a child to wait for whenever it  *)
(* runs: its waitpid(), which has no WNOHANG, never blocks the daemon.     *)
THEOREM ReturnsFromHandler == Spec => []HandlerReturns
BY AlwaysTracked, PTL

-----------------------------------------------------------------------------
(* The steps of patient clients: one lemma for each action.                *)
LEMMA Tracks == ASSUME TrackInv, [Next]_vars PROVE TrackInv'
<1>1. TypeOK /\ Serving /\ PidsOwn
  BY DEF TrackInv
<1>2. TypeOK' /\ Serving' /\ PidsOwn' /\ ClientsTracked'
  BY <1>1, NextTyping, ServingKept, PidsOwnKept, TrackedKept
<1> QED
  BY <1>2 DEF TrackInv

(* An entry in use is found by its fd or by its pid.                       *)
LEMMA OneEntry ==
  ASSUME TrackInv, NEW i \in Slots, NEW j \in Slots,
         \/ client[i].fd = client[j].fd /\ client[i].fd # NoClient
         \/ client[i].pid = client[j].pid /\ client[i].pid # 0
  PROVE  i = j
BY DEF TrackInv, ClientsTracked, PidsOwn

(* The owner of a child whose client still waits.                          *)
LEMMA OwnerOf ==
  ASSUME PatientInv, NEW q \in Pids, child[q].st \in Pending, NEW j \in Slots,
         client[j].pid = q \/ client[j].fd = child[q].cli
  PROVE  client[j].pid = q /\ client[j].fd = child[q].cli
<1>1. PICK i \in Slots : client[i].fd = child[q].cli /\ client[i].pid = q
  BY DEF PatientInv, PendingOwned
<1>2. child[q].cli \in Clients /\ q # 0
  BY DEF PatientInv, ChildrenRight, Pending, Pids
<1>3. i = j
  BY <1>1, <1>2, OneEntry, CalldAssumption DEF PatientInv
<1> QED
  BY <1>1, <1>3

LEMMA MovesKept == ASSUME PatientInv, TrackInv', Moves PROVE PatientInv'
<1>1. /\ UNCHANGED <<allset, client, lock, sigchld, child, npid, conn, sent, hup, got>>
      /\ dpc' \notin {"request", "lock", "tell"}
  BY MovesEffect DEF PatientInv, TrackInv
<1>2. \/ dpc' \notin {"scan", "done"}
      \/ DoneEnter /\ dpc' = "done" /\ back' = "done"
      \/ SelectScan /\ dpc' = "scan" /\ back' = "scan" /\ rset' = Readable
  BY DEF Moves, Check, SelectSleep, SelectScan, ScanEnd, DoneEnter, DoneEnd, RequestLost, Dies,
         PatientInv, TrackInv, TypeOK
<1>3. BackRight'
  BY <1>2 DEF BackRight
<1>4. ScanLeft'
  BY <1>1, <1>2 DEF ScanLeft, Readable
<1>5. ServedWaits' /\ RequestFree' /\ ForkedChild'
  BY <1>1 DEF ServedWaits, RequestFree, ForkedChild
<1>6. AnsweredRead' /\ PatientHup' /\ AskedOpen' /\ EntriesRight' /\ ChildrenRight' /\ PendingOwned'
  BY <1>1 DEF PatientInv, AnsweredRead, PatientHup, AskedOpen, EntriesRight, ChildrenRight,
              PendingOwned, Matching, LineOf, Waits
<1>7. FailedWait' /\ OwnersRead' /\ DialedIsLocked' /\ HoldersLock' /\ AnswerMatches'
  BY <1>1 DEF PatientInv, FailedWait, OwnersRead, DialedIsLocked, Dialing, HoldersLock,
              AnswerMatches, LineOf, Waits
<1> QED
  BY <1>3, <1>4, <1>5, <1>6, <1>7 DEF PatientInv

LEMMA AcceptKept == ASSUME PatientInv, TrackInv', SelectAccept PROVE PatientInv'
<1>1. TrackInv /\ TypeOK
  BY DEF PatientInv, TrackInv
<1>2. PICK c \in Clients, i \in Slots :
           /\ conn[c] = "queued" /\ client[i].fd = NoClient
           /\ client' = [client EXCEPT ![i].fd = c]
           /\ conn' = [conn EXCEPT ![c] = "open"]
  BY <1>1, AcceptEffect
<1>3. OnlyEntry(i) /\ SamePids /\ client'[i].fd = c /\ client'[i].childdone = client[i].childdone
  BY <1>1, <1>2, FreedEntry
<1>4. dpc' = "check" /\ UNCHANGED <<lock, child, npid, sent, hup, got>>
  BY DEF SelectAccept, childVars
<1>5. BackRight' /\ ScanLeft' /\ ServedWaits' /\ RequestFree' /\ ForkedChild'
  BY <1>4 DEF BackRight, ScanLeft, ServedWaits, RequestFree, ForkedChild
<1>6. AnsweredRead' /\ PatientHup' /\ ChildrenRight' /\ DialedIsLocked' /\ AnswerMatches'
  BY <1>4 DEF PatientInv, AnsweredRead, PatientHup, ChildrenRight, Matching, LineOf,
              DialedIsLocked, Dialing, AnswerMatches
<1>7. AskedOpen'
  BY <1>1, <1>2, <1>4 DEF PatientInv, AskedOpen, TypeOK
<1>8. sent[c] # "read"
  BY <1>2 DEF PatientInv, AskedOpen
<1>9. EntriesRight'
  BY <1>3, <1>4, <1>8 DEF PatientInv, EntriesRight, OnlyEntry, Matching
<1>10. PendingOwned'
  <2>1. \A q \in Pids : child[q].st \in Pending => child[q].cli # NoClient
    BY CalldAssumption DEF PatientInv, ChildrenRight, Pending
  <2> QED
    BY <1>2, <1>3, <1>4, <2>1 DEF PatientInv, PendingOwned, OnlyEntry, Waits
<1>11. FailedWait'
  BY <1>2, <1>3, <1>4 DEF PatientInv, FailedWait, OnlyEntry, Waits
<1>12. OwnersRead'
  BY <1>2, <1>3, <1>4 DEF PatientInv, OwnersRead, OnlyEntry
<1>13. HoldersLock'
  <2>1. ASSUME NEW d \in Clients, NEW j \in Slots, client[j].fd = d
        PROVE  client'[j].fd = d /\ client'[j].pid = client[j].pid
    BY <1>2, <1>3, <2>1, CalldAssumption DEF OnlyEntry
  <2> QED
    BY <1>4, <2>1 DEF PatientInv, HoldersLock
<1> QED
  BY <1>5, <1>6, <1>7, <1>9, <1>10, <1>11, <1>12, <1>13 DEF PatientInv

LEMMA ScanEOFKept == ASSUME PatientInv, TrackInv', ScanEOF PROVE PatientInv'
<1>1. TrackInv /\ TypeOK
  BY DEF PatientInv, TrackInv
<1>2. PICK i \in Slots :
           /\ i >= idx /\ client[i].fd \in rset /\ sent[client[i].fd] # "unread"
           /\ lock' = LockWithout(client[i].pid)
           /\ client' = [client EXCEPT ![i].fd = NoClient]
           /\ conn' = [conn EXCEPT ![client[i].fd] = "closed"]
           /\ idx' = i + 1
  BY <1>1, ScanEOFEffect
<1>3. /\ OnlyEntry(i) /\ SamePids /\ client'[i].fd = NoClient
      /\ client'[i].childdone = client[i].childdone
  BY <1>1, <1>2, FreedEntry
<1>4. dpc = "scan" /\ UNCHANGED <<dpc, back, rset, child, npid, sent, hup, got>>
  BY DEF ScanEOF, childVars
<1>5. client[i].fd \in Clients /\ client[i].fd # NoClient
  BY <1>1, <1>2, CalldAssumption DEF TypeOK
<1>6. hup[client[i].fd] /\ ~Waits(client[i].fd)
  <2>1. hup[client[i].fd]
    BY <1>2, <1>4 DEF PatientInv, ScanLeft
  <2> QED
    BY <1>5, <2>1 DEF PatientInv, PatientHup, Waits
<1>7. BackRight' /\ ServedWaits' /\ RequestFree' /\ ForkedChild'
  BY <1>4 DEF PatientInv, BackRight, ServedWaits, RequestFree, ForkedChild
<1>8. AnsweredRead' /\ PatientHup' /\ ChildrenRight' /\ AnswerMatches'
  BY <1>4 DEF PatientInv, AnsweredRead, PatientHup, ChildrenRight, Matching, LineOf, AnswerMatches
<1>9. AskedOpen'
  BY <1>1, <1>2, <1>4 DEF PatientInv, AskedOpen, TypeOK
<1>10. ScanLeft'
  <2>1. i \in Nat /\ idx \in Nat /\ Slots \subseteq Nat
    BY <1>1, SlotsFinite DEF TypeOK
  <2>2. \A j \in Slots : j >= idx' => j # i /\ j >= idx
    BY <1>2, <2>1
  <2> QED
    BY <1>3, <1>4, <2>2 DEF PatientInv, ScanLeft, OnlyEntry
<1>11. EntriesRight'
  BY <1>3, <1>4 DEF PatientInv, EntriesRight, OnlyEntry, Matching
<1>12. PendingOwned'
  BY <1>3, <1>4, <1>6 DEF PatientInv, PendingOwned, OnlyEntry, Waits
<1>13. FailedWait'
  BY <1>3, <1>4, <1>6 DEF PatientInv, FailedWait, OnlyEntry, Waits
<1>14. OwnersRead'
  <2>1. ASSUME NEW l \in Lines, lock'[l] # 0
        PROVE  lock'[l] = lock[l] /\ lock[l] # client[i].pid
    BY <1>2, <2>1 DEF LockWithout
  <2> QED
    BY <1>2, <1>3, <1>4, <2>1 DEF PatientInv, OwnersRead, OnlyEntry
<1>15. DialedIsLocked'
  <2>1. ASSUME NEW l \in Lines, NEW q \in Dialing(l) PROVE lock'[l] = q
    <3>1. q \in Pids /\ child[q].st \in Pending /\ lock[l] = q
      BY DEF PatientInv, DialedIsLocked, Dialing, Pending
    <3>2. client[i].pid # q
      BY <1>6, <3>1, OwnerOf DEF PatientInv, PendingOwned
    <3> QED
      BY <1>2, <3>1, <3>2 DEF LockWithout
  <2>2. \A l \in Lines : Dialing(l)' = Dialing(l)
    BY <1>4 DEF Dialing, LineOf
  <2> QED
    BY <2>1, <2>2 DEF DialedIsLocked
<1>16. HoldersLock'
  <2>1. ASSUME NEW c \in Clients, got[c].kind = "fd", ~hup[c]
        PROVE  /\ got[c].sys \in Entries /\ Systems[got[c].sys].line \in Lines
               /\ \E j \in Slots : client'[j].fd = c /\ client'[j].pid \in Pids /\
                                   lock'[Systems[got[c].sys].line] = client'[j].pid
    <3>1. PICK j \in Slots : client[j].fd = c /\ client[j].pid \in Pids /\
                             lock[Systems[got[c].sys].line] = client[j].pid
      BY <2>1 DEF PatientInv, HoldersLock
    <3>2. j # i
      BY <1>6, <2>1, <3>1
    <3>3. client[j].pid # 0 /\ client[j].pid # client[i].pid
      BY <1>1, <3>1, <3>2, OneEntry DEF Pids
    <3>4. client'[j].fd = c /\ client'[j].pid = client[j].pid
      BY <1>3, <3>1, <3>2 DEF OnlyEntry
    <3>5. got[c].sys \in Entries /\ Systems[got[c].sys].line \in Lines
      BY <2>1 DEF PatientInv, HoldersLock
    <3> QED
      BY <1>2, <3>1, <3>3, <3>4, <3>5 DEF LockWithout
  <2> QED
    BY <1>4, <2>1 DEF HoldersLock
<1> QED
  BY <1>7, <1>8, <1>9, <1>10, <1>11, <1>12, <1>13, <1>14, <1>15, <1>16 DEF PatientInv

LEMMA ScanDataKept == ASSUME PatientInv, TrackInv', ScanData PROVE PatientInv'
<1>1. TrackInv /\ TypeOK
  BY DEF PatientInv, TrackInv
<1>2. PICK i \in Slots :
           /\ i >= idx /\ client[i].fd \in rset /\ sent[client[i].fd] = "unread"
           /\ sent' = [sent EXCEPT ![client[i].fd] = "read"]
           /\ client' = [client EXCEPT ![i] =
                [client[i] EXCEPT !.want = Want[client[i].fd], !.childdone = 0, !.sysftell = 0,
                                  !.foundone = FALSE]]
           /\ idx' = i
  BY <1>1, ScanDataEffect
<1>3. /\ OnlyEntry(i) /\ SameFds /\ SamePids
      /\ client'[i].want = Want[client[i].fd] /\ client'[i].childdone = 0
      /\ client'[i].sysftell = 0 /\ client'[i].foundone = FALSE
  BY <1>1, <1>2, AskedEffect
<1>4. /\ dpc = "scan" /\ dpc' = "request"
      /\ UNCHANGED <<back, rset, allset, lock, child, npid, conn, hup, got>>
  BY DEF ScanData, childVars
<1>5. client[i].fd \in Clients /\ client[i].fd # NoClient
  BY <1>1, <1>2, CalldAssumption DEF TypeOK
<1>6. /\ sent'[client[i].fd] = "read"
      /\ \A c \in Clients : c # client[i].fd => sent'[c] = sent[c]
      /\ \A c \in Clients : sent[c] = "read" => sent'[c] = "read"
  BY <1>1, <1>2, <1>5 DEF TypeOK
<1>7. \A j \in Slots : j # i => client[j].fd # client[i].fd
  BY <1>1, <1>5, OneEntry
<1>8. ~Waits(client[i].fd) /\ got[client[i].fd] = NoAnswer /\ sent[client[i].fd] # "read"
  BY <1>2, <1>5 DEF PatientInv, AnsweredRead, Waits
<1>9. BackRight'
  BY <1>4 DEF BackRight
<1>10. AnsweredRead' /\ PatientHup' /\ ChildrenRight' /\ AnswerMatches' /\ DialedIsLocked'
  BY <1>4, <1>6 DEF PatientInv, AnsweredRead, PatientHup, ChildrenRight, Matching, LineOf,
                    AnswerMatches, DialedIsLocked, Dialing
<1>11. AskedOpen'
  <2>1. conn[client[i].fd] = "open"
    BY <1>1, <1>5 DEF TrackInv, ClientsTracked
  <2> QED
    BY <1>4, <1>6, <2>1 DEF PatientInv, AskedOpen
<1>12. ScanLeft'
  <2>1. i \in Nat /\ idx \in Nat /\ Slots \subseteq Nat
    BY <1>1, SlotsFinite DEF TypeOK
  <2>2. \A j \in Slots : j > idx' => j # i /\ j >= idx
    BY <1>2, <2>1
  <2>3. \A j \in Slots : client[j].fd \in rset => client[j].fd \in Clients
    BY <1>1 DEF TypeOK
  <2> QED
    BY <1>3, <1>4, <1>6, <1>7, <2>2, <2>3 DEF PatientInv, ScanLeft, SameFds
<1>13. EntriesRight'
  <2>1. ASSUME NEW j \in Slots, client'[j].fd # NoClient, sent'[client'[j].fd] = "read"
        PROVE  /\ client'[j].want = Want[client'[j].fd]
               /\ IF client'[j].foundone THEN Matching(client'[j].fd) # {}
                  ELSE client'[j].sysftell = 0
    <3>1. CASE j = i
      BY <1>3, <3>1 DEF SameFds
    <3>2. CASE j # i
      <4>1. client[j].fd \in Clients /\ sent[client[j].fd] = "read" /\ client'[j] = client[j]
        BY <1>1, <1>3, <1>6, <1>7, <2>1, <3>2, FdOf DEF OnlyEntry
      <4> QED
        BY <2>1, <4>1 DEF PatientInv, EntriesRight
    <3> QED
      BY <3>1, <3>2
  <2> QED
    BY <2>1 DEF EntriesRight, Matching
<1>14. PendingOwned'
  <2>1. \A q \in Pids : child[q].st \in Pending => child[q].cli \in Clients
    BY DEF PatientInv, ChildrenRight, Pending
  <2> QED
    BY <1>3, <1>4, <1>6, <2>1 DEF PatientInv, PendingOwned, Waits, SameFds, SamePids
<1>15. FailedWait'
  <2>1. ASSUME NEW j \in Slots, client'[j].childdone = 2
        PROVE  /\ client'[j].fd # NoClient
               /\ sent'[client'[j].fd] = "read" /\ got'[client'[j].fd] = NoAnswer
               /\ client'[j].pid \in Pids /\ child'[client'[j].pid].st = "reaped"
    <3>1. client'[j] = client[j]
      BY <1>3, <2>1 DEF OnlyEntry
    <3>2. /\ client[j].fd # NoClient /\ Waits(client[j].fd)
          /\ client[j].pid \in Pids /\ child[client[j].pid].st = "reaped"
      BY <2>1, <3>1 DEF PatientInv, FailedWait
    <3>3. client[j].fd \in Clients
      BY <1>1, <3>2, FdOf
    <3>4. sent'[client'[j].fd] = "read" /\ got'[client'[j].fd] = NoAnswer
      BY <1>4, <1>6, <3>1, <3>2, <3>3 DEF Waits
    <3> QED
      BY <1>4, <3>1, <3>2, <3>4 DEF Waits
  <2> QED
    BY <2>1 DEF FailedWait, Waits
<1>16. ServedWaits'
  BY <1>2, <1>3, <1>4, <1>6, <1>8 DEF ServedWaits, Waits, SameFds
<1>17. RequestFree'
  <2>1. Unlocked(client[i].pid)
    <3>1. ASSUME NEW l \in Lines, client[i].pid # 0, lock[l] = client[i].pid PROVE FALSE
      <4>1. PICK j \in Slots : client[j].pid = lock[l] /\ sent[client[j].fd] = "read"
        BY <3>1 DEF PatientInv, OwnersRead
      <4>2. j = i
        BY <1>1, <3>1, <4>1, OneEntry
      <4> QED
        BY <1>8, <4>1, <4>2
    <3> QED
      BY <3>1 DEF Unlocked
  <2>2. Quiet(client[i].pid)
    <3>1. ASSUME client[i].pid \in Pids, child[client[i].pid].st \in Pending PROVE FALSE
      <4>1. client[i].fd = child[client[i].pid].cli
        BY <3>1, OwnerOf
      <4> QED
        BY <1>8, <3>1, <4>1 DEF PatientInv, PendingOwned
    <3> QED
      BY <3>1 DEF Quiet
  <2> QED
    BY <1>2, <1>3, <1>4, <2>1, <2>2 DEF RequestFree, Unlocked, Quiet, SamePids
<1>18. ForkedChild'
  BY <1>4 DEF ForkedChild
<1>19. OwnersRead'
  <2>1. ASSUME NEW j \in Slots, client[j].fd # NoClient, sent[client[j].fd] = "read"
        PROVE  sent'[client'[j].fd] = "read" /\ client'[j].fd # NoClient
    BY <1>1, <1>3, <1>6, <2>1, FdOf DEF SameFds
  <2> QED
    BY <1>3, <1>4, <2>1 DEF PatientInv, OwnersRead, SamePids
<1>20. HoldersLock'
  BY <1>3, <1>4 DEF PatientInv, HoldersLock, SameFds, SamePids
<1> QED
  BY <1>9, <1>10, <1>11, <1>12, <1>13, <1>14, <1>15, <1>16, <1>17, <1>18, <1>19, <1>20 DEF PatientInv

LEMMA SuccessKept == ASSUME PatientInv, TrackInv', DoneSuccess PROVE PatientInv'
<1>1. TrackInv /\ TypeOK
  BY DEF PatientInv, TrackInv
<1>2. PICK i \in Slots : client' = [client EXCEPT ![i].childdone = 0]
  BY <1>1, SuccessEffect
<1>3. /\ OnlyEntry(i) /\ SameFds /\ SamePids /\ client'[i].childdone = 0
      /\ client'[i].want = client[i].want /\ client'[i].sysftell = client[i].sysftell
      /\ client'[i].foundone = client[i].foundone
  BY <1>1, <1>2, MarkedEntry
<1>4. /\ dpc = "done" /\ UNCHANGED <<dpc, back, rset, lock, child, npid, conn, sent, hup, got>>
  BY DEF DoneSuccess, childVars, clientVars
<1>5. BackRight' /\ ScanLeft' /\ ServedWaits' /\ RequestFree' /\ ForkedChild'
  BY <1>4 DEF PatientInv, BackRight, ScanLeft, ServedWaits, RequestFree, ForkedChild
<1>6. AnsweredRead' /\ PatientHup' /\ AskedOpen' /\ ChildrenRight' /\ DialedIsLocked' /\ AnswerMatches'
  BY <1>4 DEF PatientInv, AnsweredRead, PatientHup, AskedOpen, ChildrenRight, Matching, LineOf,
              DialedIsLocked, Dialing, AnswerMatches
<1>7. PendingOwned' /\ OwnersRead' /\ HoldersLock'
  BY <1>3, <1>4 DEF PatientInv, PendingOwned, OwnersRead, HoldersLock, SameFds, SamePids, Waits
<1>8. EntriesRight'
  BY <1>3, <1>4 DEF PatientInv, EntriesRight, OnlyEntry, SameFds, Matching
<1>9. FailedWait'
  BY <1>3, <1>4 DEF PatientInv, FailedWait, OnlyEntry, Waits
<1> QED
  BY <1>5, <1>6, <1>7, <1>8, <1>9 DEF PatientInv

LEMMA RetryKept == ASSUME PatientInv, TrackInv', DoneRetry PROVE PatientInv'
<1>1. TrackInv /\ TypeOK
  BY DEF PatientInv, TrackInv
<1>2. PICK i \in Slots :
           /\ client[i].fd # NoClient /\ client[i].childdone = 2
           /\ client' = [client EXCEPT ![i].childdone = 0]
           /\ lock' = LockWithout(client[i].pid) /\ idx' = i
  BY <1>1, RetryEffect
<1>3. /\ OnlyEntry(i) /\ SameFds /\ SamePids /\ client'[i].childdone = 0
      /\ client'[i].want = client[i].want /\ client'[i].sysftell = client[i].sysftell
      /\ client'[i].foundone = client[i].foundone
  BY <1>1, <1>2, MarkedEntry
<1>4. /\ dpc = "done" /\ dpc' = "request" /\ back = "done"
      /\ UNCHANGED <<back, rset, child, npid, conn, sent, hup, got>>
  BY DEF DoneRetry, childVars, clientVars, PatientInv, BackRight
<1>5. /\ Waits(client[i].fd) /\ client[i].pid \in Pids
      /\ child[client[i].pid].st = "reaped"
  BY <1>2 DEF PatientInv, FailedWait
<1>6. \A l \in Lines : lock'[l] # client[i].pid /\ lock'[l] \in {0, lock[l]}
                       /\ (lock[l] # client[i].pid => lock'[l] = lock[l])
  BY <1>2, <1>5 DEF LockWithout, Pids
<1>7. BackRight' /\ ScanLeft' /\ ForkedChild'
  BY <1>4 DEF BackRight, ScanLeft, ForkedChild
<1>8. AnsweredRead' /\ PatientHup' /\ AskedOpen' /\ ChildrenRight' /\ AnswerMatches'
  BY <1>4 DEF PatientInv, AnsweredRead, PatientHup, AskedOpen, ChildrenRight, Matching, LineOf,
              AnswerMatches
<1>9. PendingOwned'
  BY <1>3, <1>4 DEF PatientInv, PendingOwned, SameFds, SamePids, Waits
<1>10. EntriesRight'
  BY <1>3, <1>4 DEF PatientInv, EntriesRight, OnlyEntry, SameFds, Matching
<1>11. FailedWait'
  BY <1>3, <1>4 DEF PatientInv, FailedWait, OnlyEntry, Waits
<1>12. ServedWaits'
  BY <1>2, <1>3, <1>4, <1>5 DEF ServedWaits, Waits, SameFds
<1>13. RequestFree'
  BY <1>2, <1>3, <1>4, <1>5, <1>6 DEF RequestFree, Unlocked, Quiet, Pending, SamePids
<1>14. OwnersRead'
  BY <1>3, <1>4, <1>6 DEF PatientInv, OwnersRead, SameFds, SamePids
<1>15. DialedIsLocked'
  <2>1. \A l \in Lines : \A q \in Dialing(l) : q # client[i].pid /\ lock[l] = q
    BY <1>5 DEF PatientInv, DialedIsLocked, Dialing
  <2> QED
    BY <1>4, <1>6, <2>1 DEF DialedIsLocked, Dialing, LineOf
<1>16. HoldersLock'
  <2>1. ASSUME NEW c \in Clients, got[c].kind = "fd", ~hup[c]
        PROVE  /\ got[c].sys \in Entries /\ Systems[got[c].sys].line \in Lines
               /\ \E j \in Slots : client'[j].fd = c /\ client'[j].pid \in Pids /\
                                   lock'[Systems[got[c].sys].line] = client'[j].pid
    <3>1. PICK j \in Slots : client[j].fd = c /\ client[j].pid \in Pids /\
                             lock[Systems[got[c].sys].line] = client[j].pid
      BY <2>1 DEF PatientInv, HoldersLock
    <3>2. j # i
      BY <1>5, <2>1, <3>1 DEF Waits, NoAnswer
    <3>3. client[j].pid # client[i].pid
      BY <1>1, <3>1, <3>2, OneEntry DEF Pids
    <3>4. got[c].sys \in Entries /\ Systems[got[c].sys].line \in Lines
      BY <2>1 DEF PatientInv, HoldersLock
    <3> QED
      BY <1>3, <1>6, <3>1, <3>3, <3>4 DEF SameFds, SamePids
  <2> QED
    BY <1>4, <2>1 DEF HoldersLock
<1> QED
  BY <1>7, <1>8, <1>9, <1>10, <1>11, <1>12, <1>13, <1>14, <1>15, <1>16 DEF PatientInv

LEMMA LockSetKept == ASSUME PatientInv, TrackInv', LockSet PROVE PatientInv'
<1>1. TrackInv /\ TypeOK
  BY DEF PatientInv, TrackInv
<1> DEFINE p == client[idx].pid
           line == LineOf(p)
<1>2. /\ dpc = "lock" /\ dpc' = "tell" /\ lock' = [lock EXCEPT ![line] = p]
      /\ UNCHANGED <<idx, back, rset, client, child, npid, conn, sent, hup, got>>
  BY DEF LockSet, childVars, clientVars
<1>3. /\ idx \in Slots /\ client[idx].fd # NoClient /\ Waits(client[idx].fd)
      /\ p \in Pids /\ child[p].st \in {"wait", "killed", "reaped"}
      /\ child[p].cli = client[idx].fd /\ lock[line] = 0
  BY <1>1, <1>2 DEF PatientInv, TrackInv, Serving, ServedWaits, ForkedChild
<1>4. line \in Lines
  BY <1>3 DEF PatientInv, ChildrenRight
<1>5. lock'[line] = p /\ \A l \in Lines : l # line => lock'[l] = lock[l]
  <2> HIDE DEF p, line
  <2> QED
    BY <1>1, <1>2, <1>4 DEF TypeOK
<1>6. BackRight' /\ ScanLeft' /\ ServedWaits' /\ RequestFree'
  BY <1>2 DEF PatientInv, BackRight, ScanLeft, ServedWaits, RequestFree, Waits
<1>7. AnsweredRead' /\ PatientHup' /\ AskedOpen' /\ ChildrenRight' /\ AnswerMatches'
  BY <1>2 DEF PatientInv, AnsweredRead, PatientHup, AskedOpen, ChildrenRight, Matching, LineOf,
              AnswerMatches
<1>8. PendingOwned' /\ EntriesRight' /\ FailedWait'
  BY <1>2 DEF PatientInv, PendingOwned, EntriesRight, FailedWait, Matching, Waits
<1>9. ForkedChild'
  BY <1>2, <1>3, <1>5 DEF ForkedChild, LineOf
<1>10. OwnersRead'
  <2>1. ASSUME NEW l \in Lines, lock'[l] # 0
        PROVE  \E i \in Slots : /\ client[i].pid = lock'[l] /\ client[i].fd # NoClient
                                /\ sent[client[i].fd] = "read"
    <3>1. CASE l = line
      BY <1>3, <1>5, <3>1 DEF Waits
    <3>2. CASE l # line
      BY <1>5, <2>1, <3>2 DEF PatientInv, OwnersRead
    <3> QED
      BY <3>1, <3>2
  <2> QED
    BY <1>2, <2>1 DEF OwnersRead
<1>11. DialedIsLocked'
  <2>1. \A l \in Lines : \A q \in Dialing(l) : lock[l] = q /\ q # 0
    BY DEF PatientInv, DialedIsLocked, Dialing, Pids
  <2>2. \A l \in Lines : \A q \in Dialing(l) : lock'[l] = q
    BY <1>3, <1>5, <2>1
  <2> QED
    BY <1>2, <2>2 DEF DialedIsLocked, Dialing, LineOf
<1>12. HoldersLock'
  <2>1. ASSUME NEW c \in Clients, got[c].kind = "fd", ~hup[c]
        PROVE  /\ got[c].sys \in Entries /\ Systems[got[c].sys].line \in Lines
               /\ \E j \in Slots : client[j].fd = c /\ client[j].pid \in Pids /\
                                   lock'[Systems[got[c].sys].line] = client[j].pid
    <3>1. PICK j \in Slots : client[j].fd = c /\ client[j].pid \in Pids /\
                             lock[Systems[got[c].sys].line] = client[j].pid
      BY <2>1 DEF PatientInv, HoldersLock
    <3>2. got[c].sys \in Entries /\ Systems[got[c].sys].line \in Lines
      BY <2>1 DEF PatientInv, HoldersLock
    <3>3. Systems[got[c].sys].line # line
      BY <1>3, <3>1 DEF Pids
    <3> QED
      BY <1>5, <3>1, <3>2, <3>3
  <2> QED
    BY <1>2, <2>1 DEF HoldersLock
<1> QED
  BY <1>6, <1>7, <1>8, <1>9, <1>10, <1>11, <1>12 DEF PatientInv

LEMMA TellKept == ASSUME PatientInv, TrackInv', TellChild PROVE PatientInv'
<1>1. TrackInv /\ TypeOK /\ Serving /\ PidsOwn
  BY DEF PatientInv, TrackInv
<1> DEFINE p == client[idx].pid
<1>2. /\ dpc = "tell" /\ dpc' = back /\ idx' = idx + 1
      /\ child' = [child EXCEPT ![p].st = IF @ = "wait" THEN "dial" ELSE @]
      /\ UNCHANGED <<back, rset, client, lock, npid, conn, sent, hup, got>>
  BY DEF TellChild, clientVars
<1>3. p \in Pids /\ child[p].st \in {"wait", "killed", "reaped"} /\ lock[LineOf(p)] = p
  BY <1>2 DEF PatientInv, ForkedChild
<1>4. /\ \A q \in Pids \ {p} : child'[q] = child[q]
      /\ child'[p].cli = child[p].cli /\ child'[p].sys = child[p].sys
      /\ child'[p].st = IF child[p].st = "wait" THEN "dial" ELSE child[p].st
  <2> HIDE DEF p
  <2> QED
    BY <1>1, <1>2, <1>3 DEF TypeOK
<1>5. \A q \in Pids : /\ child'[q].cli = child[q].cli /\ child'[q].sys = child[q].sys
                      /\ child'[q].st # "none" => child[q].st # "none"
                      /\ child'[q].st \in Pending => child[q].st \in Pending
                      /\ child[q].st = "reaped" => child'[q].st = "reaped"
                      /\ child'[q].st = "dial" /\ q # p => child[q].st = "dial"
  BY <1>3, <1>4 DEF Pending
<1>6. dpc' \in {"scan", "done"}
  BY <1>1, <1>2 DEF TypeOK
<1>7. BackRight' /\ ServedWaits' /\ RequestFree' /\ ForkedChild'
  BY <1>2, <1>6 DEF BackRight, ServedWaits, RequestFree, ForkedChild
<1>8. ScanLeft'
  <2>1. idx \in Nat /\ Slots \subseteq Nat
    BY <1>1, SlotsFinite DEF TypeOK
  <2>2. \A j \in Slots : j >= idx' => j > idx
    BY <1>2, <2>1
  <2> QED
    BY <1>2, <1>6, <2>2 DEF PatientInv, ScanLeft
<1>9. AnsweredRead' /\ PatientHup' /\ AskedOpen' /\ AnswerMatches' /\ EntriesRight' /\ OwnersRead'
      /\ HoldersLock'
  BY <1>2 DEF PatientInv, AnsweredRead, PatientHup, AskedOpen, Matching, AnswerMatches,
              EntriesRight, OwnersRead, HoldersLock
<1>10. ChildrenRight'
  BY <1>5 DEF PatientInv, ChildrenRight, Matching, LineOf
<1>11. PendingOwned'
  BY <1>2, <1>5 DEF PatientInv, PendingOwned, Waits
<1>12. FailedWait'
  BY <1>2, <1>5 DEF PatientInv, FailedWait, Waits
<1>13. DialedIsLocked'
  <2>1. ASSUME NEW l \in Lines, NEW q \in Pids, child'[q].st = "dial", LineOf(q) = l
        PROVE  lock[l] = q
    <3>1. CASE q = p
      BY <1>3, <2>1, <3>1
    <3>2. CASE q # p
      BY <1>5, <2>1, <3>2 DEF PatientInv, DialedIsLocked, Dialing
    <3> QED
      BY <3>1, <3>2
  <2>2. \A q \in Pids : LineOf(q)' = LineOf(q)
    BY <1>5 DEF LineOf
  <2> QED
    BY <1>2, <2>1, <2>2 DEF DialedIsLocked, Dialing
<1> QED
  BY <1>7, <1>8, <1>9, <1>10, <1>11, <1>12, <1>13 DEF PatientInv

LEMMA ExitKept ==
  ASSUME PatientInv, TrackInv', NEW q \in Pids, ChildExit0(q) \/ ChildExit1(q) \/ ChildKilled(q)
  PROVE  PatientInv'
<1>1. TrackInv /\ TypeOK /\ Serving /\ PidsOwn
  BY DEF PatientInv, TrackInv
<1>2. PICK st \in {"exit0", "exit1", "killed"} :
        /\ child[q].st \in {"wait", "dial", "sent"} /\ child' = [child EXCEPT ![q].st = st]
        /\ st = "exit1" => child[q].st = "dial"
        /\ child[q].st = "wait" => st = "killed"
  BY DEF ChildExit0, ChildExit1, ChildKilled, ChildTo
<1>3. UNCHANGED <<dpc, idx, back, rset, client, lock, npid, conn, sent, hup, got>>
  BY DEF ChildExit0, ChildExit1, ChildKilled, ChildTo, clientVars, daemonVars
<1>4. /\ \A r \in Pids \ {q} : child'[r] = child[r]
      /\ child'[q].cli = child[q].cli /\ child'[q].sys = child[q].sys /\ child'[q].st = st
  BY <1>1, <1>2 DEF TypeOK
<1>5. \A r \in Pids : /\ child'[r].cli = child[r].cli /\ child'[r].sys = child[r].sys
                      /\ child'[r].st # "none" => child[r].st # "none"
                      /\ child'[r].st \in Pending => child[r].st \in Pending
                      /\ child[r].st = "reaped" => child'[r].st = "reaped"
                      /\ child'[r].st = "dial" => child[r].st = "dial"
                      /\ child[r].st \in {"wait", "killed", "reaped"} =>
                           child'[r].st \in {"wait", "killed", "reaped"}
  <2>1. child'[q].st \in Pending => child[q].st \in Pending
    BY <1>2, <1>4 DEF Pending
  <2>2. child[q].st = "wait" => child'[q].st \in {"wait", "killed", "reaped"}
    BY <1>2, <1>4
  <2> QED
    BY <1>2, <1>4, <2>1, <2>2
<1>6. BackRight' /\ ScanLeft' /\ ServedWaits'
  BY <1>3 DEF PatientInv, BackRight, ScanLeft, ServedWaits, Waits
<1>7. RequestFree' /\ ForkedChild'
  BY <1>3, <1>5 DEF PatientInv, RequestFree, ForkedChild, Unlocked, Quiet, LineOf
<1>8. AnsweredRead' /\ PatientHup' /\ AskedOpen' /\ AnswerMatches' /\ EntriesRight' /\ OwnersRead'
      /\ HoldersLock'
  BY <1>3 DEF PatientInv, AnsweredRead, PatientHup, AskedOpen, Matching, AnswerMatches,
              EntriesRight, OwnersRead, HoldersLock
<1>9. ChildrenRight'
  BY <1>5 DEF PatientInv, ChildrenRight, Matching, LineOf
<1>10. PendingOwned'
  BY <1>3, <1>5 DEF PatientInv, PendingOwned, Waits
<1>11. FailedWait'
  BY <1>3, <1>5 DEF PatientInv, FailedWait, Waits
<1>12. DialedIsLocked'
  BY <1>3, <1>5 DEF PatientInv, DialedIsLocked, Dialing, LineOf
<1> QED
  BY <1>6, <1>7, <1>8, <1>9, <1>10, <1>11, <1>12 DEF PatientInv

LEMMA SigKept == ASSUME PatientInv, TrackInv', sig_chld PROVE PatientInv'
<1>1. TrackInv /\ TypeOK /\ Serving /\ PidsOwn
  BY DEF PatientInv, TrackInv
<1>2. PICK q \in Zombies :
           /\ child' = [child EXCEPT ![q].st = "reaped"]
           /\ \/ client' = client
              \/ \E i \in Slots :
                   /\ client[i].pid = q /\ child[q].st # "killed"
                   /\ client' = [client EXCEPT ![i].childdone = StatusOf(q)]
           /\ dpc' \in {dpc, "dead"} \/ (dpc = "asleep" /\ dpc' = "enter")
  BY <1>1, SigEffect
<1>3. q \in Pids /\ q # 0 /\ child[q].st \in {"exit0", "exit1", "killed"}
  BY DEF Zombies, Pids
<1>4. UNCHANGED <<idx, back, rset, lock, npid, conn, sent, hup, got>>
  BY DEF sig_chld, clientVars
<1>5. /\ SameFds /\ SamePids
      /\ \A i \in Slots : /\ client'[i].want = client[i].want
                          /\ client'[i].sysftell = client[i].sysftell
                          /\ client'[i].foundone = client[i].foundone
  BY <1>1, SigEntries
<1>6. /\ \A r \in Pids \ {q} : child'[r] = child[r]
      /\ child'[q].cli = child[q].cli /\ child'[q].sys = child[q].sys /\ child'[q].st = "reaped"
  BY <1>1, <1>2, <1>3 DEF TypeOK
<1>7. \A r \in Pids : /\ child'[r].cli = child[r].cli /\ child'[r].sys = child[r].sys
                      /\ child'[r].st # "none" => child[r].st # "none"
                      /\ child'[r].st \in Pending => child[r].st \in Pending
                      /\ child[r].st = "reaped" => child'[r].st = "reaped"
                      /\ child'[r].st = "dial" => child[r].st = "dial"
                      /\ child[r].st \in {"wait", "killed", "reaped"} =>
                           child'[r].st \in {"wait", "killed", "reaped"}
  BY <1>3, <1>6 DEF Pending
(* Only an entry whose child exits with status 1 becomes one to try again. *)
<1>8. ASSUME NEW i \in Slots, client'[i].childdone = 2, client[i].childdone # 2
      PROVE  client[i].pid = q /\ child[q].st = "exit1" /\ client[i].fd = child[q].cli
  <2>1. PICK j \in Slots : /\ client[j].pid = q /\ child[q].st # "killed"
                           /\ client' = [client EXCEPT ![j].childdone = StatusOf(q)]
    BY <1>2, <1>8
  <2>2. OnlyEntry(j) /\ client'[j].childdone = StatusOf(q)
    BY <1>1, <2>1, MarkedEntry
  <2>3. i = j /\ StatusOf(q) = 2
    BY <1>8, <2>2 DEF OnlyEntry
  <2>4. child[q].st = "exit1"
    BY <1>3, <2>1, <2>3 DEF StatusOf
  <2>5. client[i].fd = child[q].cli
    BY <1>3, <2>1, <2>3, <2>4, OwnerOf DEF Pending
  <2> QED
    BY <2>1, <2>3, <2>4, <2>5
<1>9. BackRight' /\ ScanLeft'
  BY <1>2, <1>4, <1>5 DEF PatientInv, BackRight, ScanLeft, SameFds
<1>10. ServedWaits' /\ RequestFree' /\ ForkedChild'
  <2>1. CASE dpc' \in {"request", "lock", "tell"}
    <3>1. dpc' = dpc /\ idx \in Slots
      BY <1>1, <1>2, <2>1 DEF Serving
    <3>2. client'[idx].childdone # 2
      <4>1. ASSUME client[idx].pid = q PROVE child[q].st # "exit1"
        <5>1. CASE dpc = "request"
          BY <1>3, <4>1, <5>1 DEF PatientInv, RequestFree, Quiet, Pending
        <5>2. CASE dpc \in {"lock", "tell"}
          BY <4>1, <5>2 DEF PatientInv, ForkedChild
        <5> QED
          BY <2>1, <3>1, <5>1, <5>2
      <4>2. client[idx].childdone # 2
        BY <2>1, <3>1 DEF PatientInv, ServedWaits
      <4> QED
        BY <1>8, <3>1, <4>1, <4>2
    <3>3. ServedWaits'
      BY <1>4, <1>5, <2>1, <3>1, <3>2 DEF PatientInv, ServedWaits, Waits, SameFds
    <3>4. RequestFree'
      BY <1>4, <1>5, <1>7, <3>1 DEF PatientInv, RequestFree, Unlocked, Quiet, SamePids
    <3>5. ForkedChild'
      <4>1. client'[idx].pid = client[idx].pid /\ client'[idx].fd = client[idx].fd
        BY <1>5, <3>1 DEF SameFds, SamePids
      <4> QED
        BY <1>4, <1>5, <1>7, <3>1, <4>1 DEF PatientInv, ForkedChild, Unlocked, LineOf
    <3> QED
      BY <3>3, <3>4, <3>5
  <2>2. CASE dpc' \notin {"request", "lock", "tell"}
    BY <2>2 DEF ServedWaits, RequestFree, ForkedChild
  <2> QED
    BY <2>1, <2>2
<1>11. AnsweredRead' /\ PatientHup' /\ AskedOpen' /\ AnswerMatches'
  BY <1>4 DEF PatientInv, AnsweredRead, PatientHup, AskedOpen, Matching, AnswerMatches
<1>12. EntriesRight' /\ OwnersRead' /\ HoldersLock'
  BY <1>4, <1>5 DEF PatientInv, EntriesRight, OwnersRead, HoldersLock, Matching, SameFds, SamePids
<1>13. ChildrenRight'
  BY <1>7 DEF PatientInv, ChildrenRight, Matching, LineOf
<1>14. PendingOwned'
  BY <1>4, <1>5, <1>7 DEF PatientInv, PendingOwned, Waits, SameFds, SamePids
<1>15. FailedWait'
  <2>1. ASSUME NEW i \in Slots, client'[i].childdone = 2
        PROVE  /\ client[i].fd # NoClient /\ Waits(client[i].fd)
               /\ client[i].pid \in Pids /\ child'[client[i].pid].st = "reaped"
    <3>1. CASE client[i].childdone = 2
      BY <1>7, <3>1 DEF PatientInv, FailedWait
    <3>2. CASE client[i].childdone # 2
      <4>1. client[i].pid = q /\ child[q].st \in Pending /\ client[i].fd = child[q].cli
        BY <1>8, <2>1, <3>2 DEF Pending
      <4>2. Waits(child[q].cli) /\ child[q].cli \in Clients
        BY <1>3, <4>1 DEF PatientInv, PendingOwned, ChildrenRight, Pending
      <4> QED
        BY <1>3, <1>6, <4>1, <4>2, CalldAssumption
    <3> QED
      BY <3>1, <3>2
  <2> QED
    BY <1>4, <1>5, <2>1 DEF FailedWait, Waits, SameFds, SamePids
<1>16. DialedIsLocked'
  BY <1>4, <1>7 DEF PatientInv, DialedIsLocked, Dialing, LineOf
<1> QED
  BY <1>9, <1>10, <1>11, <1>12, <1>13, <1>14, <1>15, <1>16 DEF PatientInv

LEMMA ForkKept == ASSUME PatientInv, TrackInv', RequestFork PROVE PatientInv'
<1>1. TrackInv /\ TypeOK /\ Serving /\ PidsOwn
  BY DEF PatientInv, TrackInv
<1>2. PICK k \in Entries :
           /\ idx \in Slots /\ k \in Ahead(client[idx]) /\ npid + 1 \in Pids
           /\ Systems[k].line \in Lines /\ lock[Systems[k].line] = 0
           /\ child' = [child EXCEPT ![npid + 1] =
                [st |-> "wait", cli |-> client[idx].fd, sys |-> k]]
  BY <1>1, ForkEffect
<1> DEFINE n == npid + 1
           c == client[idx].fd
<1>3. /\ SameFds /\ OnlyEntry(idx) /\ client'[idx].pid = n
      /\ client'[idx].want = client[idx].want /\ client'[idx].foundone = TRUE
      /\ client'[idx].childdone = client[idx].childdone
  BY <1>1, ForkEntries
<1>4. /\ dpc = "request" /\ dpc' = "lock"
      /\ UNCHANGED <<idx, back, rset, lock, conn, sent, hup, got>>
  BY DEF RequestFork, clientVars
<1>5. /\ c \in Clients /\ c # NoClient /\ Waits(c) /\ client[idx].childdone # 2
      /\ Unlocked(client[idx].pid) /\ Quiet(client[idx].pid)
  BY <1>1, <1>4, FdOf DEF PatientInv, Serving, ServedWaits, RequestFree
<1>6. n \in Pids /\ n # 0 /\ child[n] = NoChild /\ \A i \in Slots : client[i].pid # n
  BY <1>1, <1>2 DEF PidsOwn, TypeOK, ClientEntry, Pids
<1>7. /\ child'[n].st = "wait" /\ child'[n].cli = c /\ child'[n].sys = k
      /\ \A q \in Pids \ {n} : child'[q] = child[q]
  BY <1>1, <1>2, <1>6 DEF TypeOK
<1>8. k \in Matching(c)
  BY <1>2, <1>5 DEF PatientInv, EntriesRight, Waits, Ahead, Matching
<1>9. BackRight' /\ AnsweredRead' /\ PatientHup' /\ AskedOpen' /\ AnswerMatches'
  BY <1>4 DEF PatientInv, BackRight, AnsweredRead, PatientHup, AskedOpen, Matching, AnswerMatches
<1>10. ScanLeft'
  BY <1>3, <1>4 DEF PatientInv, ScanLeft, SameFds
<1>11. EntriesRight'
  <2>1. /\ client'[idx].fd = c /\ client'[idx].want = client[idx].want /\ client'[idx].foundone
        /\ Matching(c) # {}
    BY <1>2, <1>3, <1>8 DEF SameFds
  <2>2. client[idx].want = Want[c]
    BY <1>2, <1>5 DEF PatientInv, EntriesRight, Waits
  <2>3. \A i \in Slots \ {idx} : client'[i] = client[i]
    BY <1>3 DEF OnlyEntry
  <2> HIDE DEF c
  <2> QED
    BY <1>4, <2>1, <2>2, <2>3 DEF PatientInv, EntriesRight, Matching
<1>12. ChildrenRight'
  <2>1. ASSUME NEW q \in Pids, child'[q].st # "none"
        PROVE  /\ child'[q].cli \in Clients /\ child'[q].sys \in Matching(child'[q].cli)
               /\ Systems[child'[q].sys].line \in Lines
    <3>1. CASE q = n
      BY <1>2, <1>5, <1>7, <1>8, <3>1
    <3>2. CASE q # n
      BY <1>7, <2>1, <3>2 DEF PatientInv, ChildrenRight, LineOf
    <3> QED
      BY <3>1, <3>2
  <2> QED
    BY <2>1 DEF ChildrenRight, Matching, LineOf
<1>13. PendingOwned'
  <2>1. ASSUME NEW q \in Pids, child'[q].st \in Pending
        PROVE  /\ Waits(child'[q].cli)
               /\ \E i \in Slots : client'[i].fd = child'[q].cli /\ client'[i].pid = q
    <3>1. CASE q = n
      BY <1>2, <1>3, <1>5, <1>7, <3>1 DEF SameFds
    <3>2. CASE q # n
      <4>1. child[q].st \in Pending /\ child'[q] = child[q]
        BY <1>7, <2>1, <3>2
      <4>2. PICK i \in Slots : client[i].fd = child[q].cli /\ client[i].pid = q
        BY <4>1 DEF PatientInv, PendingOwned
      <4>3. i # idx
        BY <1>5, <4>1, <4>2 DEF Quiet
      <4> QED
        BY <1>3, <4>1, <4>2, <4>3 DEF PatientInv, PendingOwned, OnlyEntry
    <3> QED
      BY <3>1, <3>2
  <2> QED
    BY <1>4, <2>1 DEF PendingOwned, Waits
<1>14. FailedWait'
  <2>1. ASSUME NEW i \in Slots, client'[i].childdone = 2
        PROVE  /\ client'[i] = client[i] /\ client[i].fd # NoClient /\ Waits(client[i].fd)
               /\ client[i].pid \in Pids /\ child'[client[i].pid].st = "reaped"
    <3>1. i # idx
      BY <1>3, <1>5, <2>1
    <3>2. client'[i] = client[i]
      BY <1>3, <3>1 DEF OnlyEntry
    <3> QED
      BY <1>6, <1>7, <2>1, <3>2 DEF PatientInv, FailedWait
  <2> QED
    BY <1>4, <2>1 DEF FailedWait, Waits
<1>15. ServedWaits'
  BY <1>2, <1>3, <1>4, <1>5 DEF ServedWaits, Waits, SameFds
<1>16. RequestFree'
  BY <1>4 DEF RequestFree
<1>17. ForkedChild'
  <2>1. \A l \in Lines : lock[l] # n
    BY <1>6 DEF PatientInv, OwnersRead
  <2>2. client'[idx].fd = c
    BY <1>2, <1>3 DEF SameFds
  <2>3. lock'[Systems[child'[n].sys].line] = 0
    BY <1>2, <1>4, <1>7
  <2> QED
    BY <1>3, <1>4, <1>6, <1>7, <2>1, <2>2, <2>3 DEF ForkedChild, Unlocked, LineOf
<1>18. OwnersRead'
  <2>1. ASSUME NEW l \in Lines, lock[l] # 0
        PROVE  \E i \in Slots : /\ client'[i].pid = lock[l] /\ client'[i].fd # NoClient
                                /\ sent[client'[i].fd] = "read"
    <3>1. PICK i \in Slots : /\ client[i].pid = lock[l] /\ client[i].fd # NoClient
                             /\ sent[client[i].fd] = "read"
      BY <2>1 DEF PatientInv, OwnersRead
    <3>2. i # idx
      BY <1>5, <2>1, <3>1 DEF Unlocked
    <3> QED
      BY <1>3, <3>1, <3>2 DEF OnlyEntry
  <2> QED
    BY <1>4, <2>1 DEF OwnersRead
<1>19. DialedIsLocked'
  <2>1. \A l \in Lines : Dialing(l)' \subseteq Dialing(l)
    BY <1>6, <1>7 DEF Dialing, LineOf
  <2> QED
    BY <1>4, <2>1 DEF PatientInv, DialedIsLocked
<1>20. HoldersLock'
  <2>1. ASSUME NEW d \in Clients, got[d].kind = "fd", ~hup[d]
        PROVE  /\ got[d].sys \in Entries /\ Systems[got[d].sys].line \in Lines
               /\ \E j \in Slots : client'[j].fd = d /\ client'[j].pid \in Pids /\
                                   lock[Systems[got[d].sys].line] = client'[j].pid
    <3>1. PICK j \in Slots : client[j].fd = d /\ client[j].pid \in Pids /\
                             lock[Systems[got[d].sys].line] = client[j].pid
      BY <2>1 DEF PatientInv, HoldersLock
    <3>2. j # idx
      BY <1>5, <2>1, <3>1 DEF Waits, NoAnswer
    <3>3. got[d].sys \in Entries /\ Systems[got[d].sys].line \in Lines
      BY <2>1 DEF PatientInv, HoldersLock
    <3> QED
      BY <1>3, <3>1, <3>2, <3>3 DEF OnlyEntry
  <2> QED
    BY <1>4, <2>1 DEF HoldersLock
<1> QED
  BY <1>9, <1>10, <1>11, <1>12, <1>13, <1>14, <1>15, <1>16, <1>17, <1>18, <1>19, <1>20
  DEF PatientInv

(* The error of a request that fails is one of request.c:49-54, and it     *)
(* tells whether an entry of the Systems file matched.                     *)
LEMMA ErrorRight ==
  ASSUME PatientInv, dpc = "request"
  PROVE  /\ ErrorOf(client[idx]) \in {"nodev", "locked", "unable", "notfound"}
         /\ IF ErrorOf(client[idx]) = "notfound" THEN Matching(client[idx].fd) = {}
            ELSE Matching(client[idx].fd) # {}
<1> DEFINE e == client[idx]
<1>1. idx \in Slots /\ e.fd \in Clients /\ e.foundone \in BOOLEAN /\ sent[e.fd] = "read"
      /\ e.fd # NoClient
  BY FdOf DEF PatientInv, TrackInv, Serving, ServedWaits, Waits, TypeOK, ClientEntry
<1>2. /\ e.want = Want[e.fd]
      /\ IF e.foundone THEN Matching(e.fd) # {} ELSE e.sysftell = 0
  BY <1>1 DEF PatientInv, EntriesRight
<1>3. Stops(e) \subseteq Ahead(e) /\ Ahead(e) \subseteq Matching(e.fd)
  BY <1>2 DEF Stops, Ahead, Matching
<1>4. Ahead(e) = {} /\ ~e.foundone => Matching(e.fd) = {}
  <2>1. \A k \in Entries : k > 0
    BY CalldAssumption DEF Entries
  <2> QED
    BY <1>2, <2>1 DEF Ahead, Matching
<1>5. CASE Stops(e) # {}
  BY <1>3, <1>5 DEF ErrorOf
<1>6. CASE Stops(e) = {} /\ Ahead(e) # {}
  BY <1>3, <1>6 DEF ErrorOf
<1>7. CASE Ahead(e) = {} /\ e.foundone
  BY <1>2, <1>3, <1>7 DEF ErrorOf
<1>8. CASE Ahead(e) = {} /\ ~e.foundone
  BY <1>3, <1>4, <1>8 DEF ErrorOf
<1> QED
  BY <1>1, <1>3, <1>5, <1>6, <1>7, <1>8

LEMMA FailKept == ASSUME PatientInv, TrackInv', RequestFail PROVE PatientInv'
<1>1. TrackInv /\ TypeOK /\ Serving /\ PidsOwn
  BY DEF PatientInv, TrackInv
<1> DEFINE c == client[idx].fd
<1>2. /\ dpc = "request" /\ UNCHANGED <<back, rset, lock, child, npid, sent, hup>>
  BY DEF RequestFail, childVars
<1>3. /\ idx \in Slots /\ c \in Clients /\ c # NoClient /\ Waits(c) /\ client[idx].childdone # 2
      /\ Unlocked(client[idx].pid) /\ Quiet(client[idx].pid)
  BY <1>1, <1>2, FdOf DEF PatientInv, Serving, ServedWaits, RequestFree
<1>4. ~hup[c]
  BY <1>3 DEF PatientInv, PatientHup, Waits
<1>5. /\ OnlyEntry(idx) /\ SamePids
      /\ client'[idx].fd = NoClient /\ client'[idx].childdone = client[idx].childdone
      /\ conn' = [conn EXCEPT ![c] = "closed"]
  BY <1>1, <1>4, FailEntries
<1>6. got' = [got EXCEPT ![c] = FailedAnswer] /\ dpc' = back /\ idx' = idx + 1
  BY <1>1, <1>4, FailEffect
<1>7. /\ got'[c].kind = ErrorOf(client[idx]) /\ got'[c].kind \notin {"none", "fd"}
      /\ \A d \in Clients : d # c => got'[d] = got[d]
      /\ \A d \in Clients : got'[d] # NoAnswer => d = c \/ got[d] # NoAnswer
      /\ \A d \in Clients : got[d] # NoAnswer => got'[d] # NoAnswer
  <2>1. got'[c] = FailedAnswer /\ \A d \in Clients : d # c => got'[d] = got[d]
    <3> HIDE DEF c
    <3> QED
      BY <1>1, <1>3, <1>6 DEF TypeOK
  <2>2. FailedAnswer.kind = ErrorOf(client[idx])
    BY DEF FailedAnswer
  <2>3. FailedAnswer.kind \notin {"none", "fd"}
    BY <1>2, <2>2, ErrorRight
  <2>4. FailedAnswer # NoAnswer
    BY <2>3 DEF NoAnswer
  <2> QED
    BY <2>1, <2>2, <2>3, <2>4
<1>8. dpc' \in {"scan", "done"}
  BY <1>1, <1>6 DEF TypeOK
<1>9. BackRight' /\ ServedWaits' /\ RequestFree' /\ ForkedChild'
  BY <1>2, <1>6, <1>8 DEF BackRight, ServedWaits, RequestFree, ForkedChild
<1>10. AnsweredRead' /\ PatientHup'
  BY <1>2, <1>3, <1>7 DEF PatientInv, AnsweredRead, PatientHup, Waits
<1>11. AskedOpen'
  BY <1>1, <1>2, <1>5 DEF PatientInv, AskedOpen, TypeOK
<1>12. ChildrenRight' /\ DialedIsLocked'
  BY <1>2 DEF PatientInv, ChildrenRight, DialedIsLocked, Dialing, Matching, LineOf
<1>13. ScanLeft'
  <2>1. idx \in Nat /\ Slots \subseteq Nat
    BY <1>1, SlotsFinite DEF TypeOK
  <2>2. \A j \in Slots : j >= idx' => j > idx /\ j # idx
    BY <1>6, <2>1
  <2> QED
    BY <1>2, <1>5, <1>6, <1>8, <2>2 DEF PatientInv, ScanLeft, OnlyEntry
<1>14. EntriesRight'
  BY <1>2, <1>5 DEF PatientInv, EntriesRight, OnlyEntry, Matching
<1>15. PendingOwned'
  <2>1. ASSUME NEW q \in Pids, child[q].st \in Pending
        PROVE  /\ sent[child[q].cli] = "read" /\ got'[child[q].cli] = NoAnswer
               /\ \E i \in Slots : client'[i].fd = child[q].cli /\ client'[i].pid = q
    <3>1. PICK i \in Slots : client[i].fd = child[q].cli /\ client[i].pid = q
      BY <2>1 DEF PatientInv, PendingOwned
    <3>2. i # idx
      BY <1>3, <2>1, <3>1 DEF Quiet
    <3>3. child[q].cli \in Clients /\ child[q].cli # c
      BY <1>1, <1>3, <2>1, <3>1, <3>2, OneEntry DEF PatientInv, ChildrenRight, Pending
    <3> QED
      BY <1>5, <1>7, <2>1, <3>1, <3>2, <3>3 DEF PatientInv, PendingOwned, OnlyEntry, Waits
  <2> QED
    BY <1>2, <2>1 DEF PendingOwned, Waits
<1>16. FailedWait'
  <2>1. ASSUME NEW i \in Slots, client'[i].childdone = 2
        PROVE  /\ client'[i] = client[i] /\ client[i].fd # NoClient
               /\ sent[client[i].fd] = "read" /\ got'[client[i].fd] = NoAnswer
               /\ client[i].pid \in Pids /\ child[client[i].pid].st = "reaped"
    <3>1. i # idx
      BY <1>3, <1>5, <2>1
    <3>2. client'[i] = client[i]
      BY <1>5, <3>1 DEF OnlyEntry
    <3>3. client[i].fd # NoClient /\ Waits(client[i].fd)
          /\ client[i].pid \in Pids /\ child[client[i].pid].st = "reaped"
      BY <2>1, <3>2 DEF PatientInv, FailedWait
    <3>4. client[i].fd \in Clients /\ client[i].fd # c
      BY <1>1, <1>3, <3>1, <3>3, FdOf, OneEntry
    <3> QED
      BY <1>7, <3>2, <3>3, <3>4 DEF Waits
  <2> QED
    BY <1>2, <2>1 DEF FailedWait, Waits
<1>17. OwnersRead'
  <2>1. ASSUME NEW l \in Lines, lock[l] # 0
        PROVE  \E i \in Slots : /\ client'[i].pid = lock[l] /\ client'[i].fd # NoClient
                                /\ sent[client'[i].fd] = "read"
    <3>1. PICK i \in Slots : /\ client[i].pid = lock[l] /\ client[i].fd # NoClient
                             /\ sent[client[i].fd] = "read"
      BY <2>1 DEF PatientInv, OwnersRead
    <3>2. i # idx
      BY <1>3, <2>1, <3>1 DEF Unlocked
    <3> QED
      BY <1>5, <3>1, <3>2 DEF OnlyEntry
  <2> QED
    BY <1>2, <2>1 DEF OwnersRead
<1>18. HoldersLock'
  <2>1. ASSUME NEW d \in Clients, got'[d].kind = "fd", ~hup[d]
        PROVE  /\ got'[d].sys \in Entries /\ Systems[got'[d].sys].line \in Lines
               /\ \E j \in Slots : client'[j].fd = d /\ client'[j].pid \in Pids /\
                                   lock[Systems[got'[d].sys].line] = client'[j].pid
    <3>1. d # c /\ got'[d] = got[d]
      BY <1>7, <2>1
    <3>2. PICK j \in Slots : client[j].fd = d /\ client[j].pid \in Pids /\
                             lock[Systems[got[d].sys].line] = client[j].pid
      BY <2>1, <3>1 DEF PatientInv, HoldersLock
    <3>3. j # idx
      BY <3>1, <3>2
    <3>4. got[d].sys \in Entries /\ Systems[got[d].sys].line \in Lines
      BY <2>1, <3>1 DEF PatientInv, HoldersLock
    <3> QED
      BY <1>5, <3>1, <3>2, <3>3, <3>4 DEF OnlyEntry
  <2> QED
    BY <1>2, <2>1 DEF HoldersLock
<1>19. AnswerMatches'
  <2>1. ASSUME NEW d \in Clients
        PROVE  /\ got'[d].kind = "fd" => got'[d].sys \in Matching(d)
               /\ got'[d].kind = "notfound" => Matching(d) = {}
               /\ got'[d].kind \in {"unable", "locked", "nodev"} => Matching(d) # {}
    <3>1. CASE d = c
      BY <1>2, <1>7, <3>1, ErrorRight
    <3>2. CASE d # c
      BY <1>7, <3>2 DEF PatientInv, AnswerMatches, Matching
    <3> QED
      BY <3>1, <3>2
  <2> QED
    BY <2>1 DEF AnswerMatches, Matching
<1> QED
  BY <1>9, <1>10, <1>11, <1>12, <1>13, <1>14, <1>15, <1>16, <1>17, <1>18, <1>19 DEF PatientInv

LEMMA SendfdKept == ASSUME PatientInv, TrackInv', NEW q \in Pids, ChildSendfd(q) PROVE PatientInv'
<1>1. TrackInv /\ TypeOK /\ Serving /\ PidsOwn
  BY DEF PatientInv, TrackInv
<1> DEFINE c == child[q].cli
<1>2. /\ child[q].st = "dial" /\ child' = [child EXCEPT ![q].st = "sent"]
      /\ got' = [got EXCEPT ![c] = [kind |-> "fd", sys |-> child[q].sys]]
      /\ UNCHANGED <<dpc, idx, back, rset, client, lock, npid, conn, sent, hup>>
  BY DEF ChildSendfd, ChildTo, daemonVars
<1>3. /\ c \in Clients /\ c # NoClient /\ child[q].sys \in Matching(c) /\ LineOf(q) \in Lines
      /\ Waits(c) /\ child[q].st \in Pending /\ q # 0
  BY <1>2, CalldAssumption DEF PatientInv, ChildrenRight, PendingOwned, Pending, Pids
<1>4. PICK i \in Slots : client[i].fd = c /\ client[i].pid = q
  BY <1>3 DEF PatientInv, PendingOwned
<1>5. /\ \A r \in Pids \ {q} : child'[r] = child[r]
      /\ child'[q].cli = c /\ child'[q].sys = child[q].sys /\ child'[q].st = "sent"
  BY <1>1, <1>2 DEF TypeOK
<1>6. /\ got'[c].kind = "fd" /\ got'[c].sys = child[q].sys /\ got'[c] # NoAnswer
      /\ \A d \in Clients : d # c => got'[d] = got[d]
  <2>1. got'[c] = [kind |-> "fd", sys |-> child[q].sys] /\ \A d \in Clients : d # c => got'[d] = got[d]
    <3> HIDE DEF c
    <3> QED
      BY <1>1, <1>2, <1>3 DEF TypeOK
  <2> QED
    BY <2>1 DEF NoAnswer
<1>7. \A r \in Pids : /\ child'[r].cli = child[r].cli /\ child'[r].sys = child[r].sys
                      /\ child'[r].st # "none" => child[r].st # "none"
                      /\ child'[r].st \in Pending => child[r].st \in Pending /\ r # q
                      /\ child[r].st = "reaped" => child'[r].st = "reaped"
                      /\ child'[r].st = "dial" => child[r].st = "dial"
                      /\ child[r].st \in {"wait", "killed", "reaped"} =>
                           child'[r].st \in {"wait", "killed", "reaped"}
  BY <1>2, <1>5 DEF Pending
<1>8. \A j \in Slots : client[j].fd = c => client[j].pid = q
  BY <1>3, OwnerOf
<1>9. BackRight' /\ ScanLeft' /\ AskedOpen'
  BY <1>2 DEF PatientInv, BackRight, ScanLeft, AskedOpen
<1>10. AnsweredRead' /\ PatientHup'
  BY <1>2, <1>3, <1>6 DEF PatientInv, AnsweredRead, PatientHup, Waits
<1>11. EntriesRight' /\ OwnersRead'
  BY <1>2 DEF PatientInv, EntriesRight, OwnersRead, Matching
<1>12. ChildrenRight'
  BY <1>7 DEF PatientInv, ChildrenRight, Matching, LineOf
<1>13. PendingOwned'
  <2>1. ASSUME NEW r \in Pids, child'[r].st \in Pending
        PROVE  /\ sent[child[r].cli] = "read" /\ got'[child[r].cli] = NoAnswer
               /\ \E j \in Slots : client[j].fd = child[r].cli /\ client[j].pid = r
    <3>1. child[r].st \in Pending /\ r # q /\ child[r].cli \in Clients
      BY <1>7, <2>1 DEF PatientInv, ChildrenRight, Pending
    <3>2. Waits(child[r].cli) /\ \E j \in Slots : client[j].fd = child[r].cli /\ client[j].pid = r
      BY <3>1 DEF PatientInv, PendingOwned
    <3>3. child[r].cli # c
      BY <1>8, <3>1, <3>2
    <3> QED
      BY <1>6, <3>1, <3>2, <3>3 DEF Waits
  <2> QED
    BY <1>2, <1>7, <2>1 DEF PendingOwned, Waits
<1>14. FailedWait'
  <2>1. ASSUME NEW j \in Slots, client[j].childdone = 2
        PROVE  /\ client[j].fd # NoClient
               /\ sent[client[j].fd] = "read" /\ got'[client[j].fd] = NoAnswer
               /\ client[j].pid \in Pids /\ child'[client[j].pid].st = "reaped"
    <3>1. /\ client[j].fd # NoClient /\ Waits(client[j].fd)
          /\ client[j].pid \in Pids /\ child[client[j].pid].st = "reaped"
      BY <2>1 DEF PatientInv, FailedWait
    <3>2. client[j].fd # c
      BY <1>2, <1>8, <3>1
    <3>3. client[j].fd \in Clients
      BY <1>1, <3>1, FdOf
    <3> QED
      BY <1>6, <1>7, <3>1, <3>2, <3>3 DEF Waits
  <2> QED
    BY <1>2, <2>1 DEF FailedWait, Waits
<1>15. ServedWaits'
  <2>1. ASSUME dpc \in {"request", "lock", "tell"}
        PROVE  sent[client[idx].fd] = "read" /\ got'[client[idx].fd] = NoAnswer
               /\ client[idx].childdone # 2
    <3>1. idx \in Slots /\ client[idx].fd \in Clients
      BY <1>1, <2>1, FdOf DEF Serving
    <3>2. client[idx].pid # q
      <4>1. CASE dpc = "request"
        BY <1>3, <4>1 DEF PatientInv, RequestFree, Quiet
      <4>2. CASE dpc \in {"lock", "tell"}
        BY <1>2, <4>2 DEF PatientInv, ForkedChild
      <4> QED
        BY <2>1, <4>1, <4>2
    <3>3. client[idx].fd # c
      BY <1>8, <3>1, <3>2
    <3>4. Waits(client[idx].fd) /\ client[idx].childdone # 2
      BY <2>1 DEF PatientInv, ServedWaits
    <3> QED
      BY <1>6, <3>1, <3>3, <3>4 DEF Waits
  <2> QED
    BY <1>2, <2>1 DEF ServedWaits, Waits
<1>16. RequestFree' /\ ForkedChild'
  <2>1. RequestFree'
    BY <1>2, <1>7 DEF PatientInv, RequestFree, Unlocked, Quiet
  <2>2. ForkedChild'
    <3>1. dpc \in {"lock", "tell"} => client[idx].pid \in Pids /\ client[idx].pid # q
      BY <1>2 DEF PatientInv, ForkedChild
    <3>2. \A r \in Pids : r # q => child'[r] = child[r]
      BY <1>1, <1>2 DEF TypeOK
    <3>3. dpc' = dpc /\ idx' = idx /\ client' = client /\ lock' = lock
      BY <1>2
    <3> QED
      BY <3>1, <3>2, <3>3 DEF PatientInv, ForkedChild, Unlocked, LineOf
  <2> QED
    BY <2>1, <2>2
<1>17. DialedIsLocked'
  BY <1>2, <1>7 DEF PatientInv, DialedIsLocked, Dialing, LineOf
<1>18. HoldersLock'
  <2>1. lock[LineOf(q)] = q
    BY <1>2, <1>3 DEF PatientInv, DialedIsLocked, Dialing
  <2>2. ASSUME NEW d \in Clients, got'[d].kind = "fd", ~hup[d]
        PROVE  /\ got'[d].sys \in Entries /\ Systems[got'[d].sys].line \in Lines
               /\ \E j \in Slots : client[j].fd = d /\ client[j].pid \in Pids /\
                                   lock[Systems[got'[d].sys].line] = client[j].pid
    <3>1. CASE d = c
      BY <1>3, <1>4, <1>6, <2>1, <3>1 DEF LineOf, Matching
    <3>2. CASE d # c
      BY <1>6, <2>2, <3>2 DEF PatientInv, HoldersLock
    <3> QED
      BY <3>1, <3>2
  <2> QED
    BY <1>2, <2>2 DEF HoldersLock
<1>19. AnswerMatches'
  <2>1. ASSUME NEW d \in Clients
        PROVE  /\ got'[d].kind = "fd" => got'[d].sys \in Matching(d)
               /\ got'[d].kind = "notfound" => Matching(d) = {}
               /\ got'[d].kind \in {"unable", "locked", "nodev"} => Matching(d) # {}
    <3>1. CASE d = c
      BY <1>3, <1>6, <3>1
    <3>2. CASE d # c
      BY <1>6, <3>2 DEF PatientInv, AnswerMatches, Matching
    <3> QED
      BY <3>1, <3>2
  <2> QED
    BY <2>1 DEF AnswerMatches, Matching
<1> QED
  BY <1>9, <1>10, <1>11, <1>12, <1>13, <1>14, <1>15, <1>16, <1>17, <1>18, <1>19 DEF PatientInv

LEMMA ClientKept ==
  ASSUME Patient, PatientInv, TrackInv', NEW c \in Clients, Client(c)
  PROVE  PatientInv'
<1>1. TrackInv /\ TypeOK
  BY DEF PatientInv, TrackInv
<1>2. UNCHANGED <<dpc, idx, back, rset, client, lock, child, npid, got>>
  BY DEF Client, Connect, Ask, HangUp, daemonVars, childVars
<1>3. \A d \in Clients : /\ sent[d] = "read" => sent'[d] = "read"
                         /\ sent'[d] = "read" => sent[d] = "read"
                         /\ sent[d] = "unread" => sent'[d] = "unread"
  BY <1>1 DEF Client, Connect, Ask, HangUp, TypeOK
<1>4. \A d \in Clients : /\ hup[d] => hup'[d]
                         /\ hup'[d] => hup[d] \/ got[d] # NoAnswer
  <2>1. HangUp(c) => got[c].kind # "none"
    BY DEF HangUp, Patient
  <2> QED
    BY <1>1, <2>1 DEF Client, Connect, Ask, HangUp, TypeOK, NoAnswer
<1>5. \A d \in Clients : conn[d] \in {"open", "closed"} => conn'[d] = conn[d]
  BY <1>1 DEF Client, Connect, Ask, HangUp, TypeOK
<1>6. \A i \in Slots : client[i].fd \in Clients \/ client[i].fd = NoClient
  BY <1>1, FdOf
<1>7. BackRight' /\ AnsweredRead' /\ PatientHup' /\ AskedOpen'
  BY <1>2, <1>3, <1>4, <1>5 DEF PatientInv, BackRight, AnsweredRead, PatientHup, AskedOpen
<1>8. ScanLeft'
  <2>1. rset \subseteq Clients
    BY <1>1 DEF TypeOK
  <2> QED
    BY <1>2, <1>3, <1>4, <2>1 DEF PatientInv, ScanLeft
<1>9. EntriesRight' /\ ChildrenRight' /\ DialedIsLocked' /\ AnswerMatches'
  BY <1>2, <1>3, <1>6 DEF PatientInv, EntriesRight, ChildrenRight, DialedIsLocked, Dialing,
                          AnswerMatches, Matching, LineOf
<1>10. PendingOwned'
  <2>1. \A q \in Pids : child[q].st \in Pending => child[q].cli \in Clients
    BY DEF PatientInv, ChildrenRight, Pending
  <2> QED
    BY <1>2, <1>3, <2>1 DEF PatientInv, PendingOwned, Waits
<1>11. FailedWait'
  BY <1>2, <1>3, <1>6 DEF PatientInv, FailedWait, Waits
<1>12. ServedWaits'
  BY <1>1, <1>2, <1>3, FdOf DEF PatientInv, TrackInv, Serving, ServedWaits, Waits
<1>13. RequestFree' /\ ForkedChild'
  BY <1>2 DEF PatientInv, RequestFree, ForkedChild, Unlocked, Quiet, LineOf
<1>14. OwnersRead'
  BY <1>2, <1>3, <1>6 DEF PatientInv, OwnersRead
<1>15. HoldersLock'
  BY <1>2, <1>4 DEF PatientInv, HoldersLock
<1> QED
  BY <1>7, <1>8, <1>9, <1>10, <1>11, <1>12, <1>13, <1>14, <1>15 DEF PatientInv

LEMMA StutterKept == ASSUME PatientInv, TrackInv', UNCHANGED vars PROVE PatientInv'
<1>1. UNCHANGED <<dpc, idx, back, rset, client, lock, child, npid, conn, sent, hup, got>>
  BY DEF vars, daemonVars, childVars, clientVars
<1>2. BackRight' /\ AnsweredRead' /\ PatientHup' /\ AskedOpen' /\ ScanLeft'
  BY <1>1 DEF PatientInv, BackRight, AnsweredRead, PatientHup, AskedOpen, ScanLeft
<1>3. EntriesRight' /\ ChildrenRight' /\ PendingOwned' /\ FailedWait' /\ ServedWaits'
  BY <1>1 DEF PatientInv, EntriesRight, ChildrenRight, PendingOwned, FailedWait, ServedWaits,
              Matching, LineOf, Waits
<1>4. RequestFree' /\ ForkedChild'
  BY <1>1 DEF PatientInv, RequestFree, ForkedChild, LineOf, Unlocked, Quiet
<1>5. OwnersRead' /\ DialedIsLocked' /\ HoldersLock' /\ AnswerMatches'
  BY <1>1 DEF PatientInv, OwnersRead, DialedIsLocked, Dialing, HoldersLock, AnswerMatches,
              Matching, LineOf
<1> QED
  BY <1>2, <1>3, <1>4, <1>5 DEF PatientInv

LEMMA InitPatient == Patient /\ Init => PatientInv
<1> SUFFICES ASSUME Patient, Init PROVE PatientInv
  OBVIOUS
<1>1. TrackInv
  BY InitTracked
<1>2. \A i \in Slots : client[i].fd = NoClient /\ client[i].childdone # 2
  BY DEF Init, Patient
<1>3. BackRight /\ AnsweredRead /\ PatientHup /\ AskedOpen /\ ScanLeft
  BY DEF Init, BackRight, AnsweredRead, PatientHup, AskedOpen, ScanLeft
<1>4. EntriesRight /\ FailedWait /\ ServedWaits /\ RequestFree /\ ForkedChild
  BY <1>2 DEF Init, EntriesRight, FailedWait, ServedWaits, RequestFree, ForkedChild
<1>5. ChildrenRight /\ PendingOwned /\ OwnersRead /\ DialedIsLocked
  BY DEF Init, ChildrenRight, PendingOwned, OwnersRead, DialedIsLocked, Dialing, NoChild, Pending
<1>6. HoldersLock /\ AnswerMatches
  BY DEF Init, HoldersLock, AnswerMatches, NoAnswer
<1> QED
  BY <1>1, <1>3, <1>4, <1>5, <1>6 DEF PatientInv

LEMMA PatientNext ==
  ASSUME Patient, PatientInv, [Next]_vars
  PROVE  PatientInv'
<1>1. TrackInv'
  BY Tracks DEF PatientInv
<1>2. CASE Daemon
  BY <1>1, <1>2, MovesKept, AcceptKept, ScanEOFKept, ScanDataKept, SuccessKept, RetryKept, ForkKept,
     FailKept, LockSetKept, TellKept DEF Daemon, Moves
<1>3. CASE sig_chld
  BY <1>1, <1>3, SigKept
<1>4. ASSUME NEW q \in Pids, Child(q) \/ ChildKilled(q) PROVE PatientInv'
  BY <1>1, <1>4, SendfdKept, ExitKept DEF Child
<1>5. ASSUME NEW c \in Clients, Client(c) PROVE PatientInv'
  BY <1>1, <1>5, ClientKept
<1>6. CASE UNCHANGED vars
  BY <1>1, <1>6, StutterKept
<1> QED
  BY <1>2, <1>3, <1>4, <1>5, <1>6 DEF Next

LEMMA AlwaysPatient ==
  ASSUME Patient
  PROVE  Spec => []PatientInv
<1>1. Init => PatientInv
  BY InitPatient
<1>2. PatientInv /\ [Next]_vars => PatientInv'
  BY PatientNext
<1> QED
  BY <1>1, <1>2, PTL DEF Spec

LEMMA AtMostOne ==
  ASSUME NEW S, \A x, y \in S : x = y
  PROVE  IsFiniteSet(S) /\ Cardinality(S) \in {0, 1} /\ (S # {} => Cardinality(S) = 1)
<1>1. CASE S = {}
  BY <1>1, FS_EmptySet
<1>2. CASE S # {}
  <2>1. PICK x \in S : TRUE
    BY <1>2
  <2>2. S = {x}
    BY <2>1
  <2> QED
    BY <1>2, <2>2, FS_Singleton
<1> QED
  BY <1>1, <1>2

(* A locked line has one owner, and that is where its dialer and its       *)
(* holder are found.                                                       *)
LEMMA LockExcludes == PatientInv => DeviceExclusive
<1> SUFFICES ASSUME PatientInv, NEW l \in Lines
             PROVE  Cardinality(Dialing(l)) + Cardinality(Holding(l)) <= 1
  BY DEF DeviceExclusive
<1>1. TrackInv
  BY DEF PatientInv
<1>2. \A q \in Dialing(l) : q \in Pids /\ lock[l] = q /\ child[q].st \in Pending
  BY DEF PatientInv, DialedIsLocked, Dialing, Pending
<1>3. ASSUME NEW c \in Holding(l)
      PROVE  /\ c \in Clients /\ got[c] # NoAnswer
             /\ \E i \in Slots : client[i].fd = c /\ client[i].pid = lock[l] /\ lock[l] \in Pids
  BY DEF PatientInv, HoldersLock, Holding, NoAnswer
<1>4. \A x, y \in Dialing(l) : x = y
  BY <1>2
<1>5. \A x, y \in Holding(l) : x = y
  <2> SUFFICES ASSUME NEW x \in Holding(l), NEW y \in Holding(l) PROVE x = y
    OBVIOUS
  <2>1. PICK i \in Slots : client[i].fd = x /\ client[i].pid = lock[l] /\ lock[l] \in Pids
    BY <1>3
  <2>2. PICK j \in Slots : client[j].fd = y /\ client[j].pid = lock[l] /\ lock[l] \in Pids
    BY <1>3
  <2>3. i = j
    BY <1>1, <2>1, <2>2, OneEntry DEF Pids
  <2> QED
    BY <2>1, <2>2, <2>3
<1>6. Dialing(l) = {} \/ Holding(l) = {}
  <2> SUFFICES ASSUME NEW q \in Dialing(l), NEW c \in Holding(l) PROVE FALSE
    OBVIOUS
  <2>1. q \in Pids /\ lock[l] = q /\ child[q].st \in Pending
    BY <1>2
  <2>2. PICK i \in Slots : client[i].fd = c /\ client[i].pid = q
    BY <1>3, <2>1
  <2>3. child[q].cli = c
    BY <2>1, <2>2, OwnerOf
  <2> QED
    BY <1>3, <2>1, <2>3 DEF PatientInv, PendingOwned, Waits
<1> QED
  BY <1>4, <1>5, <1>6, AtMostOne, FS_EmptySet

(* With patient clients a device is dialed by one child or held by one     *)
(* client at a time, whatever the number of clients, lines and entries of  *)
(* the Systems file: the purpose of lock.c, of TELL_CHILD in request.c and *)
(* of keeping the lock after a child that succeeds (loop.c:72-73).         *)
THEOREM ExcludesDevice ==
  ASSUME Patient
  PROVE  Spec => []DeviceExclusive
BY AlwaysPatient, LockExcludes, PTL

(* With patient clients no child dials a device before the parent has set  *)
(* the lock, nor after it is released (request.c:39).                      *)
THEOREM LocksDialed ==
  ASSUME Patient
  PROVE  Spec => []DialedIsLocked
<1>1. PatientInv => DialedIsLocked
  BY DEF PatientInv
<1> QED
  BY <1>1, AlwaysPatient, PTL

(* With patient clients no lock leaks: the pid in lock[] is in an entry of *)
(* client[] that is in use, whose end releases it.                         *)
THEOREM OwnsLocks ==
  ASSUME Patient
  PROVE  Spec => []LocksOwned
<1>1. PatientInv => LocksOwned
  BY DEF PatientInv, OwnersRead, LocksOwned
<1> QED
  BY <1>1, AlwaysPatient, PTL

(* With patient clients the answer is the one asked for: a line of an      *)
(* entry that matches, or the error of request.c:49-54 that is true.       *)
THEOREM MatchesAnswer ==
  ASSUME Patient
  PROVE  Spec => []AnswerMatches
<1>1. PatientInv => AnswerMatches
  BY DEF PatientInv
<1> QED
  BY <1>1, AlwaysPatient, PTL

LEMMA AnswerStep ==
  ASSUME PatientInv, [Next]_vars
  PROVE  \A c \in Clients : got[c] # NoAnswer => got'[c] = got[c]
<1>1. TrackInv /\ TypeOK /\ Serving
  BY DEF PatientInv, TrackInv
<1>2. CASE RequestFail
  <2>1. client[idx].fd \in Clients /\ got[client[idx].fd] = NoAnswer
    BY <1>1, <1>2, FdOf DEF RequestFail, Serving, PatientInv, ServedWaits, Waits
  <2>2. got' = got \/ got' = [got EXCEPT ![client[idx].fd] = FailedAnswer]
    BY <1>1, <1>2, FailEffect DEF RequestFail
  <2> QED
    BY <1>1, <2>1, <2>2 DEF TypeOK
<1>3. ASSUME NEW q \in Pids, ChildSendfd(q)
      PROVE  \A c \in Clients : got[c] # NoAnswer => got'[c] = got[c]
  <2>1. got[child[q].cli] = NoAnswer
    BY <1>3 DEF ChildSendfd, PatientInv, PendingOwned, Waits, Pending
  <2>2. got' = [got EXCEPT ![child[q].cli] = [kind |-> "fd", sys |-> child[q].sys]]
    BY <1>3 DEF ChildSendfd
  <2> QED
    BY <1>1, <2>1, <2>2 DEF TypeOK
<1>4. CASE UNCHANGED got
  BY <1>4
<1>5. Daemon => RequestFail \/ UNCHANGED got
  <2>1. Moves => UNCHANGED got
    BY <1>1, MovesEffect
  <2> QED
    BY <2>1 DEF Daemon, Moves, SelectAccept, ScanEOF, ScanData, DoneSuccess, DoneRetry, RequestFork,
                LockSet, TellChild, clientVars
<1>6. sig_chld \/ UNCHANGED vars => UNCHANGED got
  BY DEF sig_chld, vars, clientVars
<1>7. \A q \in Pids : Child(q) \/ ChildKilled(q) => ChildSendfd(q) \/ UNCHANGED got
  BY DEF Child, ChildExit0, ChildExit1, ChildKilled, clientVars
<1>8. \A c \in Clients : Client(c) => UNCHANGED got
  BY DEF Client, Connect, Ask, HangUp
<1> QED
  BY <1>2, <1>3, <1>4, <1>5, <1>6, <1>7, <1>8 DEF Next

(* With patient clients no answer is ever followed by another, although    *)
(* the child sends the line and the daemon the errors.                     *)
THEOREM AnswersOnce ==
  ASSUME Patient
  PROVE  Spec => AnsweredOnce
<1>1. PatientInv /\ [Next]_vars =>
        [\A c \in Clients : got[c] # NoAnswer => got'[c] = got[c]]_got
  BY AnswerStep
<1> QED
  BY <1>1, AlwaysPatient, PTL DEF Spec, AnsweredOnce
===============================================================================
