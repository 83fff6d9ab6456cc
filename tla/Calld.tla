-------------------------------- MODULE Calld --------------------------------
(***************************************************************************)
(* The modem dialer daemon of calld/: one process that accepts clients on  *)
(* stream pipes (loop.c), finds a system and a free device for each        *)
(* request (request.c), locks the device (lock.c) and forks a child that   *)
(* dials it and passes the open line to the client.  The SIGCHLD handler   *)
(* (sigchld.c) runs between any two steps of the daemon.                   *)
(***************************************************************************)
EXTENDS Integers, Sequences, FiniteSets, FiniteSetsExt

(* A definition with a suffixed name (cli_done_noclr) is a seeded bug: the *)
(* definition after it as a programmer might have got it wrong.            *)

CONSTANTS
  Clients,    \* the client processes; a client is also its stream pipe
  NoClient,   \* the fd of an entry of client[] that is available (-1)
  Impatient,  \* the clients that may hang up before they are answered
  Want,       \* Want[c]: the system and the speed ("any") that c asks for
  Systems,    \* the Systems file: the name, class and device line of each
              \* entry; line "none" when no device matches its type and class
  Lines,      \* the device lines
  HeapDone,   \* what a new entry of client[] may have as childdone
  Killed,     \* children may be killed by a signal
  MaxPid      \* bound: children that are forked in a behaviour

Entries == 1 .. Len(Systems)
Pids == 1 .. MaxPid
(* client[] grows as needed and never holds more than the clients.         *)
Slots == 1 .. Cardinality(Clients)

ASSUME CalldAssumption ==
  /\ IsFiniteSet(Clients) /\ Clients # {} /\ NoClient \notin Clients
  /\ Impatient \subseteq Clients
  /\ Len(Systems) \in Nat
  /\ \A k \in Entries : Systems[k].line \in Lines \cup {"none"}
  /\ HeapDone \subseteq {0, 1, 2} /\ HeapDone # {}
  /\ Killed \in BOOLEAN /\ MaxPid \in Nat

VARIABLES
  dpc,      \* where the daemon is
  idx,      \* the entry of client[] its scan has reached
  back,     \* the scan request() returns to: "scan" or "done"
  after,    \* where child_done() returns to: "sel" or "check"
  rset,     \* the descriptors select() returned as readable
  allset,   \* the descriptors select() waits for, listenfd apart
  client,   \* client[]: fd, pid, childdone, want, sysftell, foundone
  lock,     \* lock[]: the pid that has each line, 0 for available
  chld_flag, \* set by the handler, cleared by child_done()
  sigchld,  \* a SIGCHLD is pending
  child,    \* the forked children: state, client and Systems entry
  npid,     \* number of children forked
  conn,     \* the daemon's end of each client's stream pipe
  sent,     \* the request of each client: "no", "unread" or "read"
  hup,      \* the client has terminated or closed its end
  got       \* the answer each client has received

daemonVars == <<dpc, idx, back, after, rset, allset, client, lock, chld_flag>>
childVars == <<sigchld, child, npid>>
clientVars == <<conn, sent, hup, got>>
vars == <<daemonVars, childVars, clientVars>>

NoChild == [st |-> "none", cli |-> NoClient, sys |-> 0]
NoAnswer == [kind |-> "none", sys |-> 0]
NoWant == [name |-> "", speed |-> "any"]

Zombies == {q \in Pids : child[q].st \in {"exit0", "exit1", "killed"}}
LineOf(q) == Systems[child[q].sys].line

-----------------------------------------------------------------------------
(* client.c and lock.c                                                     *)

(* client_add: the first available entry.  Nothing but the fd is set.      *)
client_add(c) ==
  LET i == Min({j \in Slots : client[j].fd = NoClient})
  IN  client' = [client EXCEPT ![i].fd = c]

(* lock_rel: the entry of lock[] with this pid, if any.                    *)
LockWithout(pid) == [l \in Lines |-> IF lock[l] = pid THEN 0 ELSE lock[l]]

cli_done_noclr(i, cl) ==
  /\ client' = [cl EXCEPT ![i].fd = NoClient]
  /\ allset' = allset
  /\ conn' = [conn EXCEPT ![cl[i].fd] = "closed"]

(* cli_done: client_del, take the fd out of allset and close it.           *)
cli_done(i, cl) ==
  /\ client' = [cl EXCEPT ![i].fd = NoClient]
  /\ allset' = allset \ {cl[i].fd}
  /\ conn' = [conn EXCEPT ![cl[i].fd] = "closed"]

Dies == dpc' = "dead"

-----------------------------------------------------------------------------
(* request.c                                                               *)

Matches(w, k) ==
  /\ Systems[k].name = w.name
  /\ w.speed \in {"any", Systems[k].class}

Ahead_name(e) == {k \in Entries : k > e.sysftell /\ Systems[k].name = e.want.name}
Stops_busy(e) == {k \in Entries : k > e.sysftell /\ Matches(e.want, k)}

(* The matching entries from where this client left off, and those of them *)
(* that end the search: no such device, or a device that is not locked.    *)
Ahead(e) == {k \in Entries : k > e.sysftell /\ Matches(e.want, k)}
Stops(e) == {k \in Ahead(e) :
               Systems[k].line = "none" \/ lock[Systems[k].line] = 0}

(* The message of a request that ends without a child.                     *)
ErrorOf(e) == CASE Stops(e) # {} -> "nodev"
                [] Stops(e) = {} /\ Ahead(e) # {} -> "locked"
                [] Ahead(e) = {} /\ e.foundone -> "unable"
                [] Ahead(e) = {} /\ ~e.foundone -> "notfound"

CanDial(e) == Stops(e) # {} /\ Systems[Min(Stops(e))].line # "none"

RequestFork_nowait ==
  /\ dpc = "request" /\ client[idx].sysftell >= 0 /\ npid < MaxPid
  /\ CanDial(client[idx])
  /\ LET e == client[idx]
         k == Min(Stops(e))
     IN  /\ client' = [client EXCEPT ![idx] =
                         [e EXCEPT !.sysftell = k, !.foundone = TRUE, !.pid = npid + 1]]
         /\ child' = [child EXCEPT ![npid + 1] = [st |-> "dial", cli |-> e.fd, sys |-> k]]
  /\ npid' = npid + 1
  /\ dpc' = "lock"
  /\ UNCHANGED <<idx, back, after, rset, allset, lock, chld_flag, sigchld, clientVars>>

(* request() finds a device that is not locked and forks a child, which    *)
(* first waits in WAIT_PARENT.                                             *)
RequestFork ==
  /\ dpc = "request" /\ client[idx].sysftell >= 0 /\ npid < MaxPid
  /\ CanDial(client[idx])
  /\ LET e == client[idx]
         k == Min(Stops(e))
     IN  /\ client' = [client EXCEPT ![idx] =
                         [e EXCEPT !.sysftell = k, !.foundone = TRUE, !.pid = npid + 1]]
         /\ child' = [child EXCEPT ![npid + 1] = [st |-> "wait", cli |-> e.fd, sys |-> k]]
  /\ npid' = npid + 1
  /\ dpc' = "lock"
  /\ UNCHANGED <<idx, back, after, rset, allset, lock, chld_flag, sigchld, clientVars>>

(* request() fails and its caller gives up on the client: send_err, then   *)
(* cli_done.  Writing to a client that has hung up kills the daemon.       *)
RequestFail ==
  /\ dpc = "request" /\ client[idx].sysftell >= 0 /\ ~CanDial(client[idx])
  /\ LET e == client[idx]
         seen == [client EXCEPT ![idx] =
                    [e EXCEPT !.sysftell = IF Stops(e) = {} THEN -1 ELSE Min(Stops(e)),
                              !.foundone = @ \/ Ahead(e) # {}]]
     IN  \/ /\ ~hup[e.fd]
            /\ got' = [got EXCEPT ![e.fd] = [kind |-> ErrorOf(e), sys |-> 0]]
            /\ cli_done(idx, seen)
            /\ dpc' = back /\ idx' = idx + 1
         \/ hup[e.fd] /\ Dies /\ UNCHANGED <<idx, client, allset, conn, got>>
  /\ UNCHANGED <<back, after, rset, lock, chld_flag, childVars, sent, hup>>

(* An entry whose last search met the end of the file: fseek to -1 fails.  *)
RequestLost ==
  /\ dpc = "request" /\ client[idx].sysftell < 0
  /\ Dies
  /\ UNCHANGED <<idx, back, after, rset, allset, client, lock, chld_flag,
                 childVars, clientVars>>

(* The parent sets the lock ...                                            *)
LockSet ==
  /\ dpc = "lock"
  /\ lock' = [lock EXCEPT ![LineOf(client[idx].pid)] = client[idx].pid]
  /\ dpc' = "tell"
  /\ UNCHANGED <<idx, back, after, rset, allset, client, chld_flag, childVars, clientVars>>

(* ... and lets the child resume, if it is still there.                    *)
TellChild ==
  /\ dpc = "tell"
  /\ child' = [child EXCEPT ![client[idx].pid].st = IF @ = "wait" THEN "dial" ELSE @]
  /\ dpc' = back /\ idx' = idx + 1
  /\ UNCHANGED <<back, after, rset, allset, client, lock, chld_flag, sigchld, npid,
                 clientVars>>

-----------------------------------------------------------------------------
(* loop.c                                                                  *)

(* The top of the loop: if the flag is set go through client[] first.      *)
Check ==
  /\ dpc = "check"
  /\ dpc' = IF chld_flag THEN "enter" ELSE "sel"
  /\ after' = "sel"
  /\ UNCHANGED <<idx, back, rset, allset, client, lock, chld_flag, childVars, clientVars>>

Readable_data == {c \in allset : sent[c] = "unread"}

(* A descriptor is readable when a request or the end of the client is     *)
(* there, the listening one when a connection is.                          *)
Readable == {c \in allset : sent[c] = "unread" \/ hup[c]}
Calling == {c \in Clients : conn[c] = "queued"}

(* select() with nothing to read: the daemon sleeps.                       *)
SelectSleep ==
  /\ dpc = "sel" /\ Readable = {} /\ Calling = {}
  /\ dpc' = "asleep"
  /\ UNCHANGED <<idx, back, after, rset, allset, client, lock, chld_flag,
                 childVars, clientVars>>

(* select() returns with a connection, which is served first.              *)
SelectAccept ==
  /\ dpc \in {"sel", "asleep"}
  /\ \E c \in Calling :
       /\ client_add(c)
       /\ allset' = allset \cup {c}
       /\ conn' = [conn EXCEPT ![c] = "open"]
  /\ dpc' = "check"
  /\ UNCHANGED <<idx, back, after, rset, lock, chld_flag, childVars, sent, hup, got>>

(* select() returns with clients only: go through client[].                *)
SelectScan ==
  /\ dpc \in {"sel", "asleep"} /\ Calling = {} /\ Readable # {}
  /\ rset' = Readable
  /\ dpc' = "scan" /\ idx' = 1 /\ back' = "scan"
  /\ UNCHANGED <<after, allset, client, lock, chld_flag, childVars, clientVars>>

(* The next entry of client[] with something to read.                      *)
ToRead == {i \in Slots : i >= idx /\ client[i].fd \in rset}

ScanEOF_keeplock ==
  /\ dpc = "scan" /\ ToRead # {}
  /\ LET i == Min(ToRead) IN
       /\ sent[client[i].fd] # "unread"
       /\ cli_done(i, client)
       /\ idx' = i + 1
  /\ UNCHANGED <<dpc, back, after, rset, lock, chld_flag, childVars, sent, hup, got>>

(* read() returns 0: release the device lock and be done with the client.  *)
ScanEOF ==
  /\ dpc = "scan" /\ ToRead # {}
  /\ LET i == Min(ToRead) IN
       /\ sent[client[i].fd] # "unread"
       /\ lock' = LockWithout(client[i].pid)
       /\ cli_done(i, client)
       /\ idx' = i + 1
  /\ UNCHANGED <<dpc, back, after, rset, chld_flag, childVars, sent, hup, got>>

(* read() returns a request: note it in the entry, from the start of the   *)
(* Systems file, and call request().                                       *)
ScanData ==
  /\ dpc = "scan" /\ ToRead # {}
  /\ LET i == Min(ToRead)
         c == client[i].fd
     IN  /\ sent[c] = "unread"
         /\ sent' = [sent EXCEPT ![c] = "read"]
         /\ client' = [client EXCEPT ![i] =
              [@ EXCEPT !.want = Want[c], !.childdone = 0, !.sysftell = 0, !.foundone = FALSE]]
         /\ idx' = i
  /\ dpc' = "request"
  /\ UNCHANGED <<back, after, rset, allset, lock, chld_flag, childVars, conn, hup, got>>

ScanEnd ==
  /\ dpc = "scan" /\ ToRead = {}
  /\ dpc' = "check"
  /\ UNCHANGED <<idx, back, after, rset, allset, client, lock, chld_flag,
                 childVars, clientVars>>

(* child_done: clear the flag and go through client[].                     *)
DoneEnter ==
  /\ dpc = "enter"
  /\ chld_flag' = FALSE
  /\ dpc' = "done" /\ idx' = 1 /\ back' = "done"
  /\ UNCHANGED <<after, rset, allset, client, lock, childVars, clientVars>>

(* The next entry of an open client whose child is done.                   *)
ToFinish == {i \in Slots : i >= idx /\ client[i].fd # NoClient /\ client[i].childdone # 0}

(* The child succeeded: the lock stays until the client is gone.           *)
DoneSuccess ==
  /\ dpc = "done" /\ ToFinish # {}
  /\ LET i == Min(ToFinish) IN
       /\ client[i].childdone = 1
       /\ client' = [client EXCEPT ![i].childdone = 0]
       /\ idx' = i + 1
  /\ UNCHANGED <<dpc, back, after, rset, allset, lock, chld_flag, childVars, clientVars>>

DoneRetry_any ==
  /\ dpc = "done" /\ ToFinish # {}
  /\ LET i == Min(ToFinish) IN
       /\ client' = [client EXCEPT ![i].childdone = 0]
       /\ lock' = LockWithout(client[i].pid)
       /\ idx' = i
  /\ dpc' = "request"
  /\ UNCHANGED <<back, after, rset, allset, chld_flag, childVars, clientVars>>

(* It failed: release the lock and try again from where it left off.       *)
DoneRetry ==
  /\ dpc = "done" /\ ToFinish # {}
  /\ LET i == Min(ToFinish) IN
       /\ client[i].childdone # 1
       /\ client' = [client EXCEPT ![i].childdone = 0]
       /\ lock' = LockWithout(client[i].pid)
       /\ idx' = i
  /\ dpc' = "request"
  /\ UNCHANGED <<back, after, rset, allset, chld_flag, childVars, clientVars>>

(* Additional SIGCHLDs have been caught: again.                            *)
DoneEnd ==
  /\ dpc = "done" /\ ToFinish = {}
  /\ dpc' = IF chld_flag THEN "enter" ELSE after
  /\ UNCHANGED <<idx, back, after, rset, allset, client, lock, chld_flag,
                 childVars, clientVars>>

-----------------------------------------------------------------------------
(* sigchld.c and client_sigchld: wait for one child and note its status in *)
(* the first entry with its pid.  A sleeping select() is interrupted and   *)
(* child_done() called; any other point just goes on.                      *)
EntriesOf(q) == {i \in Slots : client[i].pid = q}
StatusOf(q) == IF child[q].st = "exit0" THEN 1 ELSE 2

sig_chld_rearmed ==
  /\ sigchld /\ dpc # "dead"
  /\ UNCHANGED sigchld
  /\ chld_flag' = TRUE
  /\ \E q \in Zombies :
       /\ child' = [child EXCEPT ![q].st = "reaped"]
       /\ client' = IF child[q].st = "killed" \/ EntriesOf(q) = {} THEN client
                    ELSE [client EXCEPT ![Min(EntriesOf(q))].childdone = StatusOf(q)]
       /\ \/ child[q].st # "killed" /\ EntriesOf(q) = {} /\ Dies /\ after' = after
          \/ /\ child[q].st = "killed" \/ EntriesOf(q) # {}
             /\ dpc' = IF dpc = "asleep" THEN "enter" ELSE dpc
             /\ after' = IF dpc = "asleep" THEN "check" ELSE after
  /\ UNCHANGED <<idx, back, rset, allset, lock, npid, clientVars>>

sig_chld ==
  /\ sigchld /\ dpc # "dead"
  /\ sigchld' = FALSE
  /\ chld_flag' = TRUE
  /\ \E q \in Zombies :
       /\ child' = [child EXCEPT ![q].st = "reaped"]
       /\ client' = IF child[q].st = "killed" \/ EntriesOf(q) = {} THEN client
                    ELSE [client EXCEPT ![Min(EntriesOf(q))].childdone = StatusOf(q)]
       /\ \/ child[q].st # "killed" /\ EntriesOf(q) = {} /\ Dies /\ after' = after
          \/ /\ child[q].st = "killed" \/ EntriesOf(q) # {}
             /\ dpc' = IF dpc = "asleep" THEN "enter" ELSE dpc
             /\ after' = IF dpc = "asleep" THEN "check" ELSE after
  /\ UNCHANGED <<idx, back, rset, allset, lock, npid, clientVars>>

-----------------------------------------------------------------------------
(* The children (childdial.c is not in the repository).                    *)

(* q changes to state st; SIGCHLD is generated when that is an exit.       *)
ChildTo(q, st) ==
  /\ child' = [child EXCEPT ![q].st = st]
  /\ sigchld' = (sigchld \/ st \in {"exit0", "exit1", "killed"})
  /\ UNCHANGED <<npid, daemonVars>>

(* It has the modem connected and passes the line to the client, if that   *)
(* is still there, ...                                                     *)
ChildSendfd(q) ==
  /\ child[q].st = "dial" /\ ~hup[child[q].cli]
  /\ got' = [got EXCEPT ![child[q].cli] = [kind |-> "fd", sys |-> child[q].sys]]
  /\ ChildTo(q, "sent")
  /\ UNCHANGED <<conn, sent, hup>>

(* ... and exits.                                                          *)
ChildExit0(q) ==
  child[q].st = "sent" /\ ChildTo(q, "exit0") /\ UNCHANGED clientVars

(* It cannot connect, or the client is gone.                               *)
ChildExit1(q) ==
  child[q].st = "dial" /\ ChildTo(q, "exit1") /\ UNCHANGED clientVars

ChildKilled(q) ==
  /\ Killed /\ child[q].st \in {"wait", "dial", "sent"}
  /\ ChildTo(q, "killed") /\ UNCHANGED clientVars

-----------------------------------------------------------------------------
(* The clients (call, of which call/takeput.c is all there is).            *)
Connect(c) ==
  /\ conn[c] = "off"
  /\ conn' = [conn EXCEPT ![c] = "queued"]
  /\ UNCHANGED <<daemonVars, childVars, sent, hup, got>>

Ask(c) ==
  /\ conn[c] \in {"queued", "open"} /\ sent[c] = "no" /\ ~hup[c]
  /\ sent' = [sent EXCEPT ![c] = "unread"]
  /\ UNCHANGED <<daemonVars, childVars, conn, hup, got>>

(* The client closes its stream pipe, and with it the line it was passed.  *)
HangUp(c) ==
  /\ conn[c] \in {"open", "closed"} /\ ~hup[c]
  /\ c \in Impatient \/ got[c].kind # "none"
  /\ hup' = [hup EXCEPT ![c] = TRUE]
  /\ UNCHANGED <<daemonVars, childVars, conn, sent, got>>

-----------------------------------------------------------------------------
Init ==
  /\ dpc = "check" /\ idx = 1 /\ back = "scan" /\ after = "sel"
  /\ rset = {} /\ allset = {}
  /\ client \in [Slots -> {[fd |-> NoClient, pid |-> 0, childdone |-> d, want |-> NoWant,
                            sysftell |-> 0, foundone |-> FALSE] : d \in HeapDone}]
  /\ lock = [l \in Lines |-> 0]
  /\ chld_flag = FALSE /\ sigchld = FALSE
  /\ child = [q \in Pids |-> NoChild] /\ npid = 0
  /\ conn = [c \in Clients |-> "off"] /\ sent = [c \in Clients |-> "no"]
  /\ hup = [c \in Clients |-> FALSE] /\ got = [c \in Clients |-> NoAnswer]

Daemon ==
  \/ Check \/ SelectSleep \/ SelectAccept \/ SelectScan
  \/ ScanEOF \/ ScanData \/ ScanEnd
  \/ DoneEnter \/ DoneSuccess \/ DoneRetry \/ DoneEnd
  \/ RequestFork \/ RequestFail \/ RequestLost \/ LockSet \/ TellChild

Child(q) == ChildSendfd(q) \/ ChildExit0(q) \/ ChildExit1(q)
Client(c) == Connect(c) \/ Ask(c) \/ HangUp(c)

Next ==
  \/ Daemon \/ sig_chld
  \/ \E q \in Pids : Child(q) \/ ChildKilled(q)
  \/ \E c \in Clients : Client(c)

Spec == Init /\ [][Next]_vars

(* The daemon and its children are scheduled, signals are delivered;       *)
(* clients do what they like.                                              *)
FairSpec ==
  /\ Spec /\ WF_vars(Daemon) /\ WF_vars(sig_chld)
  /\ \A q \in Pids : WF_vars(Child(q))

-----------------------------------------------------------------------------
Dialing(l) == {q \in Pids : child[q].st = "dial" /\ LineOf(q) = l}
Holding(l) == {c \in Clients : got[c].kind = "fd" /\ ~hup[c] /\ Systems[got[c].sys].line = l}

(* The purpose of lock.c and of the comment at loop.c:72-73: a device is   *)
(* dialed by one child or held by one client at a time.                    *)
DeviceExclusive ==
  \A l \in Lines : Cardinality(Dialing(l)) + Cardinality(Holding(l)) <= 1

(* The comment at request.c:39: a child does not dial before the lock is   *)
(* set; while it dials the device is locked with its pid.                  *)
DialedIsLocked == \A l \in Lines : \A q \in Dialing(l) : lock[l] = q

(* Locks do not leak: a locked line belongs to the child of an entry in    *)
(* use, so that the end of that client will release it.                    *)
LocksOwned ==
  \A l \in Lines : lock[l] # 0 =>
    \E i \in Slots : client[i].fd # NoClient /\ client[i].pid = lock[l]

(* client[], allset and the open stream pipes are one set: no client is    *)
(* lost, none is waited for after its pipe is closed or has two entries.   *)
ClientsTracked ==
  /\ allset = {client[i].fd : i \in Slots} \ {NoClient}
  /\ allset = {c \in Clients : conn[c] = "open"}
  /\ \A i, j \in Slots : client[i].fd = client[j].fd /\ i # j => client[i].fd = NoClient

(* waitpid() in the handler has no WNOHANG: whenever the handler runs there *)
(* is a child to wait for, so it never blocks the daemon.                  *)
HandlerReturns == sigchld => Zombies # {}

(* A client gets one answer, either the line or one error, even though the *)
(* child sends the one and the daemon the other.                           *)
AnsweredOnce ==
  [][ \A c \in Clients : got[c] # NoAnswer => got'[c] = got[c] ]_got

(* The answer is the one asked for: a line of an entry that matches the    *)
(* system and the speed; `not found' only if no entry matches, the other   *)
(* errors only if one does (request.c:49-54).                              *)
AnswerMatches ==
  \A c \in Clients :
    LET match == {k \in Entries : Matches(Want[c], k)} IN
    /\ got[c].kind = "fd" => got[c].sys \in match
    /\ got[c].kind = "notfound" => match = {}
    /\ got[c].kind \in {"unable", "locked", "nodev"} => match # {}

(* A client that has hung up is noticed: its entry, its pipe and its lock  *)
(* are freed, unless the daemon has died.                                  *)
HangUpNoticed ==
  \A c \in Clients : (hup[c] /\ conn[c] = "open") ~> (conn[c] = "closed" \/ dpc = "dead")
=============================================================================
