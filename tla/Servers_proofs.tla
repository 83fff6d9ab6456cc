---------------------------- MODULE Servers_proofs ----------------------------
(***************************************************************************)
(* Proofs about the servers.  serv_accept (UnixConn): a caller that is told*)
(* apart by the name it has bound is the one the name belongs to, for any  *)
(* number of clients, process ids and users, though names may stay that    *)
(* another user has left.  select.c (FileServer): what select watches and  *)
(* what is open, for any number of clients.  The open server (OpenServer): *)
(* as long as every answer is read to its end the client has shown what    *)
(* the server told it, for any line length, messages and number of lines.  *)
(***************************************************************************)
EXTENDS UnixConn, FileServer, OpenServer, Lists_proofs, FiniteSetTheorems,
        WellFoundedInduction, TLAPS

-----------------------------------------------------------------------------
(* Client and server connections                                           *)

(* Types, as far as the proof needs them.                                  *)
Owners == {"nobody"} \cup {Uid[c] : c \in Callers}
NameType ==
  [owner : Owners, mode : {"none", "umask", "rwx------"},
   stale : BOOLEAN]
Stages ==
  {"unborn", "unlink", "bind", "chmod", "connect", "connected", "refused", "taken", "dead"}
ConnTypes ==
  /\ cpc \in [Callers -> Stages] /\ names \in [Pids -> NameType]
  /\ server \in {"down", "accept", "stat", "unlink"}
  /\ queue \in Seq(Callers) /\ calling \subseteq Callers
  /\ result = [c \in Callers |-> result[c]]

(* Of two clients with one process id that have both been started, one had *)
(* ended before the other was started, which may be known to have had the  *)
(* first one's name at its disposal.                                       *)
Before(c, o) == cpc[c] = "dead" /\ (MayRemove(Uid[o], Uid[c]) => c \in outlived)
OnePerPid ==
  \A c, o \in Callers :
    c # o /\ Pid[c] = Pid[o] /\ cpc[o] # "unborn" /\ cpc[c] # "unborn" => Before(c, o) \/ Before(o, c)

(* A client that has connected waits in the queue or is being looked at,   *)
(* once.                                                                   *)
InQueue(c) == \E i \in DOMAIN queue : queue[i] = c
QueuedOnce ==
  /\ \A i, j \in DOMAIN queue : queue[i] = queue[j] => i = j
  /\ \A c \in calling : ~InQueue(c)
  /\ \A c, d \in calling : c = d
  /\ \A c \in Callers : InQueue(c) \/ c \in calling => cpc[c] \in {"connected", "dead"}

(* The name c has bound is c's, and old only if STALE seconds have passed. *)
Bound(c) ==
  /\ names[Pid[c]].owner = Uid[c] /\ names[Pid[c]].mode # "none"
  /\ names[Pid[c]].stale => c \in waited
Protected(c) == Bound(c) /\ names[Pid[c]].mode = "rwx------"

NamesOwn ==
  \A c \in Callers :
    /\ cpc[c] = "chmod" /\ c \notin outlived => Bound(c)
    /\ cpc[c] = "connect" /\ c \notin outlived => Protected(c)
    /\ (InQueue(c) \/ c \in calling) /\ c \notin outlived => Protected(c)

(* Every name was bound by a client that has been started, and one that is *)
(* there when its process id binds is not that client's to remove.         *)
Early == {"unborn", "unlink", "bind"}
Leaves(o, i) == Pid[o] = i /\ Uid[o] = names[i].owner /\ cpc[o] \notin Early
NamesLeft ==
  /\ \A i \in Pids : names[i] # NoName => \E o \in Callers : Leaves(o, i)
  /\ \A c \in Callers :
       cpc[c] = "bind" => names[Pid[c]] = NoName \/ ~MayRemove(Uid[c], names[Pid[c]].owner)

ConnInv == ConnTypes /\ OnePerPid /\ QueuedOnce /\ NamesOwn /\ NamesLeft /\ CallerIdentified

LEMMA ConnStarts == ConnInit => ConnInv
<1> SUFFICES ASSUME ConnInit PROVE ConnInv
  OBVIOUS
<1>1. names \in [Pids -> NameType]
  BY DEF ConnInit, NoName, NameType, Owners
<1>2. queue = <<>> /\ calling = {} /\ \A c \in Callers : cpc[c] = "unborn" /\ result[c] = "none"
  BY DEF ConnInit, NoCall
<1>3. ConnTypes
  BY <1>1, <1>2 DEF ConnInit, ConnTypes, Stages
<1>4. DOMAIN queue = {} /\ \A c \in Callers : ~InQueue(c)
  <2>1. DOMAIN queue = 1 .. 0
    BY <1>2
  <2> QED
    BY <2>1 DEF InQueue
<1>5. OnePerPid /\ QueuedOnce /\ NamesOwn /\ CallerIdentified
  BY <1>2, <1>4 DEF OnePerPid, QueuedOnce, NamesOwn, CallerIdentified
<1>6. NamesLeft
  <2>1. \A i \in Pids : names[i] = NoName
    BY DEF ConnInit
  <2>2. \A c \in Callers : cpc[c] # "bind"
    BY <1>2
  <2> QED
    BY <2>1, <2>2 DEF NamesLeft
<1> QED
  BY <1>3, <1>5, <1>6 DEF ConnInv

(* Every step keeps the types.                                             *)
LEMMA ConnTyping == ConnTypes /\ [ConnNext]_connVars => ConnTypes'
<1> SUFFICES ASSUME ConnTypes, [ConnNext]_connVars PROVE ConnTypes'
  OBVIOUS
<1> USE DEF ConnTypes, NameType, Stages, Pids
<1>0. NoName \in NameType
  BY DEF NoName, Owners
<1>1. ASSUME NEW c \in Callers, Start(c) \/ CliUnlink(c) \/ CliEnds(c)
      PROVE ConnTypes'
  BY <1>0, <1>1 DEF Start, CliUnlink, CliEnds, ServerSame, To, Without
<1>2. ASSUME NEW c \in Callers, CliBind(c) PROVE ConnTypes'
  <2>1. [owner |-> Uid[c], mode |-> "umask", stale |-> FALSE] \in NameType
    <3>1. Uid[c] \in Owners
      BY DEF Owners
    <3> QED
      BY <3>1
  <2> HIDE DEF NameType
  <2> QED
    BY <1>2, <2>1 DEF CliBind, ServerSame, To
<1>3. ASSUME NEW c \in Callers, CliChmod(c) PROVE ConnTypes'
  <2>1. [names[Pid[c]] EXCEPT !.mode = "rwx------"] \in NameType
    OBVIOUS
  <2>2. names' \in [Pids -> NameType] /\ cpc' \in [Callers -> Stages]
    <3> HIDE DEF NameType
    <3> QED
      BY <1>3, <2>1 DEF CliChmod, To
  <2> QED
    BY <1>3, <2>2 DEF CliChmod, ServerSame
<1>4. ASSUME NEW c \in Callers, CliConnect(c) PROVE ConnTypes'
  <2>1. /\ UNCHANGED <<names, server, calling, result>>
        /\ queue' = queue \/ queue' = Append(queue, c)
        /\ cpc' \in [Callers -> Stages]
    BY <1>4 DEF CliConnect, To
  <2>2. queue' \in Seq(Callers)
    BY <2>1
  <2> HIDE DEF NameType
  <2> QED
    BY <2>1, <2>2
<1>5. ASSUME NEW c \in Callers, serv_accept(c) PROVE ConnTypes'
  BY <1>5 DEF serv_accept, NoCall
<1>6. ASSUME NEW c \in Callers, ServUnlink(c) PROVE ConnTypes'
  BY <1>0, <1>6 DEF ServUnlink, NoCall, Without
<1>7. CASE serv_listen \/ ServerDies
  <2>1. /\ queue' = <<>> /\ calling' \subseteq Callers /\ UNCHANGED <<cpc, names, result>>
        /\ server' \in {"down", "accept"}
    BY <1>7 DEF serv_listen, ServerDies, NoCall
  <2> QED
    BY <2>1
<1>8. CASE Accept
  BY <1>8 DEF Accept
<1>9. CASE Tick
  <2>1. \A i \in Pids : [names[i] EXCEPT !.stale = TRUE] \in NameType
    OBVIOUS
  <2>2. names' \in [Pids -> NameType]
    <3> HIDE DEF NameType
    <3> QED
      BY <1>0, <1>9, <2>1 DEF Tick
  <2> QED
    BY <1>9, <2>2 DEF Tick
<1>10. CASE UNCHANGED connVars
  BY <1>10 DEF connVars
<1> QED
  BY <1>1, <1>2, <1>3, <1>4, <1>5, <1>6, <1>7, <1>8, <1>9, <1>10 DEF ConnNext

(* A step of the client c, before it connects, to another stage.           *)
LEMMA ConnPids ==
  ASSUME ConnInv, [ConnNext]_connVars, ConnTypes'
  PROVE  OnePerPid'
<1> USE DEF ConnInv, ConnTypes, OnePerPid, Gone, Before
<1>1. ASSUME NEW c \in Callers, Start(c) PROVE OnePerPid'
  <2>1. /\ cpc[c] = "unborn" /\ cpc'[c] = "unlink" /\ \A d \in Callers : d # c => cpc'[d] = cpc[d]
        /\ outlived \subseteq outlived'
        /\ \A o \in Callers : Pid[o] = Pid[c] => cpc[o] \in Gone
        /\ \A o \in Callers :
             cpc[o] = "dead" /\ Pid[o] = Pid[c] /\ MayRemove(Uid[c], Uid[o]) => o \in outlived'
    BY <1>1 DEF Start, To
  <2>2. ASSUME NEW o \in Callers, o # c, Pid[o] = Pid[c], cpc'[o] # "unborn" PROVE Before(o, c)'
    BY <2>1, <2>2
  <2>3. ASSUME NEW o \in Callers, NEW d \in Callers, o # c, d # c, Before(o, d) PROVE Before(o, d)'
    BY <2>1, <2>3
  <2> HIDE DEF Before
  <2> QED
    BY <2>1, <2>2, <2>3
<1>2. ASSUME NEW c \in Callers,
             CliUnlink(c) \/ CliBind(c) \/ CliChmod(c) \/ CliConnect(c) \/ CliEnds(c)
      PROVE OnePerPid'
  <2>1. /\ cpc[c] \notin Gone /\ outlived' = outlived
        /\ cpc'[c] # "unborn" /\ \A d \in Callers : d # c => cpc'[d] = cpc[d]
    BY <1>2 DEF CliUnlink, CliBind, CliChmod, CliConnect, CliEnds, To
  <2>2. ASSUME NEW o \in Callers, NEW d \in Callers, Before(o, d) PROVE Before(o, d)'
    BY <2>1, <2>2
  <2> HIDE DEF Before
  <2> QED
    BY <2>1, <2>2
<1>3. CASE \/ \E c \in Callers : serv_accept(c) \/ ServUnlink(c)
           \/ serv_listen \/ Accept \/ ServerDies \/ Tick \/ UNCHANGED connVars
  <2>1. cpc' = cpc /\ outlived \subseteq outlived'
    BY <1>3 DEF serv_accept, ServUnlink, serv_listen, Accept, ServerDies, Tick, connVars
  <2> QED
    BY <2>1
<1> QED
  BY <1>1, <1>2, <1>3 DEF ConnNext

LEMMA ConnQueue ==
  ASSUME ConnInv, [ConnNext]_connVars, ConnTypes'
  PROVE  QueuedOnce'
<1> USE DEF ConnInv, ConnTypes, QueuedOnce, InQueue
<1>1. ASSUME NEW c \in Callers,
             Start(c) \/ CliUnlink(c) \/ CliBind(c) \/ CliChmod(c) \/ CliEnds(c)
      PROVE QueuedOnce'
  <2>1. /\ queue' = queue /\ calling' = calling
        /\ cpc[c] \in {"connected", "dead"} => cpc'[c] = "dead"
        /\ \A d \in Callers : d # c => cpc'[d] = cpc[d]
    BY <1>1 DEF Start, CliUnlink, CliBind, CliChmod, CliEnds, To, ServerSame, Gone
  <2> QED
    BY <2>1
<1>2. ASSUME NEW c \in Callers, CliConnect(c) PROVE QueuedOnce'
  <2>1. /\ calling' = calling /\ cpc[c] = "connect"
        /\ \A d \in Callers : d # c => cpc'[d] = cpc[d]
        /\ \/ queue' = queue
           \/ queue' = Append(queue, c) /\ cpc'[c] = "connected"
    BY <1>2 DEF CliConnect, To
  <2>2. ~InQueue(c) /\ c \notin calling
    BY <2>1
  <2>3. CASE queue' = queue
    BY <2>1, <2>2, <2>3
  <2>4. CASE queue' = Append(queue, c) /\ cpc'[c] = "connected"
    <3>1. /\ DOMAIN queue' = 1 .. Len(queue) + 1 /\ queue'[Len(queue) + 1] = c
          /\ DOMAIN queue = 1 .. Len(queue) /\ Len(queue) \in Nat
          /\ \A i \in DOMAIN queue : queue'[i] = queue[i]
      BY <2>4
    <3> QED
      BY <2>1, <2>2, <2>4, <3>1
  <2> QED
    BY <2>1, <2>3, <2>4
<1>3. ASSUME NEW c \in Callers, serv_accept(c) \/ ServUnlink(c) PROVE QueuedOnce'
  BY <1>3 DEF serv_accept, ServUnlink, NoCall
<1>4. CASE serv_listen \/ ServerDies \/ Tick \/ UNCHANGED connVars
  BY <1>4 DEF serv_listen, ServerDies, Tick, connVars, NoCall
<1>5. CASE Accept
  <2>1. /\ calling' = {queue[1]} /\ cpc' = cpc /\ 1 \in DOMAIN queue
        /\ \A i \in DOMAIN queue' : queue'[i] = queue[i + 1] /\ i + 1 \in DOMAIN queue
        /\ DOMAIN queue' \subseteq Nat \ {0} /\ DOMAIN queue \subseteq Nat \ {0}
    BY <1>5 DEF Accept
  <2> QED
    BY <2>1
<1> QED
  BY <1>1, <1>2, <1>3, <1>4, <1>5 DEF ConnNext

(* A step that leaves a client's own name, what is known of the client and *)
(* what it waits for.                                                      *)
LEMMA ConnNames ==
  ASSUME ConnInv, [ConnNext]_connVars, ConnTypes'
  PROVE  NamesOwn'
<1> USE DEF ConnInv, ConnTypes
<1>0. \A c \in Callers : Pid[c] \in Pids
  BY DEF Pids
<1>1. ASSUME NEW c \in Callers, Start(c) PROVE NamesOwn'
  <2>1. /\ UNCHANGED <<names, queue, calling, server, waited>> /\ outlived \subseteq outlived'
        /\ cpc' = [cpc EXCEPT ![c] = "unlink"]
    BY <1>1 DEF Start, To, ServerSame
  <2> QED
    BY <2>1 DEF NamesOwn, Bound, Protected, InQueue
<1>2. ASSUME NEW c \in Callers, CliUnlink(c) PROVE NamesOwn'
  <2>1. /\ UNCHANGED <<queue, calling, server, waited, outlived>>
        /\ cpc[c] = "unlink" /\ cpc' = [cpc EXCEPT ![c] = "bind"]
        /\ ~MayRemove(Uid[c], names[Pid[c]].owner) => names' = names
        /\ \A d \in Callers : Pid[d] # Pid[c] => names'[Pid[d]] = names[Pid[d]]
    BY <1>0, <1>2 DEF CliUnlink, To, ServerSame, Without
  <2>2. ASSUME NEW d \in Callers, d # c, Pid[d] = Pid[c], cpc[d] # "unborn"
        PROVE  cpc[d] = "dead" /\ (d \notin outlived => ~MayRemove(Uid[c], Uid[d]))
    BY <2>1, <2>2 DEF OnePerPid, Before
  <2>3. ~InQueue(c) /\ c \notin calling
    BY <2>1 DEF QueuedOnce
  <2>4. ASSUME NEW d \in Callers PROVE cpc'[d] = IF d = c THEN "bind" ELSE cpc[d]
    BY <2>1
  <2>5. ASSUME NEW d \in Callers, InQueue(d) \/ d \in calling PROVE cpc[d] \in {"connected", "dead"}
    BY <2>5 DEF QueuedOnce
  <2>6. ASSUME NEW d \in Callers, d # c, d \notin outlived, Bound(d), cpc[d] # "unborn"
        PROVE  names'[Pid[d]] = names[Pid[d]]
    <3>1. CASE Pid[d] = Pid[c]
      BY <2>1, <2>2, <2>6, <3>1 DEF Bound
    <3> QED
      BY <2>1, <2>6, <3>1
  <2> QED
    BY <2>1, <2>3, <2>4, <2>5, <2>6 DEF NamesOwn, Bound, Protected, InQueue
<1>3. ASSUME NEW c \in Callers, CliBind(c) \/ CliChmod(c) PROVE NamesOwn'
  <2>1. /\ UNCHANGED <<queue, calling, server, waited, outlived>>
        /\ cpc[c] \in {"bind", "chmod"}
        /\ \A d \in Callers : Pid[d] # Pid[c] => names'[Pid[d]] = names[Pid[d]]
    BY <1>0, <1>3 DEF CliBind, CliChmod, To, ServerSame
  <2>2. ASSUME NEW d \in Callers, d # c, Bound(d)
        PROVE  Bound(d)' /\ (Protected(d) => Protected(d)')
    <3>1. CASE CliBind(c)
      <4>1. names' = names \/ names[Pid[c]] = NoName
        BY <3>1 DEF CliBind
      <4>2. names'[Pid[d]] = names[Pid[d]]
        BY <2>1, <2>2, <4>1 DEF Bound, NoName
      <4> QED
        BY <2>1, <2>2, <4>2 DEF Bound, Protected
    <3>2. CASE CliChmod(c)
      <4>1. \/ names'[Pid[d]] = names[Pid[d]]
            \/ names'[Pid[d]] = [names[Pid[d]] EXCEPT !.mode = "rwx------"]
        <5>1. names' = names \/ names' = [names EXCEPT ![Pid[c]].mode = "rwx------"]
          BY <3>2 DEF CliChmod
        <5>2. Pid[d] \in Pids /\ DOMAIN names = Pids
          BY <1>0
        <5>3. CASE Pid[d] # Pid[c]
          BY <5>1, <5>2, <5>3
        <5>4. CASE Pid[d] = Pid[c]
          BY <5>1, <5>2, <5>4, Zenon
        <5> QED
          BY <5>3, <5>4
      <4>2. names[Pid[d]] \in NameType
        BY <1>0
      <4> QED
        BY <2>1, <2>2, <4>1, <4>2 DEF Bound, Protected, NameType
    <3> QED
      BY <1>3, <3>1, <3>2
  <2>3. ~InQueue(c) /\ c \notin calling
    BY <2>1 DEF QueuedOnce
  <2>4. ASSUME NEW d \in Callers, d # c PROVE cpc'[d] = cpc[d]
    <3>1. \E l \in {"chmod", "taken", "refused", "connect"} : cpc' = [cpc EXCEPT ![c] = l]
      BY <1>3, Zenon DEF CliBind, CliChmod, To
    <3> QED
      BY <2>4, <3>1
  <2>5. ASSUME NEW d \in Callers, InQueue(d) \/ d \in calling PROVE cpc[d] \in {"connected", "dead"}
    BY <2>5 DEF QueuedOnce
  <2>6. /\ cpc'[c] = "chmod" /\ c \notin outlived => Bound(c)'
        /\ cpc'[c] = "connect" /\ c \notin outlived => Protected(c)'
    <3>1. CASE CliBind(c)
      <4>1. /\ cpc'[c] \in {"taken", "chmod"}
            /\ cpc'[c] = "chmod" =>
                 names'[Pid[c]] = [owner |-> Uid[c], mode |-> "umask", stale |-> FALSE]
        BY <1>0, <3>1 DEF CliBind, To
      <4> QED
        BY <4>1 DEF Bound
    <3>2. CASE CliChmod(c)
      <4>1. /\ cpc'[c] \in {"refused", "connect"} /\ cpc[c] = "chmod"
            /\ cpc'[c] = "connect" => names'[Pid[c]] = [names[Pid[c]] EXCEPT !.mode = "rwx------"]
        BY <1>0, <3>2 DEF CliChmod, To
      <4>2. c \notin outlived => Bound(c) /\ names[Pid[c]] \in NameType
        BY <1>0, <4>1 DEF NamesOwn
      <4> QED
        BY <2>1, <4>1, <4>2 DEF Bound, Protected, NameType
    <3> QED
      BY <1>3, <3>1, <3>2
  <2> QED
    BY <2>1, <2>2, <2>3, <2>4, <2>5, <2>6 DEF NamesOwn, Bound, Protected, InQueue
<1>4. ASSUME NEW c \in Callers, CliConnect(c) PROVE NamesOwn'
  <2>1. /\ UNCHANGED <<names, calling, server, waited, outlived>> /\ cpc[c] = "connect"
        /\ \A d \in Callers : d # c => cpc'[d] = cpc[d]
        /\ cpc'[c] \in {"refused", "connected"}
        /\ queue' = queue \/ queue' = Append(queue, c)
    BY <1>4 DEF CliConnect, To
  <2>2. ASSUME NEW d \in Callers, InQueue(d)' PROVE InQueue(d) \/ d = c
    <3>1. CASE queue' = queue
      BY <2>2, <3>1 DEF InQueue
    <3>2. CASE queue' = Append(queue, c)
      <4>1. /\ DOMAIN queue' = 1 .. Len(queue) + 1 /\ queue'[Len(queue) + 1] = c
            /\ DOMAIN queue = 1 .. Len(queue) /\ Len(queue) \in Nat
            /\ \A i \in DOMAIN queue : queue'[i] = queue[i]
        BY <3>2
      <4> HIDE DEF ConnInv, ConnTypes
      <4> QED
        BY <2>2, <4>1 DEF InQueue
    <3> QED
      BY <2>1, <3>1, <3>2
  <2>3. \A d \in Callers : Protected(d)' = Protected(d) /\ Bound(d)' = Bound(d)
    BY <2>1 DEF Protected, Bound
  <2> QED
    BY <2>1, <2>2, <2>3 DEF NamesOwn
<1>5. ASSUME NEW c \in Callers, CliEnds(c) PROVE NamesOwn'
  BY <1>5 DEF CliEnds, ServerSame, NamesOwn, Bound, Protected, InQueue
<1>6. ASSUME NEW c \in Callers, serv_accept(c) PROVE NamesOwn'
  <2>1. UNCHANGED <<cpc, names, queue, outlived, waited>> /\ calling' \subseteq calling
    BY <1>6 DEF serv_accept, NoCall
  <2> QED
    BY <2>1 DEF NamesOwn, Bound, Protected, InQueue
<1>7. ASSUME NEW c \in Callers, ServUnlink(c) PROVE NamesOwn'
  <2>1. /\ UNCHANGED <<queue, cpc, waited>> /\ calling' = {} /\ c \in calling
        /\ \A d \in Callers : Pid[d] # Pid[c] => names'[Pid[d]] = names[Pid[d]]
        /\ outlived \subseteq outlived'
        /\ \A o \in Callers :
             c \in outlived /\ Pid[o] = Pid[c] /\ cpc[o] # "unborn" => o \in outlived'
    BY <1>0, <1>7 DEF ServUnlink, Without, NoCall
  <2>2. ~InQueue(c) /\ cpc[c] \in {"connected", "dead"}
    BY <2>1 DEF QueuedOnce
  <2>3. \A d \in Callers : InQueue(d) => cpc[d] # "unborn"
    BY DEF QueuedOnce
  <2>4. ASSUME NEW d \in Callers, d # c, d \notin outlived', Bound(d), cpc[d] # "unborn"
        PROVE  names'[Pid[d]] = names[Pid[d]]
    <3>1. CASE Pid[d] = Pid[c]
      <4>1. c \notin outlived /\ d \notin outlived /\ Protected(c)
        BY <2>1, <2>4, <3>1 DEF NamesOwn
      <4>2. Uid[c] = Uid[d]
        BY <2>4, <3>1, <4>1 DEF Protected, Bound
      <4>3. Before(c, d) \/ Before(d, c)
        BY <2>2, <2>4, <3>1 DEF OnePerPid
      <4> QED
        BY <4>1, <4>2, <4>3 DEF Before, MayRemove
    <3> QED
      BY <2>1, <3>1
  <2> QED
    BY <2>1, <2>2, <2>3, <2>4 DEF NamesOwn, Bound, Protected, InQueue
<1>8. CASE serv_listen \/ ServerDies
  <2>1. /\ UNCHANGED <<names, cpc, waited, outlived>> /\ calling' \subseteq calling /\ queue' = <<>>
    BY <1>8 DEF serv_listen, ServerDies, NoCall
  <2>2. \A d \in Callers : ~InQueue(d)'
    BY <2>1 DEF InQueue
  <2> QED
    BY <2>1, <2>2 DEF NamesOwn, Bound, Protected
<1>9. CASE Accept
  <2>1. /\ UNCHANGED <<names, cpc, waited, outlived>> /\ calling' = {queue[1]} /\ 1 \in DOMAIN queue
        /\ \A i \in DOMAIN queue' : queue'[i] = queue[i + 1] /\ i + 1 \in DOMAIN queue
    BY <1>9 DEF Accept
  <2>2. \A d \in Callers : InQueue(d)' \/ d \in calling' => InQueue(d)
    BY <2>1 DEF InQueue
  <2> QED
    BY <2>1, <2>2 DEF NamesOwn, Bound, Protected
<1>10. CASE Tick
  <2>1. /\ UNCHANGED <<queue, cpc, calling, server, outlived>>
        /\ waited' = waited \cup {c \in Callers : cpc[c] \notin {"unborn", "unlink", "bind"}}
    BY <1>10 DEF Tick
  <2>2. ASSUME NEW c \in Callers
        PROVE  /\ names[Pid[c]] = NoName => names'[Pid[c]] = NoName
               /\ names'[Pid[c]].owner = names[Pid[c]].owner
               /\ names'[Pid[c]].mode = names[Pid[c]].mode
    <3>1. names[Pid[c]] \in NameType
      BY <1>0
    <3>2. names'[Pid[c]] = IF names[Pid[c]] = NoName THEN NoName
                           ELSE [names[Pid[c]] EXCEPT !.stale = TRUE]
      BY <1>0, <1>10 DEF Tick
    <3> QED
      BY <3>1, <3>2 DEF NameType
  <2>3. ASSUME NEW c \in Callers, Bound(c), cpc[c] \notin {"unborn", "unlink", "bind"}
        PROVE  Bound(c)'
    BY <2>1, <2>2, <2>3 DEF Bound
  <2>4. \A c \in Callers : InQueue(c) \/ c \in calling => cpc[c] \in {"connected", "dead"}
    BY DEF QueuedOnce
  <2>5. \A c \in Callers : InQueue(c)' = InQueue(c)
    BY <2>1 DEF InQueue
  <2> QED
    BY <2>1, <2>2, <2>3, <2>4, <2>5 DEF NamesOwn, Protected
<1>11. CASE UNCHANGED connVars
  BY <1>11 DEF connVars, NamesOwn, Bound, Protected, InQueue
<1> QED
  BY <1>1, <1>2, <1>3, <1>4, <1>5, <1>6, <1>7, <1>8, <1>9, <1>10, <1>11 DEF ConnNext

LEMMA DeadStay ==
  ASSUME ConnTypes, [ConnNext]_connVars
  PROVE  \A o \in Callers :
           /\ cpc[o] = "dead" => cpc'[o] = "dead"
           /\ cpc[o] \notin Early => cpc'[o] \notin Early
<1> USE DEF ConnTypes, Early
<1>1. ASSUME NEW c \in Callers,
             Start(c) \/ CliUnlink(c) \/ CliBind(c) \/ CliChmod(c) \/ CliConnect(c) \/ CliEnds(c)
      PROVE  /\ \A o \in Callers : o # c => cpc'[o] = cpc[o]
             /\ cpc[c] # "dead" /\ (cpc[c] \notin Early => cpc'[c] \notin Early)
  BY <1>1 DEF Start, CliUnlink, CliBind, CliChmod, CliConnect, CliEnds, To, Gone
<1>2. CASE \/ \E c \in Callers : serv_accept(c) \/ ServUnlink(c)
           \/ serv_listen \/ Accept \/ ServerDies \/ Tick \/ UNCHANGED connVars
  BY <1>2 DEF serv_accept, ServUnlink, serv_listen, Accept, ServerDies, Tick, connVars
<1> QED
  BY <1>1, <1>2 DEF ConnNext

(* No step gives a name to a process id but the bind of one that has it.   *)
LEMMA ConnLeft ==
  ASSUME ConnInv, [ConnNext]_connVars, ConnTypes'
  PROVE  NamesLeft'
<1> USE DEF ConnInv, ConnTypes
<1>0. \A c \in Callers : Pid[c] \in Pids
  BY DEF Pids
<1>1. ASSUME NEW c \in Callers, Start(c) \/ CliChmod(c) \/ CliConnect(c) \/ CliEnds(c)
      PROVE  /\ \A d \in Callers : cpc'[d] = "bind" => cpc[d] = "bind"
             /\ \A i \in Pids : names'[i] = NoName <=> names[i] = NoName
             /\ \A i \in Pids : names'[i].owner = names[i].owner
  <2>1. \A d \in Callers : cpc'[d] = "bind" => cpc[d] = "bind"
    BY <1>1 DEF Start, CliChmod, CliConnect, CliEnds, To
  <2>2. CASE CliChmod(c)
    <3>1. ASSUME NEW i \in Pids
          PROVE  \/ names'[i] = names[i]
                 \/ names[i] # NoName /\ names'[i] = [names[i] EXCEPT !.mode = "rwx------"]
      <4>1. \/ names' = names
            \/ /\ names[Pid[c]] # NoName
               /\ names' = [names EXCEPT ![Pid[c]].mode = "rwx------"]
        BY <2>2 DEF CliChmod
      <4>2. DOMAIN names = Pids
        OBVIOUS
      <4>3. CASE i # Pid[c]
        BY <4>1, <4>2, <4>3
      <4>4. CASE i = Pid[c]
        BY <4>1, <4>2, <4>4, Zenon
      <4> QED
        BY <4>3, <4>4
    <3>2. \A i \in Pids : names[i] \in NameType
      OBVIOUS
    <3> QED
      BY <2>1, <3>1, <3>2 DEF NameType, NoName
  <2> QED
    BY <1>1, <2>1, <2>2 DEF Start, CliConnect, CliEnds, ServerSame
<1>2. CASE \/ \E c \in Callers : serv_accept(c)
           \/ serv_listen \/ Accept \/ ServerDies \/ UNCHANGED connVars
  BY <1>2 DEF serv_accept, serv_listen, Accept, ServerDies, connVars, NamesLeft, Leaves
<1>3. ASSUME UNCHANGED cpc \/ \A d \in Callers : cpc'[d] = "bind" => cpc[d] = "bind",
             \A i \in Pids : names'[i] = NoName \/ (names[i] # NoName /\ names'[i].owner = names[i].owner)
      PROVE  NamesLeft'
  <2>1. ASSUME NEW i \in Pids, names'[i] # NoName PROVE \E o \in Callers : Leaves(o, i)'
    <3>1. PICK o \in Callers : Leaves(o, i)
      BY <1>3, <2>1 DEF NamesLeft
    <3>2. cpc'[o] \notin Early
      BY <3>1, DeadStay DEF Leaves
    <3> QED
      BY <1>3, <2>1, <3>1, <3>2 DEF Leaves
  <2>2. ASSUME NEW c \in Callers, cpc'[c] = "bind"
        PROVE  names'[Pid[c]] = NoName \/ ~MayRemove(Uid[c], names'[Pid[c]].owner)
    BY <1>0, <1>3, <2>2 DEF NamesLeft
  <2> QED
    BY <2>1, <2>2 DEF NamesLeft
<1>4. ASSUME NEW c \in Callers, ServUnlink(c) PROVE NamesLeft'
  <2>1. cpc' = cpc /\ \A i \in Pids : names'[i] \in {NoName, names[i]}
    BY <1>0, <1>4 DEF ServUnlink, Without
  <2> QED
    BY <1>3, <2>1
<1>5. CASE Tick
  <2>1. cpc' = cpc
    BY <1>5 DEF Tick
  <2>2. ASSUME NEW i \in Pids
        PROVE  names'[i] = NoName \/ (names[i] # NoName /\ names'[i].owner = names[i].owner)
    <3>1. names'[i] = IF names[i] = NoName THEN NoName ELSE [names[i] EXCEPT !.stale = TRUE]
      BY <1>5 DEF Tick
    <3>2. names[i] \in NameType
      OBVIOUS
    <3> QED
      BY <3>1, <3>2 DEF NameType
  <2> QED
    BY <1>3, <2>1, <2>2
<1>6. ASSUME NEW c \in Callers, CliUnlink(c) PROVE NamesLeft'
  <2>1. /\ \A d \in Callers : d # c => cpc'[d] = cpc[d]
        /\ cpc[c] = "unlink" /\ cpc'[c] = "bind"
        /\ \A i \in Pids : names'[i] \in {NoName, names[i]}
        /\ names'[Pid[c]] = NoName \/ ~MayRemove(Uid[c], names'[Pid[c]].owner)
    BY <1>0, <1>6 DEF CliUnlink, Without, To
  <2>2. ASSUME NEW i \in Pids, names'[i] # NoName PROVE \E o \in Callers : Leaves(o, i)'
    <3>1. PICK o \in Callers : Leaves(o, i)
      BY <2>1, <2>2 DEF NamesLeft
    <3>2. cpc'[o] \notin Early
      BY <3>1, DeadStay DEF Leaves
    <3> QED
      BY <2>1, <2>2, <3>1, <3>2 DEF Leaves
  <2>3. ASSUME NEW d \in Callers, cpc'[d] = "bind"
        PROVE  names'[Pid[d]] = NoName \/ ~MayRemove(Uid[d], names'[Pid[d]].owner)
    <3>1. CASE d = c
      BY <2>1, <3>1
    <3>2. CASE d # c
      <4>1. names[Pid[d]] = NoName \/ ~MayRemove(Uid[d], names[Pid[d]].owner)
        BY <2>1, <2>3, <3>2 DEF NamesLeft
      <4> QED
        BY <1>0, <2>1, <4>1
    <3> QED
      BY <3>1, <3>2
  <2> QED
    BY <2>2, <2>3 DEF NamesLeft
<1>7. ASSUME NEW c \in Callers, CliBind(c) PROVE NamesLeft'
  <2>1. cpc[c] = "bind" /\ \A d \in Callers : d # c => cpc'[d] = cpc[d]
    BY <1>7 DEF CliBind, To
  <2>2. CASE names[Pid[c]] # NoName
    <3>1. names' = names /\ cpc'[c] = "taken"
      BY <1>7, <2>2 DEF CliBind, To
    <3>2. \A d \in Callers : cpc'[d] = "bind" => cpc[d] = "bind"
      BY <2>1, <3>1
    <3> QED
      BY <1>3, <3>1, <3>2
  <2>3. CASE names[Pid[c]] = NoName
    <3> DEFINE new == [owner |-> Uid[c], mode |-> "umask", stale |-> FALSE]
    <3>1. names' = [names EXCEPT ![Pid[c]] = new] /\ cpc'[c] = "chmod"
      BY <1>7, <2>3 DEF CliBind, To
    <3>2. new.owner = Uid[c]
      OBVIOUS
    <3> HIDE DEF new
    <3>3. names'[Pid[c]].owner = Uid[c] /\ \A i \in Pids : i # Pid[c] => names'[i] = names[i]
      BY <1>0, <3>1, <3>2
    <3>4. ASSUME NEW i \in Pids, names'[i] # NoName PROVE \E o \in Callers : Leaves(o, i)'
      <4>1. CASE i = Pid[c]
        BY <3>1, <3>3, <4>1 DEF Leaves, Early
      <4>2. CASE i # Pid[c]
        <5>1. PICK o \in Callers : Leaves(o, i)
          BY <3>3, <3>4, <4>2 DEF NamesLeft
        <5>2. cpc'[o] \notin Early
          BY <5>1, DeadStay DEF Leaves
        <5> QED
          BY <3>3, <4>2, <5>1, <5>2 DEF Leaves
      <4> QED
        BY <4>1, <4>2
    <3>5. ASSUME NEW d \in Callers, cpc'[d] = "bind"
          PROVE  names'[Pid[d]] = NoName \/ ~MayRemove(Uid[d], names'[Pid[d]].owner)
      <4>1. d # c /\ cpc[d] = "bind"
        BY <2>1, <3>1, <3>5
      <4>2. Pid[d] # Pid[c]
        BY <2>1, <4>1 DEF OnePerPid, Before
      <4> QED
        BY <1>0, <3>3, <4>1, <4>2 DEF NamesLeft
    <3> QED
      BY <3>4, <3>5 DEF NamesLeft
  <2> QED
    BY <2>2, <2>3
<1>8. ASSUME NEW c \in Callers, Start(c) \/ CliChmod(c) \/ CliConnect(c) \/ CliEnds(c) PROVE NamesLeft'
  BY <1>1, <1>3, <1>8
<1> QED
  BY <1>2, <1>4, <1>5, <1>6, <1>7, <1>8 DEF ConnNext

LEMMA ConnCallers ==
  ASSUME ConnInv, [ConnNext]_connVars, ConnTypes'
  PROVE  CallerIdentified'
<1> USE DEF ConnInv, ConnTypes
<1>1. ASSUME NEW c \in Callers, cpc'[c] = "taken"
      PROVE  \E o \in Callers : cpc'[o] = "dead" /\ Pid[o] = Pid[c] /\ ~MayRemove(Uid[c], Uid[o])
  <2>1. \A o \in Callers : cpc[o] = "dead" => cpc'[o] = "dead"
    BY DeadStay
  <2>2. CASE cpc[c] = "taken"
    BY <2>1, <2>2 DEF CallerIdentified
  <2>3. CASE cpc[c] # "taken"
    <3>1. CliBind(c)
      <4>1. ASSUME NEW d \in Callers,
                   Start(d) \/ CliUnlink(d) \/ CliBind(d) \/ CliChmod(d) \/ CliConnect(d) \/ CliEnds(d)
            PROVE  CliBind(c)
        BY <1>1, <2>3, <4>1 DEF Start, CliUnlink, CliBind, CliChmod, CliConnect, CliEnds, To
      <4>2. ASSUME NEW d \in Callers, serv_accept(d) \/ ServUnlink(d) PROVE cpc' = cpc
        BY <4>2 DEF serv_accept, ServUnlink
      <4>3. CASE serv_listen \/ Accept \/ ServerDies \/ Tick \/ UNCHANGED connVars
        BY <1>1, <2>3, <4>3 DEF serv_listen, Accept, ServerDies, Tick, connVars
      <4> QED
        BY <1>1, <2>3, <4>1, <4>2, <4>3 DEF ConnNext
    <3>2. cpc[c] = "bind" /\ names[Pid[c]] # NoName /\ Pid[c] \in Pids
      BY <1>1, <3>1 DEF CliBind, To, Pids
    <3>3. PICK o \in Callers : Leaves(o, Pid[c])
      BY <3>2 DEF NamesLeft
    <3>4. ~MayRemove(Uid[c], Uid[o]) /\ o # c /\ Pid[o] = Pid[c]
      BY <3>2, <3>3 DEF NamesLeft, Leaves, Early
    <3>5. cpc[o] = "dead"
      BY <3>2, <3>3, <3>4 DEF OnePerPid, Before, Leaves, Early
    <3> QED
      BY <2>1, <3>4, <3>5
  <2> QED
    BY <2>2, <2>3
<1>2. ASSUME NEW c \in Callers, result'[c] # "none", c \notin outlived'
      PROVE  result'[c] = Uid[c] \/ (result'[c] = "too old" /\ c \in waited')
  <2>1. outlived \subseteq outlived' /\ waited \subseteq waited'
    BY DEF ConnNext, Start, CliUnlink, CliBind, CliChmod, CliConnect, CliEnds, serv_accept,
       ServUnlink, serv_listen, Accept, ServerDies, Tick, connVars, ServerSame
  <2>2. CASE serv_accept(c)
    <3>1. Protected(c) /\ result'[c] = Verdict(names[Pid[c]])
      BY <1>2, <2>1, <2>2 DEF serv_accept, NamesOwn
    <3>2. names[Pid[c]] # NoName
      BY <3>1 DEF Protected, NoName
    <3> QED
      BY <2>1, <3>1, <3>2 DEF Verdict, Protected, Bound
  <2>3. CASE ~serv_accept(c)
    <3>1. result'[c] = result[c]
      <4>1. ASSUME NEW d \in Callers, serv_accept(d) PROVE result'[c] = result[c]
        BY <2>3, <4>1 DEF serv_accept
      <4>2. ASSUME NEW d \in Callers,
                   \/ Start(d) \/ CliUnlink(d) \/ CliBind(d) \/ CliChmod(d) \/ CliConnect(d)
                   \/ CliEnds(d) \/ ServUnlink(d)
            PROVE  result'[c] = result[c]
        BY <4>2 DEF Start, CliUnlink, CliBind, CliChmod, CliConnect, CliEnds, ServUnlink, ServerSame
      <4>3. CASE serv_listen \/ Accept \/ ServerDies \/ Tick \/ UNCHANGED connVars
        BY <4>3 DEF serv_listen, Accept, ServerDies, Tick, connVars
      <4> QED
        BY <4>1, <4>2, <4>3 DEF ConnNext
    <3> QED
      BY <1>2, <2>1, <3>1 DEF CallerIdentified
  <2> QED
    BY <2>2, <2>3
<1> QED
  BY <1>1, <1>2 DEF CallerIdentified

(* Whoever calls, dies and calls again, and however often the server is    *)
(* restarted: the server takes a client it accepts for who it is, and      *)
(* refuses only a name that has grown old, unless another process that may *)
(* remove the client's name has had its process id meanwhile; and a bind   *)
(* fails only on the name of a dead process of another user (cli_conn,     *)
(* serv_accept).                                                           *)
THEOREM IdentifiesCallers == ConnSpec => []CallerIdentified
<1>1. ConnInv /\ [ConnNext]_connVars => ConnInv'
  BY ConnTyping, ConnPids, ConnQueue, ConnNames, ConnLeft, ConnCallers DEF ConnInv
<1>2. ConnInv => CallerIdentified
  BY DEF ConnInv
<1> QED
  BY <1>1, <1>2, ConnStarts, PTL DEF ConnSpec

-----------------------------------------------------------------------------
(* The file server over select                                             *)

Commands == {"-get", "-up", "-ls"}
FileTypes ==
  /\ serving \in {"scan", "dead"} \cup Commands /\ buf \in Pieces
  /\ conns \in [Numbers -> Guests \cup {"listen", NoGuest}]
  /\ readfds \subseteq Numbers /\ tmpfds \subseteq readfds
  /\ connfd \in {0} \cup (Numbers \ {Listen})
  /\ knocks \in Seq(Guests) /\ guest \in [Guests -> {"away", "in", "left"}]
  /\ sent \in [Guests -> Seq(Pieces)]

(* Each client that has connected waits in the queue of the listening      *)
(* socket or has one descriptor, and that socket has its own.              *)
Waits(g) == \E i \in DOMAIN knocks : knocks[i] = g
Placed ==
  /\ \A f \in Numbers : conns[f] = "listen" <=> f = Listen
  /\ \A e, f \in Numbers : conns[e] = conns[f] => conns[e] = NoGuest \/ e = f
  /\ \A i, j \in DOMAIN knocks : knocks[i] = knocks[j] => i = j
  /\ \A g \in Guests :
       /\ Waits(g) => guest[g] # "away" /\ \A f \in Numbers : conns[f] # g
       /\ guest[g] = "away" => \A f \in Numbers : conns[f] # g

(* A pass over the descriptors that were readable starts with the listening *)
(* socket, when everything that is watched is open, and goes on to those   *)
(* of clients, whose commands are carried out.                             *)
InPass ==
  /\ Listen \in tmpfds => /\ serving \in {"scan", "dead"} /\ knocks # <<>>
                          /\ \A f \in readfds : conns[f] # NoGuest
  /\ serving \in Commands => tmpfds # {}

FileInv == FileTypes /\ Placed /\ InPass /\ WatchedAreOpen

-----------------------------------------------------------------------------
(* The lowest number of a set that has one.                                *)
LEMMA LowestIs ==
  ASSUME NEW S, S \subseteq Nat, S # {}
  PROVE  Lowest(S) \in S /\ \A e \in S : Lowest(S) <= e
BY LowestNat DEF Lowest

(* There are as many numbers as clients and the listening socket.          *)
LEMMA Numbered ==
  /\ Numbers \subseteq Nat /\ Listen \in Numbers
  /\ IsFiniteSet(Numbers) /\ Cardinality(Numbers) = Cardinality(Guests) + 1
  /\ Listen = 3 /\ 0 \notin Numbers /\ Cardinality(Guests) \in Nat
<1>1. Cardinality(Guests) \in Nat
  BY FileAssumption, FS_CardinalityType
<1> DEFINE n == Cardinality(Guests)
<1>2. n \in Nat
  BY <1>1
<1> HIDE DEF n
<1>3. Numbers = 3 .. 3 + n
  BY DEF Numbers, Listen, n
<1>4. IsFiniteSet(3 .. 3 + n) /\ Cardinality(3 .. 3 + n) = n + 1
  <2>1. 3 \in Int /\ 3 + n \in Int /\ ~(3 > 3 + n) /\ (3 + n) - 3 + 1 = n + 1
    BY <1>2
  <2> QED
    BY <2>1, FS_Interval
<1> QED
  BY <1>1, <1>2, <1>3, <1>4 DEF Listen, n

(* While a client waits to be accepted a number is free.                   *)
LEMMA NumberFree ==
  ASSUME FileTypes, Placed, knocks # <<>>
  PROVE  \E f \in Numbers : conns[f] = NoGuest
<1>1. Head(knocks) \in Guests /\ Waits(Head(knocks))
  BY DEF FileTypes, Waits
<1>2. SUFFICES ASSUME \A f \in Numbers : conns[f] # NoGuest PROVE FALSE
  OBVIOUS
<1> DEFINE Rest == Guests \ {Head(knocks)}
           Others == Rest \cup {"listen"}
<1>3. conns \in [Numbers -> Others]
  <2>1. \A f \in Numbers : conns[f] \in Guests \cup {"listen"} /\ conns[f] # Head(knocks)
    BY <1>1, <1>2 DEF FileTypes, Placed
  <2> QED
    BY <2>1 DEF FileTypes
<1>4. IsFiniteSet(Rest) /\ Cardinality(Rest) = Cardinality(Guests) - 1
  BY <1>1, FileAssumption, FS_RemoveElement
<1>5. "listen" \notin Rest
  BY FileAssumption
<1>6. IsFiniteSet(Others) /\ Cardinality(Others) = Cardinality(Rest) + 1
  <2> HIDE DEF Rest
  <2> QED
    BY <1>4, <1>5, FS_AddElement
<1>7. Cardinality(Others) < Cardinality(Numbers)
  <2> HIDE DEF Others, Rest
  <2> QED
    BY <1>4, <1>6, Numbered
<1> HIDE DEF Others
<1>8. \E e, f \in Numbers : e # f /\ conns[e] = conns[f]
  BY <1>3, <1>6, <1>7, Numbered, FS_PigeonHole
<1> QED
  BY <1>2, <1>8 DEF Placed

(* The descriptor that is looked at.                                       *)
LEMMA LooksAt ==
  ASSUME FileTypes, tmpfds # {}
  PROVE  fd1 \in tmpfds /\ fd1 \in readfds /\ fd1 \in Numbers /\ (Listen \in tmpfds => fd1 = Listen)
<1>1. tmpfds \subseteq Nat /\ tmpfds \subseteq Numbers
  BY Numbered DEF FileTypes
<1>2. fd1 \in tmpfds /\ \A e \in tmpfds : fd1 <= e
  BY <1>1, LowestIs DEF fd1
<1>3. Listen \in tmpfds => fd1 <= Listen
  BY <1>2
<1>4. fd1 >= Listen
  <2>1. \A f \in Numbers : f >= 3
    BY Numbered DEF Numbers, Listen
  <2> QED
    BY <1>1, <1>2, <2>1, Numbered
<1>5. fd1 \in Nat /\ Listen \in Nat
  BY <1>1, <1>2, Numbered
<1> QED
  BY <1>1, <1>2, <1>3, <1>4, <1>5, Numbered DEF FileTypes

LEMMA FileStarts == FileInit => FileInv
<1> SUFFICES ASSUME FileInit PROVE FileInv
  OBVIOUS
<1>1. FileTypes
  BY Numbered DEF FileInit, FileTypes, Pieces
<1>2. \A f \in Numbers : (conns[f] = "listen" <=> f = Listen) /\ (f # Listen => conns[f] = NoGuest)
  BY DEF FileInit, NoGuest
<1>3. DOMAIN knocks = {}
  <2>1. DOMAIN knocks = 1 .. 0
    BY DEF FileInit
  <2> QED
    BY <2>1
<1>4. \A f \in Numbers, g \in Guests : conns[f] # g
  BY <1>2, FileAssumption
<1>5. Placed
  BY <1>2, <1>3, <1>4 DEF Placed, Waits
<1>6. InPass
  BY Numbered DEF FileInit, InPass, Commands
<1>7. WatchedAreOpen
  BY <1>2, Numbered DEF FileInit, WatchedAreOpen, NoGuest
<1> QED
  BY <1>1, <1>5, <1>6, <1>7 DEF FileInv

-----------------------------------------------------------------------------
(* Parts of the invariant that only look at some of the variables.         *)
LEMMA PlacedFramed ==
  ASSUME Placed, UNCHANGED <<conns, knocks, guest>>
  PROVE  Placed'
BY DEF Placed, Waits
LEMMA WatchedFramed ==
  ASSUME WatchedAreOpen, UNCHANGED <<conns, readfds, connfd>>
  PROVE  WatchedAreOpen'
BY DEF WatchedAreOpen

LEMMA ConnectKeeps ==
  ASSUME FileInv, NEW g \in Guests, Connect(g)
  PROVE  FileInv'
<1> USE DEF FileInv
<1>1. UNCHANGED servVars /\ UNCHANGED <<serving, conns, readfds, tmpfds, connfd, buf, sent>>
  BY DEF Connect, servVars
<1>2. /\ knocks \in Seq(Guests) /\ knocks' \in Seq(Guests) /\ knocks' # <<>>
      /\ DOMAIN knocks = 1 .. Len(knocks) /\ DOMAIN knocks' = 1 .. Len(knocks) + 1
      /\ \A i \in DOMAIN knocks : knocks'[i] = knocks[i]
      /\ knocks'[Len(knocks) + 1] = g /\ Len(knocks) \in Nat
  BY SMTT(20) DEF Connect, FileTypes
<1>3. guest' \in [Guests -> {"away", "in", "left"}] /\ guest[g] = "away"
      /\ guest'[g] = "in" /\ \A h \in Guests : h # g => guest'[h] = guest[h]
  BY DEF Connect, FileTypes
<1>4. ~Waits(g) /\ \A f \in Numbers : conns[f] # g
  BY <1>3 DEF Placed
<1>5. \A i \in DOMAIN knocks' : i \in DOMAIN knocks \/ i = Len(knocks) + 1
  BY <1>2
<1>6. \A i, j \in DOMAIN knocks' : knocks'[i] = knocks'[j] => i = j
  BY <1>2, <1>4, <1>5 DEF Placed, Waits
<1>7. \A h \in Guests : h # g /\ Waits(h)' => Waits(h)
  BY <1>2, <1>5 DEF Waits
<1>8. ASSUME NEW h \in Guests
      PROVE  /\ Waits(h)' => guest'[h] # "away" /\ \A f \in Numbers : conns[f] # h
             /\ guest'[h] = "away" => \A f \in Numbers : conns[f] # h
  <2>1. CASE h = g
    BY <1>3, <1>4, <2>1
  <2>2. CASE h # g
    BY <1>3, <1>7, <2>2 DEF Placed
  <2> QED
    BY <2>1, <2>2
<1>9. Placed'
  BY <1>1, <1>6, <1>8 DEF Placed
<1>10. FileTypes' /\ InPass'
  BY <1>1, <1>2, <1>3 DEF FileTypes, InPass
<1> QED
  BY <1>1, <1>9, <1>10, WatchedFramed

LEMMA LeaveKeeps ==
  ASSUME FileInv, NEW g \in Guests, Leave(g)
  PROVE  FileInv'
<1> USE DEF FileInv
<1>1. UNCHANGED <<serving, conns, readfds, tmpfds, connfd, buf, sent, knocks>>
  BY DEF Leave, servVars
<1>2. guest' \in [Guests -> {"away", "in", "left"}]
      /\ \A h \in Guests : guest'[h] = "away" <=> guest[h] = "away"
  BY DEF Leave, FileTypes
<1>3. Placed'
  BY <1>1, <1>2 DEF Placed, Waits
<1>4. FileTypes' /\ InPass'
  BY <1>1, <1>2 DEF FileTypes, InPass
<1> QED
  BY <1>1, <1>3, <1>4, WatchedFramed

LEMMA SendKeeps ==
  ASSUME FileInv, NEW g \in Guests, NEW w \in Pieces, Send(g, w)
  PROVE  FileInv'
<1> USE DEF FileInv
<1>1. UNCHANGED <<serving, conns, readfds, tmpfds, connfd, buf, guest, knocks>>
  BY DEF Send, servVars
<1>2. sent' \in [Guests -> Seq(Pieces)]
  BY DEF Send, FileTypes
<1>3. FileTypes' /\ InPass'
  BY <1>1, <1>2 DEF FileTypes, InPass
<1> QED
  BY <1>1, <1>3, PlacedFramed, WatchedFramed

LEMMA SelectKeeps ==
  ASSUME FileInv, select \/ select_fails
  PROVE  FileInv'
<1> USE DEF FileInv
<1>1. UNCHANGED <<conns, readfds, connfd, buf, knocks, guest, sent>>
  BY DEF select, select_fails, guestVars
<1>2. Placed' /\ WatchedAreOpen'
  BY <1>1, PlacedFramed, WatchedFramed
<1>3. CASE select
  <2>1. serving' = "scan" /\ tmpfds' \subseteq readfds
    BY <1>3 DEF select
  <2>2. FileTypes'
    BY <1>1, <2>1 DEF FileTypes
  <2>3. Listen \in tmpfds' => knocks' # <<>> /\ \A f \in readfds' : conns'[f] # NoGuest
    BY <1>1, <1>3 DEF select, Readable
  <2>4. InPass'
    BY <2>1, <2>3 DEF InPass, Commands
  <2> QED
    BY <1>2, <2>2, <2>4
<1>4. CASE select_fails
  <2>1. serving' = "dead" /\ tmpfds' = tmpfds /\ tmpfds = {}
    BY <1>4 DEF select_fails
  <2> QED
    BY <1>1, <1>2, <2>1 DEF FileTypes, InPass, Commands
<1> QED
  BY <1>3, <1>4

LEMMA AcceptKeeps ==
  ASSUME FileInv, accept
  PROVE  FileInv'
<1> USE DEF FileInv
<1> DEFINE g == Head(knocks)
           free == {f \in Numbers : conns[f] = NoGuest}
<1>1. fd1 = Listen /\ Listen \in tmpfds /\ serving = "scan"
  BY LooksAt DEF accept
<1>2. knocks # <<>> /\ \A f \in readfds : conns[f] # NoGuest
  BY <1>1 DEF InPass
<1>3. connfd' \in Numbers /\ conns[connfd'] = NoGuest
  <2>1. free # {} /\ free \subseteq Nat
    BY <1>2, NumberFree, Numbered
  <2>2. connfd' = Lowest(free)
    BY DEF accept
  <2>3. connfd' \in free
    <3> HIDE DEF free
    <3> QED
      BY <2>1, <2>2, LowestIs
  <2> QED
    BY <2>3
<1>4. connfd' # Listen
  BY <1>3, Numbered DEF Placed, NoGuest
<1>5. g \in Guests /\ Waits(g) /\ g # "listen" /\ g # NoGuest
  BY <1>2, FileAssumption DEF FileTypes, Waits
<1>6. /\ conns' \in [Numbers -> Guests \cup {"listen", NoGuest}] /\ conns'[connfd'] = g
      /\ \A f \in Numbers : f # connfd' => conns'[f] = conns[f]
  <2> DEFINE n == connfd'
  <2>1. conns' = [conns EXCEPT ![n] = g] /\ n \in Numbers
    BY <1>3 DEF accept
  <2> HIDE DEF n, g
  <2>2. /\ conns' \in [Numbers -> Guests \cup {"listen", NoGuest}] /\ conns'[n] = g
        /\ \A f \in Numbers : f # n => conns'[f] = conns[f]
    BY <1>5, <2>1 DEF FileTypes
  <2> QED
    BY <2>2 DEF n
<1>7. /\ readfds' = readfds \cup {connfd'} /\ tmpfds' = tmpfds \ {Listen}
      /\ knocks' = Tail(knocks) /\ UNCHANGED <<serving, buf, guest, sent>>
  BY <1>1 DEF accept
<1>8. /\ knocks' \in Seq(Guests) /\ DOMAIN knocks = 1 .. Len(knocks)
      /\ DOMAIN knocks' = 1 .. Len(knocks) - 1 /\ Len(knocks) \in Nat \ {0}
      /\ \A i \in DOMAIN knocks' : knocks'[i] = knocks[i + 1]
      /\ knocks[1] = g
  BY <1>2, <1>7 DEF FileTypes
<1>9. \A i \in DOMAIN knocks' : i + 1 \in DOMAIN knocks /\ i + 1 # 1 /\ 1 \in DOMAIN knocks /\ i \in Int
  BY <1>8
<1>10. \A i, j \in DOMAIN knocks' : knocks'[i] = knocks'[j] => i = j
  <2> SUFFICES ASSUME NEW i \in DOMAIN knocks', NEW j \in DOMAIN knocks', knocks'[i] = knocks'[j]
               PROVE  i = j
    OBVIOUS
  <2>1. i + 1 = j + 1
    BY <1>8, <1>9 DEF Placed
  <2> QED
    BY <1>9, <2>1
<1>11. \A h \in Guests : Waits(h)' => Waits(h) /\ h # g
  BY <1>8, <1>9 DEF Placed, Waits
<1> HIDE DEF g
<1>12. \A f \in Numbers : conns'[f] = "listen" <=> f = Listen
  BY <1>4, <1>5, <1>6 DEF Placed
<1>13. \A f \in Numbers : conns[f] # g
  BY <1>5 DEF Placed
<1>14. \A e, f \in Numbers : conns'[e] = conns'[f] => conns'[e] = NoGuest \/ e = f
  <2> SUFFICES ASSUME NEW e \in Numbers, NEW f \in Numbers, conns'[e] = conns'[f], conns'[e] # NoGuest
               PROVE  e = f
    OBVIOUS
  <2>1. CASE e = connfd' \/ f = connfd'
    BY <1>6, <1>13, <2>1
  <2>2. CASE e # connfd' /\ f # connfd'
    BY <1>6, <2>2 DEF Placed
  <2> QED
    BY <2>1, <2>2
<1>15. ASSUME NEW h \in Guests
       PROVE  /\ Waits(h)' => guest'[h] # "away" /\ \A f \in Numbers : conns'[f] # h
              /\ guest'[h] = "away" => \A f \in Numbers : conns'[f] # h
  <2>1. CASE h = g
    <3>1. guest[h] # "away" /\ ~Waits(h)'
      BY <1>5, <1>11, <2>1 DEF Placed
    <3> QED
      BY <1>7, <3>1
  <2>2. CASE h # g
    BY <1>6, <1>7, <1>11, <2>2 DEF Placed
  <2> QED
    BY <2>1, <2>2
<1>16. Placed'
  BY <1>10, <1>12, <1>14, <1>15 DEF Placed
<1>17. FileTypes'
  BY <1>3, <1>4, <1>6, <1>7, <1>8 DEF FileTypes
<1>18. InPass'
  BY <1>1, <1>7 DEF InPass, Commands
<1>19. WatchedAreOpen'
  BY <1>2, <1>3, <1>5, <1>6, <1>7 DEF WatchedAreOpen, FileTypes
<1> QED
  BY <1>16, <1>17, <1>18, <1>19

(* What the end of a command or of a connection does.                      *)
LEMMA DropKeeps ==
  ASSUME FileInv, NEW S, fd1 \in S, S \subseteq {fd1, connfd}, Drop(S, {fd1}),
         tmpfds # {}, fd1 # Listen, buf' \in Pieces, UNCHANGED <<connfd, knocks, guest, sent>>
  PROVE  FileInv'
<1> USE DEF FileInv
<1>1. fd1 \in Numbers /\ fd1 \in readfds /\ Listen \notin tmpfds
  BY LooksAt
<1>2. /\ conns' = [f \in Numbers |-> IF f \in S THEN NoGuest ELSE conns[f]]
      /\ readfds' = readfds \ {fd1} /\ tmpfds' = tmpfds \ {fd1} /\ serving' = "scan"
  BY DEF Drop
<1>3. \A f \in Numbers : conns'[f] = IF f \in S THEN NoGuest ELSE conns[f]
  BY <1>2
<1>4. Listen \notin S
  BY Numbered DEF FileTypes
<1>5. FileTypes'
  BY <1>2 DEF FileTypes
<1>6. Placed'
  <2>1. \A f \in Numbers : conns'[f] = "listen" <=> f = Listen
    BY <1>3, <1>4 DEF Placed, NoGuest
  <2>2. \A e, f \in Numbers : conns'[e] = conns'[f] => conns'[e] = NoGuest \/ e = f
    BY <1>3 DEF Placed
  <2>3. \A g \in Guests, f \in Numbers : conns'[f] = g => conns[f] = g
    BY <1>3, FileAssumption
  <2>4. ASSUME NEW g \in Guests
        PROVE  /\ Waits(g)' => guest'[g] # "away" /\ \A f \in Numbers : conns'[f] # g
               /\ guest'[g] = "away" => \A f \in Numbers : conns'[f] # g
    BY <2>3 DEF Placed, Waits
  <2>5. \A i, j \in DOMAIN knocks' : knocks'[i] = knocks'[j] => i = j
    BY DEF Placed
  <2> QED
    BY <2>1, <2>2, <2>4, <2>5 DEF Placed
<1>7. InPass'
  BY <1>1, <1>2 DEF InPass, Commands
<1>8. WatchedAreOpen'
  <2>1. ASSUME NEW f \in Numbers, conns'[f] # NoGuest PROVE f \in readfds'
    BY <1>2, <1>3, <2>1 DEF WatchedAreOpen
  <2>2. ASSUME NEW f \in readfds', conns'[f] = NoGuest PROVE f = connfd'
    <3>1. f \in readfds /\ f # fd1 /\ f \in Numbers
      BY <1>2 DEF FileTypes
    <3>2. conns[f] = NoGuest \/ f \in S
      BY <1>3, <2>2, <3>1
    <3> QED
      BY <3>1, <3>2 DEF WatchedAreOpen
  <2> QED
    BY <2>1, <2>2 DEF WatchedAreOpen
<1> QED
  BY <1>5, <1>6, <1>7, <1>8

(* A command is carried out for a client.                                  *)
LEMMA ForClient ==
  ASSUME FileInv, serving \in Commands
  PROVE  tmpfds # {} /\ fd1 # Listen /\ Listen \notin tmpfds
BY LooksAt DEF FileInv, InPass, Commands

LEMMA EndsKeep ==
  ASSUME FileInv, ioctl_nothing \/ get_ends \/ ls_ends \/ up_ends
  PROVE  FileInv'
<1>1. tmpfds # {} /\ fd1 # Listen
  <2>1. CASE ioctl_nothing
    BY <2>1 DEF ioctl_nothing
  <2>2. CASE get_ends \/ ls_ends \/ up_ends
    BY <2>2, ForClient DEF get_ends, ls_ends, up_ends, Commands
  <2> QED
    BY <2>1, <2>2
<1>2. buf' \in Pieces
  BY DEF ioctl_nothing, get_ends, ls_ends, up_ends, Pieces, FileInv, FileTypes
<1>3. UNCHANGED <<connfd, knocks, guest, sent>>
  BY DEF ioctl_nothing, get_ends, ls_ends, up_ends, guestVars
<1>4. Drop({fd1}, {fd1}) \/ Drop({fd1, connfd}, {fd1})
  BY DEF ioctl_nothing, get_ends, ls_ends, up_ends
<1>5. ASSUME NEW S, S = {fd1} \/ S = {fd1, connfd}, Drop(S, {fd1})
      PROVE  FileInv'
  BY <1>1, <1>2, <1>3, <1>5, DropKeeps
<1> QED
  BY <1>4, <1>5

(* A request is taken up, or the descriptor is passed over.                *)
LEMMA ObeyKeeps ==
  ASSUME FileInv, NEW word \in Pieces, Obey(word), serving = "scan", tmpfds # {}, fd1 # Listen,
         sent' \in [Guests -> Seq(Pieces)], UNCHANGED <<conns, readfds, connfd, knocks, guest>>
  PROVE  FileInv'
<1> USE DEF FileInv
<1>1. Listen \notin tmpfds
  BY LooksAt
<1>2. /\ buf' = word /\ tmpfds' \subseteq tmpfds
      /\ serving' = "scan" \/ (serving' \in Commands /\ tmpfds' = tmpfds)
  BY DEF Obey, Pieces, Commands
<1>3. FileTypes'
  BY <1>2 DEF FileTypes
<1>4. InPass'
  BY <1>1, <1>2 DEF InPass, Commands
<1> QED
  BY <1>3, <1>4, PlacedFramed, WatchedFramed

LEMMA ReadKeeps ==
  ASSUME FileInv, read_request \/ read_closed
  PROVE  FileInv'
<1>1. serving = "scan" /\ tmpfds # {} /\ fd1 # Listen
  BY DEF read_request, read_closed
<1>2. CASE read_request
  <2> DEFINE g == conns[fd1]
  <2>1. g \in Guests /\ sent[g] \in Seq(Pieces)
    BY <1>1, <1>2, LooksAt DEF read_request, FileInv, FileTypes, Placed
  <2>2. sent[g] # <<>>
    BY <1>2 DEF read_request, Length
  <2>3. Head(sent[g]) \in Pieces
    BY <2>1, <2>2
  <2>4. sent' \in [Guests -> Seq(Pieces)]
    <3>1. sent' = [sent EXCEPT ![g] = <<>>] /\ sent \in [Guests -> Seq(Pieces)]
      BY <1>2 DEF read_request, FileInv, FileTypes
    <3>2. <<>> \in Seq(Pieces)
      OBVIOUS
    <3> HIDE DEF g
    <3> QED
      BY <3>1, <3>2
  <2>5. Obey(Head(sent[g])) /\ UNCHANGED <<conns, readfds, connfd, knocks, guest>>
    BY <1>2 DEF read_request
  <2> QED
    BY <1>1, <2>3, <2>4, <2>5, ObeyKeeps
<1>3. CASE read_closed
  <2>1. UNCHANGED <<conns, readfds, connfd, knocks, guest, sent>>
    BY <1>3 DEF read_closed, guestVars
  <2>2. buf \in Pieces /\ sent \in [Guests -> Seq(Pieces)]
    BY DEF FileInv, FileTypes
  <2>3. CASE Obey(buf)
    BY <1>1, <2>1, <2>2, <2>3, ObeyKeeps
  <2>4. CASE serving' = "dead" /\ UNCHANGED <<tmpfds, buf>>
    BY <2>1, <2>4, PlacedFramed, WatchedFramed DEF FileInv, FileTypes, InPass, Commands
  <2> QED
    BY <1>3, <2>3, <2>4 DEF read_closed
<1> QED
  BY <1>2, <1>3

LEMMA WorkKeeps ==
  ASSUME FileInv, write_connfd \/ opendir_fails \/ up_read
  PROVE  FileInv'
<1>1. serving \in Commands
  BY DEF write_connfd, opendir_fails, up_read, Commands
<1>2. tmpfds # {} /\ Listen \notin tmpfds
  BY <1>1, ForClient
<1>3. UNCHANGED <<conns, readfds, tmpfds, connfd, buf, knocks, guest>>
  BY DEF write_connfd, opendir_fails, up_read, guestVars, servVars
<1>4. serving' = serving \/ serving' = "dead"
  BY DEF write_connfd, opendir_fails, up_read, servVars
<1>5. sent' \in [Guests -> Seq(Pieces)]
  <2>1. CASE up_read
    <3>1. Newest \in Guests /\ sent \in [Guests -> Seq(Pieces)]
      BY <2>1, Numbered DEF up_read, Newest, FileInv, FileTypes, Placed
    <3>2. Tail(sent[Newest]) \in Seq(Pieces)
      BY <2>1, <3>1 DEF up_read
    <3>3. sent' = [sent EXCEPT ![Newest] = Tail(sent[Newest])]
      BY <2>1 DEF up_read
    <3> QED
      BY <3>1, <3>2, <3>3
  <2>2. CASE write_connfd \/ opendir_fails
    BY <2>2 DEF write_connfd, opendir_fails, guestVars, FileInv, FileTypes
  <2> QED
    BY <2>1, <2>2
<1>6. FileTypes' /\ InPass'
  BY <1>2, <1>3, <1>4, <1>5 DEF FileInv, FileTypes, InPass
<1> QED
  BY <1>3, <1>6, PlacedFramed, WatchedFramed DEF FileInv

LEMMA FileStep == FileInv /\ [FileNext]_fileVars => FileInv'
<1> SUFFICES ASSUME FileInv, [FileNext]_fileVars PROVE FileInv'
  OBVIOUS
<1>1. CASE UNCHANGED fileVars
  BY <1>1, PlacedFramed, WatchedFramed DEF fileVars, FileInv, FileTypes, InPass
<1>2. ASSUME NEW g \in Guests, Connect(g) \/ Leave(g) \/ \E w \in Pieces : Send(g, w)
      PROVE  FileInv'
  BY <1>2, ConnectKeeps, LeaveKeeps, SendKeeps
<1>3. CASE select \/ select_fails \/ accept \/ ioctl_nothing \/ read_request \/ read_closed
  BY <1>3, SelectKeeps, AcceptKeeps, EndsKeep, ReadKeeps
<1>4. CASE write_connfd \/ get_ends \/ ls_ends \/ opendir_fails \/ up_read \/ up_ends
  BY <1>4, WorkKeeps, EndsKeep
<1> QED
  BY <1>1, <1>2, <1>3, <1>4 DEF FileNext

(* A connection that is open is watched, and one that is watched is open   *)
(* unless it is the newest, which a listing for another client closes      *)
(* (select.c:141-158): for every number of clients, whatever they send and *)
(* when they leave.                                                        *)
THEOREM WatchesOpen == ServerSpec => []WatchedAreOpen
<1>1. FileInv => WatchedAreOpen
  BY DEF FileInv
<1> QED
  BY <1>1, FileStarts, FileStep, PTL DEF ServerSpec

-----------------------------------------------------------------------------
(* The open server                                                         *)

(* What has been told after all that failed so far                         *)
AllTold == Told[Len(failed)]
Text == Seq({"byte"} \X Nat)
(* No more than the last message                                           *)
Sized(text) == failed # <<>> /\ Len(text) <= failed[Len(failed)][2]
(* What the client waits for, by what the server does: what is shown and   *)
(* what is on its way make all that there is to be told, unless some of it *)
(* was lost on the way to standard error.                                  *)
Answering == requests = <<>> /\ reqline = line
Receiving ==
  \/ /\ opend = "read" /\ stream = <<>> /\ (lost \/ shown = AllTold)
     /\ Len(failed) < line /\ \E words : requests = <<<<line, words>>>>
  \/ opend = "send_fd" /\ Answering /\ stream = <<>> /\ (lost \/ shown = AllTold)
  \/ /\ opend = "send_err" /\ Answering /\ stream \in Text /\ unsent \in Text
     /\ Sized(stream \o unsent) /\ (lost \/ (shown \o stream) \o unsent = AllTold)
  \/ /\ opend \in {"read", "gone"} /\ stream = Rights /\ reqline = line
     /\ opend = "read" => requests = <<>> /\ (lost \/ shown = AllTold)
  \/ /\ opend \in {"read", "gone"}
     /\ \E text \in Text :
          /\ stream = text \o Final(1) /\ Sized(text)
          /\ opend = "read" => requests = <<>> /\ (lost \/ shown \o text = AllTold)
  \/ opend = "gone" /\ stream \in Text /\ (stream # <<>> => Sized(stream))
OpenTypes ==
  /\ client \in {"line", "recv", "cat", "exit", "killed", "dumped"}
  /\ opend \in {"read", "send_fd", "send_err", "gone"}
  /\ line \in Nat /\ line <= MaxLines /\ failed \in Seq(Nat \X MsgLens) /\ shown \in Text
Steady ==
  /\ OpenTypes
  /\ Len(failed) <= line
  /\ client # "recv" /\ opend # "gone" => opend = "read" /\ requests = <<>>
  /\ client = "cat" => newfd = line
  /\ client \in {"line", "cat"} /\ opend # "gone" => stream = <<>> /\ (lost \/ shown = AllTold)
  /\ client = "recv" => Receiving
  /\ NullInPlace
(* When standard error refuses a piece of a message that the null does not *)
(* follow, the rest stays in the stream, and nothing need be in step after.*)
OpenInv == lost \in BOOLEAN /\ cut \in BOOLEAN /\ (~cut => Steady)

-----------------------------------------------------------------------------
(* The messages of a history, joined                                       *)
Piece(fs, n) == IF n <= Len(fs) THEN [i \in 1 .. fs[n][2] |-> <<"byte", fs[n][1]>>] ELSE <<>>
Joined(fs) == CHOOSE T : T = [n \in 0 .. MaxLines |-> IF n = 0 THEN <<>> ELSE T[n - 1] \o Piece(fs, n)]

LEMMA JoinedIs ==
  ASSUME NEW fs
  PROVE  /\ Joined(fs)[0] = <<>>
         /\ \A n \in 1 .. MaxLines : Joined(fs)[n] = Joined(fs)[n - 1] \o Piece(fs, n)
<1> DEFINE p == [n \in 1 .. MaxLines |-> Piece(fs, n)]  J == Joined(fs)
<1>1. PICK f : f = [k \in 0 .. MaxLines |-> IF k = 0 THEN <<>> ELSE f[k - 1] \o p[k]]
  <2> HIDE DEF p
  <2> QED
    BY JoinExists, OpenAssumption
<1>2. \A k \in 0 .. MaxLines : k # 0 => p[k] = Piece(fs, k)
  <2>1. \A k \in 0 .. MaxLines : k # 0 => k \in 1 .. MaxLines
    BY OpenAssumption
  <2> QED
    BY <2>1
<1> HIDE DEF p
<1>3. f = [k \in 0 .. MaxLines |-> IF k = 0 THEN <<>> ELSE f[k - 1] \o Piece(fs, k)]
  <2>1. [k \in 0 .. MaxLines |-> IF k = 0 THEN <<>> ELSE f[k - 1] \o p[k]]
        = [k \in 0 .. MaxLines |-> IF k = 0 THEN <<>> ELSE f[k - 1] \o Piece(fs, k)]
    BY <1>2
  <2> QED
    BY <1>1, <2>1
<1>4. J = [n \in 0 .. MaxLines |-> IF n = 0 THEN <<>> ELSE J[n - 1] \o Piece(fs, n)]
  BY <1>3 DEF Joined
<1> HIDE DEF J
<1>5. 0 \in 0 .. MaxLines /\ \A n \in 1 .. MaxLines : n \in 0 .. MaxLines /\ n # 0
  BY OpenAssumption
<1>6. J[0] = <<>> /\ \A n \in 1 .. MaxLines : J[n] = J[n - 1] \o Piece(fs, n)
  BY <1>4, <1>5
<1> QED
  BY <1>6 DEF J

LEMMA ToldJoins == Told = Joined(failed)
BY DEF Told, Joined, Piece, Bytes

(* The message of a line that failed is told after those before it.        *)
LEMMA ToldNext ==
  ASSUME OpenTypes, Len(failed) < MaxLines, NEW x \in Nat \X MsgLens, failed' = Append(failed, x)
  PROVE  AllTold' = AllTold \o [i \in 1 .. x[2] |-> <<"byte", x[1]>>]
<1> DEFINE n == Len(failed)  f == Joined(failed)  g == Joined(failed')
<1>1. /\ n \in Nat /\ n + 1 <= MaxLines /\ n + 1 \in 1 .. MaxLines /\ Len(failed') = n + 1
      /\ failed'[n + 1] = x /\ \A k \in 1 .. n : failed'[k] = failed[k]
  BY OpenAssumption DEF OpenTypes
<1>2. Told = f /\ Told' = g
  BY ToldJoins DEF Told, Joined, Piece, Bytes
<1>3. \A k \in 1 .. n : k \in 1 .. MaxLines /\ Piece(failed', k) = Piece(failed, k)
  BY <1>1, OpenAssumption DEF Piece
<1>4. Piece(failed', n + 1) = [i \in 1 .. x[2] |-> <<"byte", x[1]>>]
  BY <1>1 DEF Piece
<1>5. f[0] = g[0] /\ (\A k \in 1 .. MaxLines : f[k] = f[k - 1] \o Piece(failed, k))
      /\ (\A k \in 1 .. MaxLines : g[k] = g[k - 1] \o Piece(failed', k))
  BY JoinedIs
<1> HIDE DEF f, g
<1>6. \A k \in 1 .. n : f[k - 1] = g[k - 1] => f[k] = g[k]
  BY <1>3, <1>5
<1>7. f[n] = g[n]
  <2> HIDE DEF n
  <2> QED
    BY <1>1, <1>5, <1>6, JoinsAgree
<1>8. g[n + 1] = g[n] \o Piece(failed', n + 1)
  <2>1. ASSUME NEW k \in 1 .. MaxLines, k = n + 1 PROVE g[k] = g[n] \o Piece(failed', k)
    <3>1. k - 1 = n
      BY <1>1, <2>1
    <3> QED
      BY <1>5, <3>1
  <2> QED
    BY <1>1, <2>1
<1>9. AllTold = f[n] /\ AllTold' = g[n + 1]
  BY <1>1, <1>2 DEF AllTold
<1> QED
  BY <1>4, <1>7, <1>8, <1>9

-----------------------------------------------------------------------------
(* What a call of recvmsg takes                                            *)

LEMMA JoinText ==
  ASSUME NEW a \in Text, NEW b \in Text, NEW c \in Text
  PROVE  a \o b \in Text /\ Len(a \o b) = Len(a) + Len(b) /\ (a \o b) \o c = a \o (b \o c)
<1> DEFINE S == {"byte"} \X Nat
<1>1. a \in Seq(S) /\ b \in Seq(S) /\ c \in Seq(S)
  BY DEF Text
<1> HIDE DEF S
<1>2. a \o b \in Seq(S) /\ Len(a \o b) = Len(a) + Len(b)
  BY <1>1
<1>3. (a \o b) \o c = a \o (b \o c)
  BY <1>1, JoinAssoc
<1> QED
  BY <1>2, <1>3 DEF S, Text

LEMMA TextAssoc == \A a, b, c \in Text : (a \o b) \o c = a \o (b \o c)
BY JoinText

LEMMA TextLen == \A a \in Text : Len(a) \in Nat
BY DEF Text

LEMMA ByteIs == \A e \in {"byte"} \X Nat : e[1] = "byte" /\ e # Null /\ e # <<"status", 1>>
BY DEF Null

Kept == SubSeq(stream, Len(Batch) + 1, Len(stream))

LEMMA TextBatch ==
  ASSUME stream \in Text, stream # <<>>
  PROVE  /\ Batch \in Text /\ Len(Batch) \in Nat /\ Len(Batch) >= 1 /\ Nulls(Batch) = {}
         /\ Batch[Len(Batch)][1] = "byte"
         /\ Kept \in Text /\ Len(Kept) <= Len(stream) /\ Batch \o Kept = stream
<1> DEFINE n == Shorter(MAXLINE, Len(stream))
<1>1. n \in 0 .. Len(stream) /\ n >= 1
  BY OpenAssumption DEF Text, Shorter
<1> HIDE DEF n
<1> DEFINE b == SubSeq(stream, 1, n)
<1>2. Batch = b
  BY DEF Batch, n
<1>3. b \in Text /\ Len(b) = n /\ SubSeq(stream, n + 1, Len(stream)) \in Text
      /\ Len(SubSeq(stream, n + 1, Len(stream))) = Len(stream) - n
      /\ b \o SubSeq(stream, n + 1, Len(stream)) = stream
  BY <1>1, Cut DEF Text
<1> HIDE DEF b
<1>4. \A i \in DOMAIN b : b[i] \in {"byte"} \X Nat
  BY <1>3 DEF Text
<1>5. Nulls(b) = {} /\ b[Len(b)][1] = "byte"
  <2>1. Len(b) \in DOMAIN b
    BY <1>1, <1>3 DEF Text
  <2> QED
    BY <1>4, <2>1, ByteIs DEF Nulls
<1>6. Kept = SubSeq(stream, n + 1, Len(stream))
  BY <1>2, <1>3 DEF Kept
<1> HIDE DEF Batch
<1>7. Len(stream) \in Nat
  BY DEF Text
<1>8. Len(Batch) \in Nat /\ Len(Batch) >= 1 /\ Len(Kept) <= Len(stream)
  BY <1>1, <1>2, <1>3, <1>6, <1>7
<1>9. Batch \in Text /\ Nulls(Batch) = {} /\ Batch[Len(Batch)][1] = "byte"
  BY <1>2, <1>3, <1>5, Zenon
<1> QED
  BY <1>2, <1>3, <1>6, <1>8, <1>9, Zenon

(* With the end of the answer behind the text: all of it, when there is    *)
(* room; the null without the status, when the text leaves room for just   *)
(* that; and part of the text alone.                                       *)
LEMMA FinalBatch ==
  ASSUME NEW text \in Text, stream = text \o Final(1)
  PROVE  LET t == Len(text) IN
         /\ t \in Nat /\ stream # <<>>
         /\ t + 2 <= MAXLINE =>
              /\ Kept = <<>> /\ Nulls(Batch) = {Len(Batch) - 1} /\ Batch[Len(Batch)] = <<"status", 1>>
              /\ SubSeq(Batch, 1, Len(Batch) - 2) = text
         /\ t + 1 = MAXLINE => Nulls(Batch) \ {Len(Batch) - 1} # {}
         /\ t >= MAXLINE =>
              /\ Batch \in Text /\ Nulls(Batch) = {} /\ Batch[Len(Batch)][1] = "byte"
              /\ \E more \in Text : Kept = more \o Final(1) /\ Batch \o more = text /\ Len(more) <= t
<1> DEFINE t == Len(text)  B == {"byte"} \X Nat  Cells == B \cup {Null, <<"status", 1>>}  n == Shorter(MAXLINE, t + 2)
<1>1. /\ t \in Nat /\ MAXLINE \in Nat /\ MAXLINE >= 2
      /\ \A i \in 1 .. t : text[i] \in B /\ text[i] \in Cells /\ text[i] # Null /\ text[i][1] = "byte"
  <2>1. t \in Nat /\ \A i \in 1 .. t : text[i] \in B
    BY DEF Text
  <2> QED
    BY <2>1, OpenAssumption, ByteIs
<1>0. Len(text) = t /\ text \in Seq(B)
  BY DEF Text
<1> HIDE DEF t, B
<1>2. stream \in Seq(Cells) /\ Len(stream) = t + 2 /\ (\A i \in 1 .. t : stream[i] = text[i])
      /\ stream[t + 1] = Null /\ stream[t + 2] = <<"status", 1>>
  <2> DEFINE fin == <<Null, <<"status", 1>>>>
  <2>1. stream = text \o fin
    BY DEF Final
  <2>2. Null \in Cells /\ <<"status", 1>> \in Cells
    OBVIOUS
  <2>3. text \in Seq(Cells)
    BY <1>0
  <2> HIDE DEF Cells
  <2>4. fin \in Seq(Cells) /\ Len(fin) = 2 /\ fin[1] = Null /\ fin[2] = <<"status", 1>>
    BY <2>2
  <2> HIDE DEF fin
  <2>5. /\ stream \in Seq(Cells) /\ Len(stream) = Len(text) + Len(fin)
        /\ \A i \in 1 .. Len(text) : stream[i] = text[i]
        /\ \A i \in 1 .. Len(fin) : stream[Len(text) + i] = fin[i]
    <3>1. fin \in Seq(Cells)
      BY <2>4
    <3>2. /\ text \o fin \in Seq(Cells) /\ Len(text \o fin) = Len(text) + Len(fin)
          /\ \A i \in 1 .. Len(text) : (text \o fin)[i] = text[i]
          /\ \A i \in 1 .. Len(fin) : (text \o fin)[Len(text) + i] = fin[i]
      BY <2>3, <3>1, JoinIs
    <3> QED
      BY <2>1, <3>2, Zenon
  <2>6. stream[t + 1] = fin[1] /\ stream[t + 2] = fin[2]
    BY <1>0, <2>4, <2>5
  <2> QED
    BY <1>0, <2>4, <2>5, <2>6
<1>3. Null # <<"status", 1>>
  BY DEF Null
<1>4. n \in Nat /\ n >= 1 /\ n \in 0 .. Len(stream) /\ Batch = SubSeq(stream, 1, n)
  BY <1>1, <1>2 DEF Shorter, Batch
<1>5. n = (IF t + 2 <= MAXLINE THEN t + 2 ELSE MAXLINE)
  BY <1>1 DEF Shorter
<1> HIDE DEF n, Cells
<1>6. /\ Batch \in Seq(Cells) /\ Len(Batch) = n /\ \A i \in 1 .. n : Batch[i] = stream[i]
      /\ Kept = SubSeq(stream, n + 1, Len(stream)) /\ Kept \in Seq(Cells) /\ Len(Kept) = t + 2 - n
      /\ \A i \in 1 .. t + 2 - n : Kept[i] = stream[n + i]
  <2>1. /\ Batch \in Seq(Cells) /\ Len(Batch) = n /\ \A i \in 1 .. n : Batch[i] = stream[i]
    <3>1. stream \in Seq(Cells) /\ n \in 0 .. Len(stream)
      BY <1>2, <1>4
    <3>2. /\ SubSeq(stream, 1, n) \in Seq(Cells) /\ Len(SubSeq(stream, 1, n)) = n
          /\ \A i \in 1 .. n : SubSeq(stream, 1, n)[i] = stream[i]
      BY <3>1, Cut
    <3> QED
      BY <1>4, <3>2, Zenon
  <2>2. Kept = SubSeq(stream, n + 1, Len(stream))
    BY <2>1 DEF Kept
  <2>3. /\ SubSeq(stream, n + 1, Len(stream)) \in Seq(Cells)
        /\ Len(SubSeq(stream, n + 1, Len(stream))) = Len(stream) - n
        /\ \A i \in 1 .. Len(stream) - n : SubSeq(stream, n + 1, Len(stream))[i] = stream[n + i]
    <3>1. stream \in Seq(Cells) /\ n \in 0 .. Len(stream)
      BY <1>2, <1>4
    <3> QED
      BY <3>1, Cut
  <2>4. t + 2 \in Nat /\ Len(stream) - n = t + 2 - n
    BY <1>1, <1>2, <1>4
  <2> QED
    BY <2>1, <2>2, <2>3, <2>4, Zenon
<1>7. DOMAIN Batch = 1 .. n
  BY <1>6
<1> HIDE DEF Batch
<1>8. ASSUME t + 2 <= MAXLINE
      PROVE  /\ Kept = <<>> /\ Nulls(Batch) = {Len(Batch) - 1} /\ Batch[Len(Batch)] = <<"status", 1>>
             /\ SubSeq(Batch, 1, Len(Batch) - 2) = text
  <2>1. n = t + 2
    BY <1>5, <1>8
  <2>2. Kept = <<>>
    BY <1>1, <1>6, <2>1, SMTT(20)
  <2>3. Nulls(Batch) = {t + 1}
    <3>1. \A i \in 1 .. t + 2 : i \in 1 .. t \/ i = t + 1 \/ i = t + 2
      BY <1>1
    <3>2. \A i \in 1 .. t + 2 : Batch[i] = Null <=> i = t + 1
      BY <1>1, <1>2, <1>3, <1>6, <2>1, <3>1, ZenonT(30)
    <3>3. t + 1 \in 1 .. t + 2
      BY <1>1
    <3> QED
      BY <1>7, <2>1, <3>2, <3>3 DEF Nulls
  <2>4. Batch[t + 2] = <<"status", 1>>
    <3>1. t + 2 \in 1 .. n
      BY <1>1, <2>1
    <3> QED
      BY <1>2, <1>6, <3>1
  <2>5. SubSeq(Batch, 1, t) = text
    <3> DEFINE s == SubSeq(Batch, 1, t)
    <3>1. t \in 0 .. Len(Batch)
      BY <1>1, <1>6, <2>1
    <3>2. s \in Seq(Cells) /\ Len(s) = t /\ \A i \in 1 .. t : s[i] = Batch[i]
      BY <1>6, <3>1, Cut
    <3> HIDE DEF s
    <3>3. \A i \in 1 .. t : i \in 1 .. n
      BY <1>1, <2>1
    <3>4. \A i \in 1 .. t : s[i] = text[i]
      BY <1>2, <1>6, <3>2, <3>3
    <3>5. s = text
      BY <1>0, <3>2, <3>4, SameSeq
    <3> QED
      BY <3>5 DEF s
  <2>6. Len(Batch) = t + 2 /\ Len(Batch) - 1 = t + 1 /\ Len(Batch) - 2 = t
    BY <1>1, <1>6, <2>1
  <2> QED
    BY <2>2, <2>3, <2>4, <2>5, <2>6
<1>9. ASSUME t + 1 = MAXLINE
      PROVE  Nulls(Batch) \ {Len(Batch) - 1} # {}
  <2>1. n = t + 1
    BY <1>1, <1>5, <1>9
  <2>2. t + 1 \in DOMAIN Batch /\ Batch[t + 1] = Null
    BY <1>1, <1>2, <1>6, <1>7, <2>1, SMTT(20)
  <2>3. t + 1 \in Nulls(Batch) /\ t + 1 # Len(Batch) - 1
    BY <1>1, <1>6, <2>1, <2>2 DEF Nulls
  <2> QED
    BY <2>3
<1>10. ASSUME t >= MAXLINE
       PROVE  /\ Batch \in Text /\ Nulls(Batch) = {} /\ Batch[Len(Batch)][1] = "byte"
              /\ \E more \in Text : Kept = more \o Final(1) /\ Batch \o more = text /\ Len(more) <= t
  <2>1. n = MAXLINE /\ n \in 0 .. t
    BY <1>1, <1>5, <1>10
  <2> DEFINE a == SubSeq(text, 1, n)  more == SubSeq(text, n + 1, Len(text))
  <2>2. /\ a \in Text /\ Len(a) = n /\ \A i \in 1 .. n : a[i] = text[i]
        /\ more \in Text /\ Len(more) = t - n /\ \A i \in 1 .. t - n : more[i] = text[n + i]
        /\ a \o more = text
    <3>1. n \in 0 .. Len(text)
      BY <1>0, <2>1
    <3>2. Text = Seq(B)
      BY DEF Text, B
    <3> QED
      BY <1>0, <3>1, <3>2, Cut
  <2> HIDE DEF a, more
  <2>3. Batch = a
    <3>1. \A i \in 1 .. n : Batch[i] = a[i]
      BY <1>1, <1>2, <1>6, <2>1, <2>2
    <3>2. a \in Text /\ Len(a) = n
      BY <2>2
    <3> QED
      BY <1>6, <3>1, <3>2, SameSeq DEF Text
  <2>4. \A i \in 1 .. n : Batch[i] # Null /\ Batch[i][1] = "byte"
    BY <1>1, <2>1, <2>2, <2>3
  <2>5. Nulls(Batch) = {} /\ Batch[Len(Batch)][1] = "byte"
    <3>1. \A i \in DOMAIN Batch : Batch[i] # Null
      BY <1>7, <2>4
    <3>2. Nulls(Batch) = {}
      BY <3>1 DEF Nulls
    <3>3. Len(Batch) = n /\ n \in 1 .. n
      BY <1>1, <1>6, <2>1
    <3> QED
      BY <2>4, <3>2, <3>3
  <2>6. Kept = more \o Final(1)
    <3> DEFINE fin == <<Null, <<"status", 1>>>>  s == more \o fin
    <3>0. Null \in Cells /\ <<"status", 1>> \in Cells
      BY DEF Cells
    <3>1. fin \in Seq(Cells) /\ Len(fin) = 2 /\ fin[1] = Null /\ fin[2] = <<"status", 1>>
      BY <3>0
    <3> HIDE DEF fin
    <3>2. more \in Seq(Cells)
      BY <2>2 DEF Text, Cells, B
    <3>3. s \in Seq(Cells) /\ Len(s) = t - n + 2 /\ (\A i \in 1 .. t - n : s[i] = more[i])
          /\ \A i \in 1 .. 2 : s[t - n + i] = fin[i]
      <4>1. /\ s \in Seq(Cells) /\ Len(s) = Len(more) + Len(fin)
            /\ \A i \in 1 .. Len(more) : s[i] = more[i]
            /\ \A i \in 1 .. Len(fin) : s[Len(more) + i] = fin[i]
        <5>1. fin \in Seq(Cells)
          BY <3>1
        <5> QED
          BY <3>2, <5>1, JoinIs
      <4> HIDE DEF s
      <4> QED
        BY <2>2, <3>1, <4>1
    <3> HIDE DEF s
    <3>4. ASSUME NEW i \in 1 .. t + 2 - n PROVE Kept[i] = s[i]
      <4>1. Kept[i] = stream[n + i]
        BY <1>6
      <4>2. CASE i \in 1 .. t - n
        <5>1. n + i \in 1 .. t
          BY <1>1, <2>1, <4>2
        <5> QED
          BY <1>2, <2>2, <3>3, <4>1, <4>2, <5>1
      <4>3. CASE i = t - n + 1
        <5>1. n + i = t + 1 /\ s[i] = fin[1]
          BY <1>1, <2>1, <3>3, <4>3
        <5> QED
          BY <1>2, <3>1, <4>1, <5>1
      <4>4. CASE i = t - n + 2
        <5>1. n + i = t + 2 /\ s[i] = fin[2]
          BY <1>1, <2>1, <3>3, <4>4
        <5> QED
          BY <1>2, <3>1, <4>1, <5>1
      <4>5. i \in 1 .. t - n \/ i = t - n + 1 \/ i = t - n + 2
        BY <1>1, <2>1
      <4> QED
        BY <4>2, <4>3, <4>4, <4>5
    <3>5. Len(Kept) = Len(s)
      BY <1>1, <1>6, <2>1, <3>3
    <3>6. Kept = s
      <4>1. \A i \in 1 .. Len(Kept) : Kept[i] = s[i]
        BY <1>6, <3>4
      <4> QED
        BY <1>6, <3>3, <3>5, <4>1, SameSeq
    <3> QED
      BY <3>6 DEF s, fin, Final
  <2>7. Len(more) <= t
    BY <1>1, <2>1, <2>2
  <2> QED
    BY <2>2, <2>3, <2>5, <2>6, <2>7
<1>11. stream # <<>>
  BY <1>1, <1>2
<1> QED
  BY <1>1, <1>8, <1>9, <1>10, <1>11 DEF t

-----------------------------------------------------------------------------
(* The steps                                                               *)

LEMMA OpenStarts == OpenInit => OpenInv
<1> SUFFICES ASSUME OpenInit PROVE OpenInv
  OBVIOUS
<1>1. /\ client = "line" /\ line = 0 /\ shown = <<>> /\ opend = "read" /\ stream = <<>> /\ failed = <<>>
      /\ requests = <<>> /\ lost = FALSE /\ cut = FALSE
  BY DEF OpenInit
<1>2. Len(failed) = 0 /\ failed \in Seq(Nat \X MsgLens) /\ shown \in Text
  BY <1>1 DEF Text
<1>3. AllTold = <<>>
  BY <1>2, ToldJoins, JoinedIs DEF AllTold
<1> QED
  <2>1. OpenTypes
    BY <1>1, <1>2, OpenAssumption DEF OpenTypes
  <2>2. Steady
    BY <1>1, <1>2, <1>3, <2>1 DEF Steady, NullInPlace
  <2> QED
    BY <1>1, <2>2 DEF OpenInv

(* While nothing fails, all that is told stays.                            *)
LEMMA SameTold ==
  ASSUME failed' = failed
  PROVE  AllTold' = AllTold /\ \A text : Sized(text)' <=> Sized(text)
BY DEF AllTold, Told, Bytes, Sized

LEMMA ClientKeeps ==
  ASSUME Steady, csopen \/ EndOfInput \/ ServerClosed \/ Cat
  PROVE  Steady'
<1> USE DEF Steady
<1>1. UNCHANGED <<shown, unsent, stream, failed, lost>> /\ AllTold' = AllTold
  BY SameTold DEF csopen, EndOfInput, ServerClosed, Cat, talk
<1>2. Len(failed) \in Nat
  BY DEF OpenTypes
<1>3. CASE csopen
  <2>1. client = "line" /\ line' = line + 1 /\ line' <= MaxLines
    BY <1>3, OpenAssumption DEF csopen, OpenTypes
  <2>2. CASE opend = "gone"
    <3>1. client' \in {"killed", "exit"} /\ opend' = "gone"
      BY <1>3, <2>2 DEF csopen
    <3> QED
      BY <1>1, <1>2, <2>1, <3>1 DEF OpenTypes, NullInPlace
  <2>3. CASE opend # "gone"
    <3>1. client' = "recv" /\ opend' = "read" /\ \E words : requests' = Append(requests, <<line', words>>)
      BY <1>3, <2>1, <2>3 DEF csopen
    <3>2. requests = <<>> /\ stream' = <<>> /\ (lost' \/ shown' = AllTold')
      BY <1>1, <2>1, <2>3
    <3>3. \E words : requests' = <<<<line', words>>>>
      BY <3>1, <3>2
    <3>4. Len(failed') < line' /\ line' \in Nat
      BY <1>1, <1>2, <2>1 DEF OpenTypes
    <3>5. Receiving'
      BY <3>1, <3>2, <3>3, <3>4 DEF Receiving
    <3> QED
      BY <1>1, <1>2, <2>1, <3>1, <3>5 DEF OpenTypes, NullInPlace
  <2> QED
    BY <2>2, <2>3
<1>4. CASE EndOfInput
  <2>1. client = "line" /\ client' = "exit" /\ opend' \in {"gone", opend} /\ UNCHANGED <<line, requests>>
    BY <1>4 DEF EndOfInput
  <2> QED
    BY <1>1, <2>1 DEF OpenTypes, NullInPlace
<1>5. CASE ServerClosed
  <2>1. client' = "line" /\ opend = "gone" /\ UNCHANGED <<line, opend>>
    BY <1>5 DEF ServerClosed
  <2> QED
    BY <1>1, <2>1 DEF OpenTypes, NullInPlace
<1>6. CASE Cat
  <2>1. client = "cat" /\ client' = "line" /\ UNCHANGED <<line, opend, requests>>
    BY <1>6 DEF Cat
  <2> QED
    BY <1>1, <2>1 DEF OpenTypes, NullInPlace
<1> QED
  BY <1>3, <1>4, <1>5, <1>6

LEMMA ServerKeeps ==
  ASSUME Steady, Request \/ send_fd \/ SendMessage \/ send_err \/ OpendDies
  PROVE  Steady'
<1> USE DEF Steady
<1>1. UNCHANGED <<client, line, newfd, shown, lost>>
  BY DEF Request, send_fd, SendMessage, send_err, OpendDies, talk
<1>2. shown \in Text /\ Len(failed) \in Nat
  BY DEF OpenTypes
<1>3. CASE Request
  <2>0. opend = "read" /\ requests # <<>> /\ stream' = stream /\ reqline' = Head(requests)[1]
        /\ \E n \in 1 .. Len(requests) : requests' = SubSeq(requests, n + 1, Len(requests))
    BY <1>3 DEF Request
  <2>1. /\ client = "recv" /\ stream = <<>> /\ (lost \/ shown = AllTold)
        /\ Len(failed) < line /\ \E words : requests = <<<<line, words>>>>
    <3>1. client = "recv"
      BY <2>0
    <3>2. stream = <<>>
      BY <2>0, <3>1 DEF Receiving
    <3> QED
      BY <2>0, <3>1 DEF Receiving
  <2>4. reqline' = line' /\ requests' = <<>>
    <3>1. PICK words : requests = <<<<line, words>>>>
      BY <2>1
    <3>2. Len(requests) = 1 /\ Head(requests) = <<line, words>>
      BY <3>1
    <3>3. requests' = SubSeq(requests, 2, 1)
      BY <2>0, <3>2
    <3> QED
      BY <1>1, <2>0, <3>1, <3>2, <3>3
  <2>2. CASE opend' = "send_fd" /\ failed' = failed
    BY <1>1, <2>0, <2>1, <2>2, <2>4, SameTold DEF OpenTypes, NullInPlace, Receiving, Answering
  <2>3. CASE \E n \in MsgLens :
               opend' = "send_err" /\ unsent' = Msg(n)' /\ failed' = Append(failed, <<reqline', n>>)
    <3>1. PICK n \in MsgLens :
               opend' = "send_err" /\ unsent' = Msg(n)' /\ failed' = Append(failed, <<line, n>>)
      BY <1>1, <2>3, <2>4
    <3> DEFINE m == [i \in 1 .. n |-> <<"byte", line>>]
    <3>0. unsent' = m
      BY <1>1, <2>4, <3>1 DEF Msg
    <3> DEFINE x == <<line, n>>
    <3>2. x \in Nat \X MsgLens /\ x[1] = line /\ x[2] = n /\ n \in Nat /\ failed' = Append(failed, x)
      BY <3>1, OpenAssumption DEF OpenTypes
    <3> HIDE DEF x
    <3>3. /\ failed' \in Seq(Nat \X MsgLens) /\ Len(failed') = Len(failed) + 1 /\ failed' # <<>>
          /\ failed'[Len(failed')] = x
      BY <3>2 DEF OpenTypes
    <3>4. AllTold' = AllTold \o m
      <4>1. Len(failed) < MaxLines
        BY <1>2, <2>1, OpenAssumption DEF OpenTypes
      <4>2. AllTold' = AllTold \o [i \in 1 .. x[2] |-> <<"byte", x[1]>>]
        BY <3>2, <4>1, ToldNext
      <4> QED
        BY <3>2, <4>2
    <3>5. m \in Text /\ Len(m) = n
      <4>1. line \in Nat
        BY DEF OpenTypes
      <4> QED
        BY <3>2, <4>1 DEF Text
    <3> HIDE DEF m
    <3>6. (lost' \/ (shown' \o stream') \o unsent' = AllTold') /\ stream' \o unsent' = unsent'
      <4>1. shown \o <<>> = shown /\ <<>> \o m = m
        BY <1>2, <3>5, JoinEmpty DEF Text
      <4>2. stream' = <<>> /\ shown' = shown /\ lost' = lost
        BY <1>1, <2>0, <2>1
      <4>3. stream' \o unsent' = unsent'
        BY <3>0, <4>1, <4>2, Zenon
      <4>4. shown = AllTold => (shown' \o stream') \o unsent' = AllTold'
        BY <3>0, <3>4, <4>1, <4>2, Zenon
      <4> QED
        BY <2>1, <4>2, <4>3, <4>4
    <3>7. stream' \in Text
      BY <2>0, <2>1 DEF Text
    <3>8. Sized(stream \o unsent)'
      BY <3>0, <3>2, <3>3, <3>5, <3>6 DEF Sized
    <3>9. Receiving'
      BY <2>4, <3>0, <3>1, <3>5, <3>6, <3>7, <3>8 DEF Receiving, Answering
    <3> QED
      BY <1>1, <1>2, <2>1, <3>1, <3>3, <3>9 DEF OpenTypes, NullInPlace
  <2> QED
    BY <1>3, <2>2, <2>3 DEF Request
<1>4. CASE send_fd
  <2>1. opend = "send_fd" /\ client = "recv" /\ stream = <<>> /\ (lost \/ shown = AllTold) /\ opend' = "read"
        /\ Answering /\ UNCHANGED <<failed, reqline, requests>> /\ stream' = <<>> \o Rights
    BY <1>4 DEF send_fd, Receiving
  <2>2. stream' = Rights'
    BY <1>1, <2>1 DEF Rights
  <2>3. Receiving'
    BY <1>1, <2>1, <2>2, SameTold DEF Receiving, Answering
  <2> QED
    BY <1>1, <2>1, <2>3 DEF OpenTypes, NullInPlace
<1>5. CASE SendMessage
  <2>1. /\ opend = "send_err" /\ client = "recv" /\ UNCHANGED <<opend, failed, requests, reqline>>
        /\ Answering /\ stream \in Text /\ unsent \in Text /\ Sized(stream \o unsent)
        /\ (lost \/ (shown \o stream) \o unsent = AllTold)
    BY <1>5 DEF SendMessage, Receiving
  <2>2. PICK n \in 1 .. Len(unsent) :
           stream' = stream \o SubSeq(unsent, 1, n) /\ unsent' = SubSeq(unsent, n + 1, Len(unsent))
    BY <1>5 DEF SendMessage
  <2> DEFINE a == SubSeq(unsent, 1, n)
  <2>3. a \in Text /\ unsent' \in Text /\ a \o unsent' = unsent
    <3>1. n \in 0 .. Len(unsent)
      OBVIOUS
    <3> QED
      BY <2>1, <2>2, <3>1, Cut DEF Text
  <2>4. stream' = stream \o a
    BY <2>2
  <2> HIDE DEF a
  <2>5. stream' \in Text /\ stream' \o unsent' = stream \o unsent
    <3>0. stream \in Text /\ a \in Text /\ unsent' \in Text
      BY <2>1, <2>3
    <3>1. (stream \o a) \o unsent' = stream \o (a \o unsent')
      BY <3>0, JoinText, ZenonT(30)
    <3>2. stream \o a \in Text
      BY <2>1, <2>3, JoinIs DEF Text
    <3> QED
      BY <2>3, <2>4, <3>1, <3>2
  <2>6. lost' \/ (shown' \o stream') \o unsent' = AllTold'
    <3>1. (shown \o stream') \o unsent' = shown \o (stream' \o unsent')
      BY <1>2, <2>3, <2>5, JoinText
    <3>2. (shown \o stream) \o unsent = shown \o (stream \o unsent)
      BY <1>2, <2>1, JoinText
    <3>3. AllTold' = AllTold
      BY <2>1, SameTold
    <3> QED
      BY <1>1, <2>1, <2>5, <3>1, <3>2, <3>3, Zenon
  <2>7. Sized(stream \o unsent)'
    BY <2>1, <2>5 DEF Sized
  <2>8. Receiving'
    BY <1>1, <2>1, <2>3, <2>5, <2>6, <2>7 DEF Receiving, Answering
  <2> QED
    BY <1>1, <2>1, <2>8 DEF OpenTypes, NullInPlace
<1>6. CASE send_err
  <2>1. /\ opend = "send_err" /\ client = "recv" /\ opend' = "read" /\ failed' = failed
        /\ Answering /\ requests' = requests /\ stream \in Text /\ unsent = <<>> /\ Sized(stream \o unsent)
        /\ (lost \/ (shown \o stream) \o unsent = AllTold) /\ stream' = stream \o Final(1)
    BY <1>6 DEF send_err, Receiving
  <2>2. stream \o <<>> = stream /\ (shown \o stream) \o <<>> = shown \o stream
    <3>1. shown \o stream \in Text
      BY <1>2, <2>1, JoinIs DEF Text
    <3> QED
      BY <2>1, <3>1, JoinEmpty DEF Text
  <2>3. Sized(stream) /\ (lost \/ shown \o stream = AllTold)
    BY <2>1, <2>2
  <2>4. Receiving'
    <3>1. AllTold' = AllTold /\ \A text : Sized(text)' <=> Sized(text)
      BY <2>1, SameTold
    <3> QED
      BY <1>1, <2>1, <2>3, <3>1 DEF Receiving, Answering
  <2> QED
    BY <1>1, <2>1, <2>4 DEF OpenTypes, NullInPlace
<1>7. CASE OpendDies
  <2>1. opend' = "gone" /\ UNCHANGED <<stream, failed, reqline>>
    BY <1>7 DEF OpendDies
  <2>2. AllTold' = AllTold /\ \A text : Sized(text)' <=> Sized(text)
    BY <2>1, SameTold
  <2>3. ASSUME Receiving PROVE Receiving'
    <3>1. CASE opend \in {"read", "send_fd"} /\ stream = <<>>
      BY <2>1, <3>1 DEF Receiving, Text
    <3>2. CASE opend = "send_err" /\ stream \in Text /\ unsent \in Text /\ Sized(stream \o unsent)
      <4>1. Len(stream \o unsent) = Len(stream) + Len(unsent) /\ Len(unsent) >= 0 /\ Len(stream) \in Nat
            /\ Len(unsent) \in Nat
        BY <3>2, JoinText DEF Text
      <4>2. failed # <<>> /\ failed[Len(failed)][2] \in Nat
        <5>1. failed # <<>> /\ failed \in Seq(Nat \X MsgLens)
          BY <3>2 DEF Sized, OpenTypes
        <5>2. failed[Len(failed)] \in Nat \X MsgLens
          BY <5>1
        <5> QED
          BY <5>1, <5>2, OpenAssumption
      <4>3. Sized(stream)
        BY <3>2, <4>1, <4>2 DEF Sized
      <4>4. (Sized(stream))'
        BY <2>1, <4>3 DEF Sized
      <4> QED
        BY <2>1, <2>2, <3>2, <4>4 DEF Receiving
    <3>3. CASE opend \in {"read", "gone"} /\ stream = Rights /\ reqline = line
      BY <1>1, <2>1, <3>3 DEF Receiving, Rights
    <3>4. CASE opend \in {"read", "gone"} /\ \E text \in Text : stream = text \o Final(1) /\ Sized(text)
      BY <2>1, <2>2, <3>4 DEF Receiving
    <3>5. CASE opend = "gone" /\ stream \in Text /\ (stream # <<>> => Sized(stream))
      <4>1. (stream # <<>> => Sized(stream))'
        BY <2>1, <3>5 DEF Sized
      <4> QED
        BY <2>1, <3>5, <4>1 DEF Receiving
    <3> QED
      BY <2>3, <3>1, <3>2, <3>3, <3>4, <3>5 DEF Receiving
  <2> QED
    BY <1>1, <2>1, <2>3 DEF OpenTypes, NullInPlace
<1> QED
  BY <1>3, <1>4, <1>5, <1>6, <1>7

LEMMA RecvKeeps ==
  ASSUME Steady, recv_fd, ~cut', lost \in BOOLEAN
  PROVE  Steady'
<1> USE DEF Steady
<1>1. /\ client = "recv" /\ stream # <<>> /\ stream' = Kept /\ Receiving
      /\ UNCHANGED <<line, opend, reqline, requests, unsent, failed>>
  BY DEF recv_fd, Kept
<1>2. shown \in Text /\ Len(failed) \in Nat
  BY DEF OpenTypes
<1>3. AllTold' = AllTold /\ \A text : Sized(text)' <=> Sized(text)
  BY <1>1, SameTold
<1> DEFINE b == Batch  last == b[Len(b)]
<1>4. \/ Misplaced(b) /\ client' = "dumped" /\ UNCHANGED <<newfd, shown, lost>>
      \/ /\ ~Misplaced(b) /\ UNCHANGED lost
         /\ shown' = shown \o Message(b)
         /\ client' = IF Nulls(b) = {} THEN "recv" ELSE IF last[1] = "fd" THEN "cat" ELSE "line"
         /\ newfd' = IF last[1] = "fd" THEN last[2] ELSE 0
      \/ /\ ~Misplaced(b) /\ Nulls(b) # {} /\ lost' /\ client' = "line"
         /\ \E n \in 0 .. Len(Message(b)) - 1 : shown' = shown \o SubSeq(Message(b), 1, n)
  <2> HIDE DEF b
  <2>1. Dump(b) \/ Shows(b) \/ ShowFails(b)
    BY DEF recv_fd, b
  <2> QED
    BY <2>1 DEF Dump, Shows, ShowFails, talk
<1>5. ASSUME b \in Text, Nulls(b) = {}
      PROVE  shown' = shown \o b /\ client' = "recv" /\ shown' \in Text /\ lost' = lost
  <2> HIDE DEF b
  <2>1. ~Misplaced(b) /\ Message(b) = b
    BY <1>5 DEF Misplaced, Message
  <2>2. shown' = shown \o b /\ client' = "recv" /\ lost' = lost
    BY <1>4, <1>5, <2>1
  <2> QED
    BY <1>2, <1>5, <2>2, JoinText
<1>6. ASSUME client' = "recv", shown' \in Text, Receiving'
      PROVE  Steady'
  BY <1>1, <1>6 DEF OpenTypes, NullInPlace
\* part of a text
<1>7. ASSUME stream \in Text
      PROVE  /\ client' = "recv" /\ shown' \in Text /\ stream' \in Text /\ b \in Text
             /\ shown' = shown \o b /\ b \o stream' = stream /\ Len(stream') <= Len(stream)
             /\ lost' = lost
  <2>1. b \in Text /\ Nulls(b) = {} /\ Kept \in Text /\ Len(Kept) <= Len(stream) /\ b \o Kept = stream
    BY <1>1, <1>7, TextBatch
  <2> QED
    BY <1>1, <1>5, <2>1, Zenon
<1>8. CASE opend = "send_err"
  <2>1. /\ stream \in Text /\ unsent \in Text /\ Answering
        /\ Sized(stream \o unsent) /\ (lost \/ (shown \o stream) \o unsent = AllTold)
    BY <1>1, <1>8 DEF Receiving
  <2> HIDE DEF b
  <2>2. /\ client' = "recv" /\ shown' \in Text /\ stream' \in Text /\ b \in Text
        /\ shown' = shown \o b /\ b \o stream' = stream /\ Len(stream') <= Len(stream)
        /\ lost' = lost
    BY <1>7, <2>1
  <2>3. (shown \o b) \o stream' = shown \o stream
    BY <1>2, <2>2, JoinText, Zenon
  <2>4. lost' \/ (shown' \o stream') \o unsent' = AllTold'
    <3>1. (shown' \o stream') \o unsent' = (shown \o stream) \o unsent
      BY <1>1, <2>2, <2>3, Zenon
    <3> QED
      BY <1>3, <2>1, <2>2, <3>1
  <2>5. Len(stream' \o unsent) = Len(stream') + Len(unsent) /\ Len(stream \o unsent) = Len(stream) + Len(unsent)
        /\ Len(stream') \in Nat /\ Len(stream) \in Nat /\ Len(unsent) \in Nat
    <3>1. stream \in Text /\ stream' \in Text /\ unsent \in Text
      BY <2>1, <2>2
    <3> QED
      BY <3>1, JoinText, TextLen
  <2>6. (Sized(stream \o unsent))'
    <3>1. failed # <<>> /\ failed \in Seq(Nat \X MsgLens)
      BY <2>1 DEF Sized, OpenTypes
    <3>2. failed[Len(failed)] \in Nat \X MsgLens
      BY <3>1
    <3>3. failed[Len(failed)][2] \in Nat
      BY <3>2, OpenAssumption
    <3> QED
      BY <1>1, <2>1, <2>2, <2>5, <3>3 DEF Sized
  <2>7. Receiving'
    BY <1>1, <1>8, <2>1, <2>2, <2>4, <2>6 DEF Receiving, Answering
  <2> QED
    BY <1>6, <2>2, <2>7
<1>9. CASE /\ opend \in {"read", "gone"} /\ stream = Rights /\ reqline = line
           /\ opend = "read" => requests = <<>> /\ (lost \/ shown = AllTold)
  <2>1. Len(stream) = 2 /\ stream[1] = Null /\ stream[2] = <<"fd", line>> /\ Shorter(MAXLINE, 2) = 2
    BY <1>9, OpenAssumption DEF Rights, Null, Shorter
  <2>2. b = stream
    <3>1. b = SubSeq(stream, 1, 2)
      BY <2>1 DEF Batch
    <3> DEFINE S == {stream[1], stream[2]}
    <3>2. stream \in Seq(S) /\ Len(stream) = 2
      BY <1>9 DEF Rights
    <3> HIDE DEF S
    <3>3. b \in Seq(S) /\ Len(b) = 2 /\ \A i \in 1 .. 2 : b[i] = stream[i]
      <4>1. stream \in Seq(S) /\ 2 \in 0 .. Len(stream)
        BY <3>2
      <4>2. /\ SubSeq(stream, 1, 2) \in Seq(S) /\ Len(SubSeq(stream, 1, 2)) = 2
            /\ \A i \in 1 .. 2 : SubSeq(stream, 1, 2)[i] = stream[i]
        BY <4>1, Cut
      <4> HIDE DEF b
      <4> QED
        BY <3>1, <4>2
    <3> HIDE DEF b
    <3> QED
      BY <3>2, <3>3, SameSeq
  <2>3. DOMAIN b = 1 .. 2 /\ b[2] # Null /\ Len(b) = 2
    BY <1>9, <2>1, <2>2 DEF Rights, Null
  <2>4. Nulls(b) = {1}
    BY <2>1, <2>2, <2>3 DEF Nulls
  <2>5. stream' = <<>>
    BY <1>1, <2>1, <2>2, <1>9 DEF Kept, Rights
  <2>6. SubSeq(b, 1, 0) = <<>>
    BY <1>9, <2>2 DEF Rights
  <2> HIDE DEF b
  <2>7. Nulls(b) \ {Len(b) - 1} = {} /\ Nulls(b) # {} /\ last[1] = "fd" /\ last[2] = line /\ Len(b) - 2 = 0
    <3>1. Len(b) - 1 = 1 /\ Len(b) - 2 = 0
      BY <2>3
    <3>2. last = <<"fd", line>>
      BY <2>1, <2>2, <2>3
    <3> HIDE DEF last
    <3>3. last[1] = "fd" /\ last[2] = line
      BY <3>2
    <3> QED
      BY <2>4, <3>1, <3>3
  <2>8. shown' = shown \o <<>> /\ client' = "cat" /\ newfd' = line /\ lost' = lost
    <3>1. ~Misplaced(b) /\ Message(b) = <<>> /\ Len(<<>>) = 0
      BY <2>6, <2>7 DEF Misplaced, Message
    <3>2. ~ \E n \in 0 .. Len(Message(b)) - 1 : TRUE
      BY <3>1
    <3> QED
      BY <1>4, <2>7, <3>1, <3>2
  <2>9. shown' = shown
    BY <1>2, <2>8, JoinEmpty DEF Text
  <2> QED
    BY <1>1, <1>3, <1>9, <2>5, <2>8, <2>9 DEF OpenTypes, NullInPlace
<1>10. ASSUME opend \in {"read", "gone"}, NEW text \in Text, stream = text \o Final(1), Sized(text),
              opend = "read" => requests = <<>> /\ (lost \/ shown \o text = AllTold)
       PROVE  Steady'
  <2> DEFINE t == Len(text)
  <2>1. /\ t \in Nat
        /\ t + 2 <= MAXLINE =>
             /\ Kept = <<>> /\ Nulls(b) = {Len(b) - 1} /\ b[Len(b)] = <<"status", 1>>
             /\ SubSeq(b, 1, Len(b) - 2) = text
        /\ t + 1 = MAXLINE => Nulls(b) \ {Len(b) - 1} # {}
        /\ t >= MAXLINE =>
             /\ b \in Text /\ Nulls(b) = {} /\ b[Len(b)][1] = "byte"
             /\ \E more \in Text : Kept = more \o Final(1) /\ b \o more = text /\ Len(more) <= t
    BY <1>10, FinalBatch
  <2>2. failed # <<>> /\ t <= failed[Len(failed)][2]
    BY <1>10 DEF Sized
  <2> HIDE DEF b, t
  <2>3. CASE t + 2 <= MAXLINE
    <3>1. Nulls(b) \ {Len(b) - 1} = {} /\ Nulls(b) # {} /\ last[1] = "status" /\ SubSeq(b, 1, Len(b) - 2) = text
          /\ stream' = <<>>
      <4>1. Nulls(b) = {Len(b) - 1} /\ last = <<"status", 1>> /\ SubSeq(b, 1, Len(b) - 2) = text /\ Kept = <<>>
        BY <2>1, <2>3
      <4> HIDE DEF last
      <4>2. last[1] = "status"
        BY <4>1
      <4> QED
        BY <1>1, <4>1, <4>2, Zenon
    <3>5. ~Misplaced(b) /\ Message(b) = text
      BY <3>1 DEF Misplaced, Message
    <3>4. ASSUME NEW n \in 0 .. t - 1 PROVE SubSeq(text, 1, n) \in Text
      <4>1. n \in 0 .. Len(text)
        BY <2>1, <3>4 DEF t
      <4> QED
        BY <1>10, <4>1, Cut DEF Text
    <3>6. \/ shown' = shown \o text /\ client' = "line" /\ lost' = lost
          \/ /\ lost' /\ client' = "line"
             /\ \E n \in 0 .. t - 1 : shown' = shown \o SubSeq(text, 1, n)
      BY <1>4, <3>1, <3>5 DEF t
    <3>3. shown' \in Text
      <4>1. \E some \in Text : shown' = shown \o some
        BY <1>10, <3>4, <3>6
      <4> QED
        BY <1>2, <4>1, JoinText
    <3>2. client' = "line" /\ (opend = "read" => lost' \/ shown' = AllTold)
      BY <1>10, <3>6
    <3> QED
      BY <1>1, <1>3, <1>10, <3>1, <3>2, <3>3 DEF OpenTypes, NullInPlace
  <2>4. CASE t + 1 = MAXLINE
    <3>1. client' = "dumped" /\ shown' = shown
      BY <1>4, <2>1, <2>4 DEF Misplaced
    <3>2. failed[Len(failed)][2] >= MAXLINE - 1
      <4>1. failed \in Seq(Nat \X MsgLens)
        BY DEF OpenTypes
      <4>2. failed[Len(failed)] \in Nat \X MsgLens
        BY <2>2, <4>1
      <4>3. failed[Len(failed)][2] \in Nat
        BY <4>2, OpenAssumption
      <4> QED
        BY <2>1, <2>2, <2>4, <4>3, OpenAssumption
    <3> QED
      BY <1>1, <1>10, <2>2, <3>1, <3>2 DEF OpenTypes, NullInPlace
  <2>5. CASE t >= MAXLINE
    <3>1. PICK more \in Text : Kept = more \o Final(1) /\ b \o more = text /\ Len(more) <= t
      BY <2>1, <2>5
    <3>2. b \in Text /\ shown' = shown \o b /\ client' = "recv" /\ shown' \in Text /\ lost' = lost
      BY <1>5, <2>1, <2>5
    <3>3. (shown \o b) \o more = shown \o (b \o more)
      <4>1. shown \in Text /\ b \in Text /\ more \in Text
        BY <1>2, <3>2
      <4> QED
        BY <4>1, TextAssoc, Zenon
    <3>4. opend' = "read" => requests' = <<>> /\ (lost' \/ shown' \o more = AllTold')
      <4>1. shown' \o more = shown \o text
        BY <3>1, <3>2, <3>3, Zenon
      <4> QED
        BY <1>1, <1>3, <1>10, <3>2, <4>1
    <3>5. Sized(more)
      <4>1. failed \in Seq(Nat \X MsgLens)
        BY DEF OpenTypes
      <4>2. failed[Len(failed)] \in Nat \X MsgLens
        BY <2>2, <4>1
      <4>3. failed[Len(failed)][2] \in Nat /\ Len(more) \in Nat
        BY <4>2, OpenAssumption, TextLen
      <4> QED
        BY <2>1, <2>2, <3>1, <4>3 DEF Sized
    <3>6. \A text1 : Sized(text1)' <=> Sized(text1)
      BY <1>3
    <3>7. Receiving'
      BY <1>1, <1>10, <3>1, <3>4, <3>5, <3>6 DEF Receiving
    <3> QED
      BY <1>6, <3>2, <3>7
  <2> QED
    BY <2>1, <2>3, <2>4, <2>5, OpenAssumption
<1>11. CASE opend = "gone" /\ stream \in Text /\ (stream # <<>> => Sized(stream))
  <2> HIDE DEF b
  <2>1. client' = "recv" /\ shown' \in Text /\ stream' \in Text /\ Len(stream') <= Len(stream)
    BY <1>7, <1>11
  <2>2. (Sized(stream))'
    <3>1. failed # <<>> /\ failed \in Seq(Nat \X MsgLens) /\ Len(stream) <= failed[Len(failed)][2]
      BY <1>1, <1>11 DEF Sized, OpenTypes
    <3>2. failed[Len(failed)] \in Nat \X MsgLens
      BY <3>1
    <3>3. failed[Len(failed)][2] \in Nat /\ Len(stream) \in Nat /\ Len(stream') \in Nat
      BY <1>11, <2>1, <3>2, OpenAssumption, TextLen
    <3> QED
      BY <1>1, <2>1, <3>1, <3>3 DEF Sized
  <2>3. Receiving'
    BY <1>1, <1>11, <2>1, <2>2 DEF Receiving
  <2> QED
    BY <1>6, <2>1, <2>3
<1> QED
  BY <1>1, <1>8, <1>9, <1>10, <1>11 DEF Receiving

(* Requests and answers stay in step, for every length of MAXLINE and of   *)
(* the messages, however the stream joins and splits what is written, as   *)
(* long as the client reads every answer to its end, which it does not     *)
(* when standard error refuses a piece of a message that the null does not *)
(* follow (recv_fd, send_err, send_fd, csopen).                            *)
THEOREM StaysInStep == OpenSpec => []AnswersInStep
<1>1. OpenInv /\ [OpenNext]_openVars => OpenInv'
  <2> SUFFICES ASSUME OpenInv, [OpenNext]_openVars PROVE OpenInv'
    OBVIOUS
  <2>0. lost' \in BOOLEAN /\ cut' \in BOOLEAN /\ (~cut' => ~cut)
    BY DEF OpenInv, OpenNext, csopen, EndOfInput, recv_fd, Dump, Shows, ShowFails, ServerClosed, Cat,
           Request, send_fd, SendMessage, send_err, OpendDies, openVars, talk
  <2> SUFFICES ASSUME Steady, ~cut' PROVE Steady'
    BY <2>0 DEF OpenInv
  <2>2. lost \in BOOLEAN
    BY DEF OpenInv
  <2>1. CASE UNCHANGED openVars
    <3>1. UNCHANGED <<client, line, newfd, shown, opend, unsent, stream, failed, requests, reqline, lost>>
      BY <2>1 DEF openVars, talk
    <3>2. AllTold' = AllTold /\ \A text : Sized(text)' <=> Sized(text)
      BY <3>1, SameTold
    <3>3. (Sized(stream \o unsent))' <=> Sized(stream \o unsent)
      BY <3>1 DEF Sized
    <3>4. (Sized(stream))' <=> Sized(stream)
      BY <3>1 DEF Sized
    <3>5. Receiving => Receiving'
      BY <3>1, <3>2, <3>3, <3>4 DEF Receiving, Rights, Answering
    <3> QED
      BY <3>1, <3>2, <3>5 DEF Steady, OpenTypes, NullInPlace
  <2> QED
    BY <2>1, <2>2, ClientKeeps, ServerKeeps, RecvKeeps DEF OpenNext
<1>2. OpenInv => AnswersInStep
  BY DEF OpenInv, Steady, AnswersInStep, AllTold
<1> QED
  BY <1>1, <1>2, OpenStarts, PTL DEF OpenSpec
=============================================================================
