------------------------------- MODULE UnixConn -------------------------------
(***************************************************************************)
(* Connections over Unix domain sockets: serv_listen, serv_accept and      *)
(* cli_conn (lib.sun; lib.44/cliconn.c differs in the codes it returns).   *)
(* A client binds a name made of its process id, and the server learns     *)
(* who calls from the owner, the mode and the age of that name.  A process *)
(* id may be used again once its process is gone.  The names are in        *)
(* /var/tmp, where only a file's owner or root may remove it.              *)
(***************************************************************************)
EXTENDS Integers, Sequences

CONSTANTS
  Callers, Pid, Uid, \* the clients, their process ids and users
  ServUser,          \* the server's user
  MaxListens, MaxTicks

VARIABLES
  cpc,      \* where each client is in cli_conn
  names,    \* the files /var/tmp/<pid>
  server,   \* where the server is
  queue,    \* listen's: clients that have connected
  calling,  \* the client just accepted, or none
  result,   \* what serv_accept returned for a client
  outlived, \* clients whose name another process could remove (history)
  waited,   \* clients STALE seconds have passed for (history)
  ticks, listens

connVars == <<cpc, names, server, queue, calling, result, outlived, waited, ticks, listens>>

NoName == [owner |-> "nobody", mode |-> "none", stale |-> FALSE]
NoCall == {}
Pids == {Pid[c] : c \in Callers}
Gone == {"unborn", "dead"}

Root == "root"
MayRemove(u, owner) == u \in {owner, Root}
Without(u, i) == IF MayRemove(u, names[i].owner) THEN [names EXCEPT ![i] = NoName] ELSE names

ConnInit ==
  /\ cpc = [c \in Callers |-> "unborn"] /\ names = [i \in Pids |-> NoName]
  /\ server = "down" /\ queue = <<>> /\ calling = NoCall
  /\ result = [c \in Callers |-> "none"] /\ outlived = {} /\ waited = {}
  /\ ticks = 0 /\ listens = 0

ServerSame == UNCHANGED <<server, queue, calling, result, ticks, listens>>
To(c, from, to) == cpc[c] = from /\ cpc' = [cpc EXCEPT ![c] = to]

-----------------------------------------------------------------------------
(* cli_conn                                                                *)

(* fork gives out a process id nobody has.                                 *)
Start(c) ==
  /\ \A o \in Callers : Pid[o] = Pid[c] => cpc[o] \in Gone
  /\ To(c, "unborn", "unlink")
  /\ outlived' = outlived \cup
       {o \in Callers : cpc[o] = "dead" /\ Pid[o] = Pid[c] /\ MayRemove(Uid[c], Uid[o])}
  /\ UNCHANGED <<names, waited>> /\ ServerSame

(* Seeded bug: the name of a dead process is not removed first.            *)
CliUnlink_not(c) ==
  /\ To(c, "unlink", "bind") /\ UNCHANGED names
  /\ UNCHANGED <<outlived, waited>> /\ ServerSame

(* That unlink fails is not noticed.                                       *)
CliUnlink(c) ==
  /\ To(c, "unlink", "bind") /\ names' = Without(Uid[c], Pid[c])
  /\ UNCHANGED <<outlived, waited>> /\ ServerSame

(* bind fails where the name exists; the mode is the umask's.              *)
CliBind(c) ==
  /\ IF names[Pid[c]] # NoName THEN To(c, "bind", "taken") /\ UNCHANGED names
     ELSE /\ To(c, "bind", "chmod")
          /\ names' = [names EXCEPT ![Pid[c]] = [owner |-> Uid[c], mode |-> "umask", stale |-> FALSE]]
  /\ UNCHANGED <<outlived, waited>> /\ ServerSame

(* chmod fails where a server has removed the name meanwhile, as that of   *)
(* the process that had the process id before.                             *)
CliChmod(c) ==
  /\ IF names[Pid[c]] = NoName THEN To(c, "chmod", "refused") /\ UNCHANGED names
     ELSE To(c, "chmod", "connect") /\ names' = [names EXCEPT ![Pid[c]].mode = "rwx------"]
  /\ UNCHANGED <<outlived, waited>> /\ ServerSame

(* connect waits for nobody: it fails where nobody listens.                *)
CliConnect(c) ==
  /\ IF server = "down" THEN To(c, "connect", "refused") /\ UNCHANGED queue
     ELSE To(c, "connect", "connected") /\ queue' = Append(queue, c)
  /\ UNCHANGED <<names, outlived, waited, server, calling, result, ticks, listens>>

(* A client may end anywhere, its name stays.                              *)
CliEnds(c) ==
  /\ cpc[c] \notin Gone /\ cpc' = [cpc EXCEPT ![c] = "dead"]
  /\ UNCHANGED <<names, outlived, waited>> /\ ServerSame

-----------------------------------------------------------------------------
(* serv_listen and serv_accept                                             *)

(* A server that starts takes the name over; what waited for the one       *)
(* before is lost.                                                         *)
serv_listen ==
  /\ server = "down" /\ listens < MaxListens /\ listens' = listens + 1
  /\ server' = "accept" /\ queue' = <<>>
  /\ UNCHANGED <<cpc, names, calling, result, outlived, waited, ticks>>

Accept ==
  /\ server = "accept" /\ queue # <<>>
  /\ calling' = {Head(queue)} /\ queue' = Tail(queue) /\ server' = "stat"
  /\ UNCHANGED <<cpc, names, result, outlived, waited, ticks, listens>>

Verdict(name) ==
  IF name = NoName THEN "no name"
  ELSE IF name.mode # "rwx------" THEN "bad mode"
  ELSE IF name.stale THEN "too old" ELSE name.owner

serv_accept(c) ==
  /\ server = "stat" /\ c \in calling
  /\ LET v == Verdict(names[Pid[c]])
     IN  /\ result' = [result EXCEPT ![c] = v]
         /\ IF v \in {Uid[o] : o \in Callers} THEN server' = "unlink" /\ UNCHANGED calling
            ELSE server' = "accept" /\ calling' = NoCall
  /\ UNCHANGED <<cpc, names, queue, outlived, waited, ticks, listens>>

(* The name of one whose own is gone is another's; and a server that is    *)
(* not root leaves those of other users.                                   *)
ServUnlink(c) ==
  /\ server = "unlink" /\ c \in calling
  /\ names' = Without(ServUser, Pid[c])
  /\ server' = "accept" /\ calling' = NoCall
  /\ outlived' = outlived \cup {o \in Callers : c \in outlived /\ Pid[o] = Pid[c] /\ cpc[o] # "unborn"}
  /\ UNCHANGED <<cpc, queue, result, waited, ticks, listens>>

ServerDies ==
  /\ server # "down" /\ server' = "down" /\ queue' = <<>> /\ calling' = NoCall
  /\ UNCHANGED <<cpc, names, result, outlived, waited, ticks, listens>>

(* STALE seconds pass.                                                     *)
Tick ==
  /\ ticks < MaxTicks /\ ticks' = ticks + 1
  /\ names' = [i \in Pids |-> IF names[i] = NoName THEN NoName ELSE [names[i] EXCEPT !.stale = TRUE]]
  /\ waited' = waited \cup {c \in Callers : cpc[c] \notin {"unborn", "unlink", "bind"}}
  /\ UNCHANGED <<cpc, server, queue, calling, result, outlived, listens>>

ConnNext ==
  \/ \E c \in Callers : \/ Start(c) \/ CliUnlink(c) \/ CliBind(c) \/ CliChmod(c) \/ CliConnect(c)
                        \/ CliEnds(c) \/ serv_accept(c) \/ ServUnlink(c)
  \/ serv_listen \/ Accept \/ ServerDies \/ Tick

ConnSpec == ConnInit /\ [][ConnNext]_connVars

-----------------------------------------------------------------------------
(* Properties                                                              *)

(* The server knows its callers: whom it accepts it takes for who it is,   *)
(* and it refuses only a name that is too old because the client or the    *)
(* server took STALE seconds - unless another process of the client's user *)
(* or of root has had its process id since, and so its name; a process of  *)
(* another user does no harm.  A bind fails only where a dead process of   *)
(* another user has left the name.                                         *)
CallerIdentified ==
  \A c \in Callers :
    /\ result[c] # "none" /\ c \notin outlived =>
         result[c] = Uid[c] \/ (result[c] = "too old" /\ c \in waited)
    /\ cpc[c] = "taken" =>
         \E o \in Callers : cpc[o] = "dead" /\ Pid[o] = Pid[c] /\ ~MayRemove(Uid[c], Uid[o])
=============================================================================
