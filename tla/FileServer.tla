------------------------------ MODULE FileServer ------------------------------
(* select.c: a TCP server that serves files to the clients it watches with *)
(* one set of descriptors.  Requests fit into buf.  A file or directory is *)
(* open while one command runs; if it takes the number of a connection     *)
(* that was closed, writing to it as to that connection fails all the same.*)
EXTENDS Naturals, Sequences, FiniteSets

CONSTANTS
  Guests,      \* clients, each connects once
  MaxSent      \* bound: how often clients send something

NoGuest == "closed"
ASSUME FileAssumption == IsFiniteSet(Guests) /\ Guests \cap {"listen", NoGuest} = {}

Listen == 3
Numbers == Listen .. Listen + Cardinality(Guests)
Pieces == {"-get", "-up", "-ls", "text"}

VARIABLES
  serving,      \* "scan", "-get", "-up", "-ls" while one is carried out, "dead"
  conns,        \* for each descriptor the client, "listen" or "closed"
  readfds, tmpfds,
  connfd,      \* the connection accepted last
  nread,       \* the last FIONREAD found something
  buf,         \* what buf starts with
  knocks,      \* clients in the order they connected, not yet accepted
  guest,       \* for each client "away", "in" or "left"
  sent,        \* what it sent and was not read
  pieces,      \* how often clients sent something
  received,         \* for whose requests it received something
  stored       \* <<whose upload, whose bytes>>

servVars == <<serving, conns, readfds, tmpfds, connfd, nread, buf>>
guestVars == <<knocks, guest, sent, pieces, received, stored>>
fileVars == <<serving, conns, readfds, tmpfds, connfd, nread, buf, knocks, guest, sent, pieces, received, stored>>

FileInit ==
  /\ serving = "scan" /\ conns = [f \in Numbers |-> IF f = Listen THEN "listen" ELSE NoGuest]
  /\ readfds = {Listen} /\ tmpfds = {} /\ connfd = 0 /\ nread = FALSE /\ buf = "text"
  /\ knocks = <<>> /\ guest = [g \in Guests |-> "away"] /\ sent = [g \in Guests |-> <<>>]
  /\ pieces = 0 /\ received = [g \in Guests |-> {}] /\ stored = {}

-----------------------------------------------------------------------------
(* Clients connect, send, and close when they like.                        *)
Connect(g) ==
  /\ guest[g] = "away" /\ guest' = [guest EXCEPT ![g] = "in"] /\ knocks' = Append(knocks, g)
  /\ UNCHANGED <<servVars, sent, pieces, received, stored>>
Known(g) == g \in {knocks[i] : i \in DOMAIN knocks} \/ g \in {conns[f] : f \in Numbers}
Send(g, what) ==
  /\ guest[g] = "in" /\ Known(g) /\ pieces < MaxSent
  /\ pieces' = pieces + 1 /\ sent' = [sent EXCEPT ![g] = Append(@, what)]
  /\ UNCHANGED <<servVars, knocks, guest, received, stored>>
Leave(g) ==
  /\ guest[g] = "in" /\ guest' = [guest EXCEPT ![g] = "left"]
  /\ UNCHANGED <<servVars, knocks, sent, pieces, received, stored>>

-----------------------------------------------------------------------------
Lowest(S) == CHOOSE f \in S : \A e \in S : f <= e
fd1 == Lowest(tmpfds)
Readable(f) ==
  IF f = Listen THEN knocks # <<>>
  ELSE conns[f] # NoGuest /\ (sent[conns[f]] # <<>> \/ guest[conns[f]] = "left")

(* select sleeps until something is readable, and fails when a descriptor  *)
(* of the set is not open.                                                 *)
select ==
  /\ serving = "scan" /\ tmpfds = {}
  /\ \A f \in readfds : conns[f] # NoGuest
  /\ \E f \in readfds : Readable(f)
  /\ tmpfds' = {f \in readfds : Readable(f)}
  /\ UNCHANGED <<serving, conns, readfds, connfd, nread, buf, guestVars>>
select_fails ==
  /\ serving = "scan" /\ tmpfds = {} /\ \E f \in readfds : conns[f] = NoGuest
  /\ serving' = "dead" /\ UNCHANGED <<conns, readfds, tmpfds, connfd, nread, buf, guestVars>>

accept ==
  /\ serving = "scan" /\ tmpfds # {} /\ fd1 = Listen
  /\ connfd' = Lowest({f \in Numbers : conns[f] = NoGuest})
  /\ conns' = [conns EXCEPT ![connfd'] = Head(knocks)] /\ knocks' = Tail(knocks)
  /\ readfds' = readfds \cup {connfd'} /\ tmpfds' = tmpfds \ {fd1}
  /\ UNCHANGED <<serving, nread, buf, guest, sent, pieces, received, stored>>

(* close of the descriptors in S, and FD_CLR of those in C.                *)
Drop(S, C) ==
  /\ conns' = [f \in Numbers |-> IF f \in S THEN NoGuest ELSE conns[f]]
  /\ readfds' = readfds \ C /\ tmpfds' = tmpfds \ {fd1} /\ serving' = "scan"

(* ioctl on a descriptor closed in the same pass leaves nread as it was.   *)
Length == IF conns[fd1] = NoGuest THEN nread ELSE sent[conns[fd1]] # <<>>
ioctl_nothing ==
  /\ serving = "scan" /\ tmpfds # {} /\ fd1 # Listen /\ ~Length
  /\ nread' = FALSE /\ Drop({fd1}, {fd1}) /\ UNCHANGED <<connfd, buf, guestVars>>
(* All that is there is one request; its first word counts.                *)
Obey(word) ==
  /\ buf' = word
  /\ IF word = "text" THEN tmpfds' = tmpfds \ {fd1} /\ UNCHANGED serving
     ELSE serving' = word /\ UNCHANGED tmpfds
read_request ==
  /\ serving = "scan" /\ tmpfds # {} /\ fd1 # Listen /\ conns[fd1] # NoGuest /\ Length
  /\ nread' = TRUE /\ Obey(Head(sent[conns[fd1]])) /\ sent' = [sent EXCEPT ![conns[fd1]] = <<>>]
  /\ UNCHANGED <<conns, readfds, connfd, knocks, guest, pieces, received, stored>>
(* read() of what is closed returns -1; buf holds the request before, and  *)
(* the 0 written at buf[-1] may do no harm or any.                         *)
read_closed ==
  /\ serving = "scan" /\ tmpfds # {} /\ fd1 # Listen /\ conns[fd1] = NoGuest /\ Length
  /\ \/ Obey(buf)
     \/ serving' = "dead" /\ UNCHANGED <<tmpfds, buf>>
  /\ UNCHANGED <<conns, readfds, connfd, nread, guestVars>>

(* What is written goes to the newest connection.  The client that has     *)
(* closed it may be reset, which raises SIGPIPE.                           *)
Newest == IF connfd \in Numbers THEN conns[connfd] ELSE NoGuest
write_connfd ==
  /\ serving \in {"-get", "-ls"} /\ Newest # NoGuest
  /\ \/ guest[Newest] = "in" /\ received' = [received EXCEPT ![Newest] = @ \cup {conns[fd1]}] /\ UNCHANGED serving
     \/ guest[Newest] = "left" /\ serving' = "dead" /\ UNCHANGED received
  /\ UNCHANGED <<conns, readfds, tmpfds, connfd, nread, buf, knocks, guest, sent, pieces, stored>>

(* Seeded bug: a download takes the newest connection out of the set.      *)
get_ends_newest ==
  /\ serving = "-get" /\ buf' = "text" /\ Drop({fd1}, {connfd}) /\ UNCHANGED <<connfd, nread, guestVars>>

get_ends ==
  /\ serving = "-get" /\ buf' = "text" /\ Drop({fd1}, {fd1}) /\ UNCHANGED <<connfd, nread, guestVars>>
(* The listing closes the newest connection too, and leaves it in the set. *)
ls_ends ==
  /\ serving = "-ls" /\ Drop({fd1, connfd}, {fd1}) /\ UNCHANGED <<connfd, nread, buf, guestVars>>
opendir_fails ==
  /\ serving = "-ls" /\ serving' = "dead"
  /\ UNCHANGED <<conns, readfds, tmpfds, connfd, nread, buf, guestVars>>

(* An upload is read from the newest connection, until its end.            *)
up_read ==
  /\ serving = "-up" /\ Newest # NoGuest /\ sent[Newest] # <<>>
  /\ sent' = [sent EXCEPT ![Newest] = Tail(@)] /\ stored' = stored \cup {<<conns[fd1], Newest>>}
  /\ UNCHANGED <<servVars, knocks, guest, pieces, received>>
up_ends ==
  /\ serving = "-up"
  /\ Newest # NoGuest => sent[Newest] = <<>> /\ guest[Newest] = "left"
  /\ buf' = "text" /\ Drop({fd1}, {fd1}) /\ UNCHANGED <<connfd, nread, guestVars>>

FileNext ==
  \/ \E g \in Guests : Connect(g) \/ Leave(g) \/ \E w \in Pieces : Send(g, w)
  \/ select \/ select_fails \/ accept \/ ioctl_nothing \/ read_request \/ read_closed
  \/ write_connfd \/ get_ends \/ ls_ends \/ opendir_fails \/ up_read \/ up_ends

ServerSpec == FileInit /\ [][FileNext]_fileVars

-----------------------------------------------------------------------------
(* The set that select is given and the open connections: a connection     *)
(* that is open is watched, and one that is watched is open unless it is   *)
(* the newest, which a listing for another client closes.                  *)
WatchedAreOpen ==
  /\ \A f \in Numbers : conns[f] # NoGuest => f \in readfds
  /\ \A f \in readfds : conns[f] = NoGuest => f = connfd

(* select.c:103 "the client downloads a file": what a client receives is   *)
(* what it asked for.                                                      *)
AskerServed == \A g \in Guests : received[g] \subseteq {g}
=============================================================================
