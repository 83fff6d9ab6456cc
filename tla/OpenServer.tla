------------------------------ MODULE OpenServer ------------------------------
(***************************************************************************)
(* The open server's client (open/main.c, csopen), the answer's protocol   *)
(* (send_fd, send_err, recv_fd) and the server's loop (opend.fe).  A       *)
(* message is as many bytes as it is long, each with the number of the     *)
(* line it answers; the stream joins what is written and splits it at      *)
(* MAXLINE.  A client that cannot write a message to standard error leaves *)
(* the rest of the answer where it is and goes on.  What the server does   *)
(* between reading a request and answering (request()) is not in the       *)
(* repository.                                                             *)
(***************************************************************************)
EXTENDS Integers, Sequences

CONSTANTS
  MAXLINE, MAXARGC, \* bounds: shorter than the program's
  NWords,           \* words in a line that is typed
  MsgLens,          \* lengths of error messages
  MaxLines

ASSUME OpenAssumption ==
  MAXLINE \in Nat /\ MAXLINE >= 2 /\ MsgLens \subseteq Nat /\ MaxLines \in Nat

VARIABLES
  client, line, \* the client and the number of its line
  csfd,      \* connected
  newfd,     \* the line whose descriptor recv_fd returned, or 0
  shown,     \* what recv_fd has written to standard error
  requests,  \* from client to server: lines and the words in them
  opend,     \* the server
  reqline,   \* the line it answers
  unsent,    \* what send_err has still to write
  stream,    \* from server to client
  failed,    \* the messages sent: <<line, length>> (history)
  lost, cut  \* recv_fd could not write a message, or not before its end (history)

talk == <<lost, cut>>
openVars == <<client, line, csfd, newfd, shown, requests, opend, reqline, unsent, stream, failed, talk>>

Msg(n) == [i \in 1 .. n |-> <<"byte", reqline>>]
Null == <<"null">>
Final(status) == <<Null, <<"status", status>>>>
Rights == <<Null, <<"fd", reqline>>>>
Shorter(a, b) == IF a < b THEN a ELSE b

OpenInit ==
  /\ client = "line" /\ line = 0 /\ csfd = FALSE /\ newfd = 0 /\ shown = <<>>
  /\ requests = <<>> /\ opend = "read" /\ reqline = 0 /\ unsent = <<>> /\ stream = <<>>
  /\ failed = <<>> /\ lost = FALSE /\ cut = FALSE

-----------------------------------------------------------------------------
(* The client                                                              *)

(* The first csopen connects.  A request to a server that has gone raises  *)
(* SIGPIPE, since csfd stays what it was.                                  *)
csopen ==
  /\ client = "line" /\ line < MaxLines /\ line' = line + 1 /\ newfd' = 0
  /\ IF csfd /\ opend = "gone" THEN client' = "killed" /\ UNCHANGED <<csfd, requests>>
     ELSE IF opend = "gone" THEN client' = "exit" /\ UNCHANGED <<csfd, requests>>
     ELSE /\ csfd' = TRUE /\ client' = "recv"
          /\ \E words \in NWords : requests' = Append(requests, <<line', words>>)
  /\ UNCHANGED <<shown, opend, reqline, unsent, stream, failed, talk>>

EndOfInput ==
  /\ client = "line" /\ client' = "exit"
  /\ opend' = (IF csfd THEN "gone" ELSE opend)
  /\ UNCHANGED <<line, csfd, newfd, shown, requests, reqline, unsent, stream, failed, talk>>

(* recv_fd: one recvmsg, which takes what is there up to MAXLINE bytes.    *)
Batch == SubSeq(stream, 1, Shorter(MAXLINE, Len(stream)))
Nulls(b) == {i \in DOMAIN b : b[i] = Null}
Misplaced(b) == Nulls(b) \ {Len(b) - 1} # {}
Message(b) == IF Nulls(b) = {} THEN b ELSE SubSeq(b, 1, Len(b) - 2)

Dump(b) == Misplaced(b) /\ client' = "dumped" /\ UNCHANGED <<newfd, shown, talk>>

Shows(b) ==
  LET last == b[Len(b)]
  IN  /\ ~Misplaced(b)
      /\ shown' = shown \o Message(b)
      /\ client' = IF Nulls(b) = {} THEN "recv" ELSE IF last[1] = "fd" THEN "cat" ELSE "line"
      /\ newfd' = IF last[1] = "fd" THEN last[2] ELSE 0
      /\ UNCHANGED talk

(* Standard error takes nothing, or not all: -1 is returned at once.       *)
ShowFails(b) ==
  /\ ~Misplaced(b)
  /\ \E n \in 0 .. Len(Message(b)) - 1 : shown' = shown \o SubSeq(Message(b), 1, n)
  /\ client' = "line" /\ newfd' = 0
  /\ lost' = TRUE /\ cut' = (cut \/ Nulls(b) = {})

recv_fd ==
  /\ client = "recv" /\ stream # <<>>
  /\ stream' = SubSeq(stream, Len(Batch) + 1, Len(stream))
  /\ Dump(Batch) \/ Shows(Batch) \/ ShowFails(Batch)
  /\ UNCHANGED <<line, csfd, requests, opend, reqline, unsent, failed>>

ServerClosed ==
  /\ client = "recv" /\ stream = <<>> /\ opend = "gone" /\ client' = "line"
  /\ UNCHANGED <<line, csfd, newfd, shown, requests, opend, reqline, unsent, stream, failed, talk>>

(* read and write, to the end of the file                                  *)
Cat ==
  /\ client = "cat" /\ client' = "line"
  /\ UNCHANGED <<line, csfd, newfd, shown, requests, opend, reqline, unsent, stream, failed, talk>>

-----------------------------------------------------------------------------
(* The server                                                              *)

(* Words of the buffer: "open", those of the line and the flag.            *)
buf_args(words) == words + 2 < MAXARGC
cli_args(words) == words + 2 = 3

(* A read takes all the requests that are there, or those that fit; the    *)
(* null behind the first hides the others.  Without three words, or when   *)
(* open() fails, an error goes back.  A buffer with too many words never   *)
(* gets to cli_args.                                                       *)
Request ==
  /\ opend = "read" /\ requests # <<>> /\ reqline' = Head(requests)[1]
  /\ \E n \in 1 .. Len(requests) : requests' = SubSeq(requests, n + 1, Len(requests))
  /\ LET words == Head(requests)[2]
     IN  \/ buf_args(words) /\ cli_args(words) /\ opend' = "send_fd" /\ UNCHANGED <<unsent, failed>>
         \/ \E n \in MsgLens :
              opend' = "send_err" /\ unsent' = Msg(n)' /\ failed' = Append(failed, <<reqline', n>>)
  /\ UNCHANGED <<client, line, csfd, newfd, shown, stream, talk>>

send_fd ==
  /\ opend = "send_fd" /\ stream' = stream \o Rights /\ opend' = "read"
  /\ UNCHANGED <<client, line, csfd, newfd, shown, requests, reqline, unsent, failed, talk>>

(* writen may need several writes.                                         *)
SendMessage ==
  /\ opend = "send_err" /\ unsent # <<>>
  /\ \E n \in 1 .. Len(unsent) :
       stream' = stream \o SubSeq(unsent, 1, n) /\ unsent' = SubSeq(unsent, n + 1, Len(unsent))
  /\ UNCHANGED <<client, line, csfd, newfd, shown, requests, opend, reqline, failed, talk>>

(* Seeded bug: the status goes before the rest of the message.             *)
send_err_first ==
  /\ opend = "send_err"
  /\ stream' = (stream \o Final(1)) \o unsent /\ opend' = "read" /\ unsent' = <<>>
  /\ UNCHANGED <<client, line, csfd, newfd, shown, requests, reqline, failed, talk>>

send_err ==
  /\ opend = "send_err" /\ unsent = <<>>
  /\ stream' = stream \o Final(1) /\ opend' = "read"
  /\ UNCHANGED <<client, line, csfd, newfd, shown, requests, reqline, unsent, failed, talk>>

OpendDies ==
  /\ opend # "gone" /\ opend' = "gone" /\ unsent' = <<>>
  /\ UNCHANGED <<client, line, csfd, newfd, shown, requests, reqline, stream, failed, talk>>

OpenNext ==
  \/ csopen \/ EndOfInput \/ recv_fd \/ ServerClosed \/ Cat
  \/ Request \/ send_fd \/ SendMessage \/ send_err \/ OpendDies

OpenSpec == OpenInit /\ [][OpenNext]_openVars

-----------------------------------------------------------------------------
(* Properties                                                              *)

Bytes(n) == LET f == failed[n] IN [i \in 1 .. f[2] |-> <<"byte", f[1]>>]
Told[n \in 0 .. MaxLines] == IF n = 0 THEN <<>> ELSE Told[n - 1] \o (IF n <= Len(failed) THEN Bytes(n) ELSE <<>>)

(* recv_fd meets the null where it looks for it, unless a message is long  *)
(* enough to fill its buffer but for one byte.                             *)
NullInPlace ==
  client = "dumped" => failed # <<>> /\ failed[Len(failed)][2] >= MAXLINE - 1

(* Requests and answers stay in step, however the stream joins and splits  *)
(* what is written, as long as recv_fd reads every answer to its end: the  *)
(* descriptor a line gets is its own, when the client goes on nothing is   *)
(* left of the answer, and unless standard error refused some of it every  *)
(* message so far is there, whole, in order and nothing else.  (When the   *)
(* server dies, the rest does not come.)                                   *)
AnswersInStep ==
  ~cut =>
    /\ client = "cat" => newfd = line
    /\ client \in {"line", "cat"} /\ opend # "gone" =>
         requests = <<>> /\ stream = <<>> /\ (~lost => shown = Told[Len(failed)])
    /\ NullInPlace

(* open.c:4 "Open the file by sending the "name" and "oflag" to the        *)
(* connection server and reading a file descriptor back": that of the file *)
(* asked for (csopen).                                                     *)
OwnDescriptor == client = "cat" => newfd = line
=============================================================================
