-------------------------------- MODULE Popen --------------------------------
(* popen and pclose: one pipe and one child per stream.  The parent works  *)
(* with several streams and with system(); the commands are external: one  *)
(* that is written to may read up to the end of its input.                 *)
EXTENDS Integers

CONSTANT Kids  \* the children, in the order of their forks

VARIABLES
  kid,       \* "none", "forked", "runs", "exited", "reaped"
  type,      \* "r", "w", or "s" for system()'s child
  childpid,  \* the streams that are in childpid[] with a child
  inherited, \* childpid[] as the child has it
  holds,     \* who has an end of which pipe open: <<process, pipe, end>>
  waits      \* the child in the parent's waitpid, or 0; Killed by SIGPIPE

popenVars == <<kid, type, childpid, inherited, holds, waits>>

Parent == 0
Killed == -1
PipeEnds(p, k) == {<<p, k, "read">>, <<p, k, "write">>}
Mine(t) == IF t = "r" THEN "read" ELSE "write"       \* the parent's end
Of(p) == {h \in holds : h[1] = p}
Nobody(k, end) == ~\E p \in Kids \cup {Parent} : <<p, k, end>> \in holds

PopenInit ==
  /\ kid = [k \in Kids |-> "none"] /\ type = [k \in Kids |-> "none"]
  /\ childpid = {} /\ inherited = [k \in Kids |-> {}]
  /\ holds = {} /\ waits = Parent

Free(k) == waits = Parent /\ kid[k] = "none" /\ \A j \in Kids : j < k => kid[j] # "none"

(* A child has all that its parent has open.                               *)
Copies(k, open) == {<<k, h[2], h[3]>> : h \in open}

(* The pipe, the fork and what the parent does: it closes the child's end, *)
(* and enters the child unless fdopen fails.                               *)
popen(k, t) ==
  LET open == Of(Parent) \cup PipeEnds(Parent, k)
  IN  /\ Free(k)
      /\ kid' = [kid EXCEPT ![k] = "forked"] /\ type' = [type EXCEPT ![k] = t]
      /\ inherited' = [inherited EXCEPT ![k] = childpid]
      /\ holds' = (holds \cup Copies(k, open) \cup {<<Parent, k, Mine(t)>>})
      /\ childpid' \in {childpid, childpid \cup {k}}
      /\ UNCHANGED waits

(* When fork fails nobody closes the pipe.                                 *)
popen_fork_fails(k) ==
  /\ Free(k)
  /\ kid' = [kid EXCEPT ![k] = "reaped"] /\ holds' = holds \cup PipeEnds(Parent, k)
  /\ UNCHANGED <<type, childpid, inherited, waits>>

(* Seeded bug: the loop over childpid[] is left out.                       *)
Inherited_none(k) == {}

(* The child keeps its end and closes what it has of other streams.        *)
Inherited(k) == inherited[k]
popen_child(k) ==
  /\ kid[k] = "forked" /\ type[k] # "s"
  /\ kid' = [kid EXCEPT ![k] = "runs"]
  /\ holds' = holds \ ({<<k, k, Mine(type[k])>>} \cup UNION {PipeEnds(k, j) : j \in Inherited(k)})
  /\ UNCHANGED <<type, childpid, inherited, waits>>

(* system: the child closes nothing; the parent waits for it.              *)
system(k) ==
  /\ Free(k)
  /\ kid' = [kid EXCEPT ![k] = "runs"] /\ type' = [type EXCEPT ![k] = "s"]
  /\ holds' = holds \cup Copies(k, Of(Parent))
  /\ waits' = k
  /\ UNCHANGED <<childpid, inherited>>

(* pclose closes the stream and waits.  When what is left in the buffer    *)
(* cannot be written SIGPIPE ends the parent, or, if it is ignored, fclose *)
(* fails and the child is not waited for.                                  *)
pclose(k) ==
  /\ waits = Parent /\ k \in childpid
  /\ childpid' = childpid \ {k}
  /\ \/ waits' = k /\ holds' = holds \ {<<Parent, k, Mine(type[k])>>}
     \/ /\ type[k] = "w" /\ Nobody(k, "read")
        /\ \/ waits' = Killed /\ holds' = holds \ Of(Parent)
           \/ UNCHANGED waits /\ holds' = holds \ {<<Parent, k, "write">>}
  /\ UNCHANGED <<kid, type, inherited>>

waitpid ==
  /\ waits \in Kids /\ kid[waits] = "exited"
  /\ kid' = [kid EXCEPT ![waits] = "reaped"] /\ waits' = Parent
  /\ UNCHANGED <<type, childpid, inherited, holds>>

(* The command may end when it likes.  It must at the end of its input, or *)
(* when nobody reads what it writes.                                       *)
MustEnd(k) == type[k] # "s" => Nobody(k, Mine(type[k]))
CommandEnds(k) ==
  /\ kid[k] = "runs" /\ kid' = [kid EXCEPT ![k] = "exited"]
  /\ holds' = holds \ Of(k)
  /\ UNCHANGED <<type, childpid, inherited, waits>>

PopenNext ==
  \/ \E k \in Kids : \/ \E t \in {"r", "w"} : popen(k, t)
                     \/ popen_fork_fails(k) \/ popen_child(k) \/ system(k) \/ pclose(k)
                     \/ CommandEnds(k)
  \/ waitpid

(* pclose and system return: no other child keeps an end open of the pipe  *)
(* whose end the child waits for.                                          *)
PcloseEnds == waits \in Kids ~> waits \notin Kids
=============================================================================
