-------------------------------- MODULE Coproc --------------------------------
(* The programs that drive another over pipes: pipe2 a pager, pipe4 and    *)
(* spipe4 a coprocess that answers each line (over one stream pipe in      *)
(* spipe4).  The child is external: it may die at any time, and ends at    *)
(* the end of its input.                                                   *)
EXTENDS Naturals, Sequences

CONSTANT MaxCopied  \* bound: lines of input

VARIABLES
  prog,   \* which one: "pipe2", "pipe4" or "spipe4"
  parentAt,    \* parent: "pipe", "fork", "close", "input", "read", "wait", "done"
  childAt,    \* child: "none", "close", "runs", "done"
  lines,  \* lines of input left
  to,     \* lines in the pipe to the child
  from,   \* lines in the pipe to the parent
  open    \* who holds which end: <<process, pipe, end>>

coVars == <<prog, parentAt, childAt, lines, to, from, open>>

Answers == prog \in {"pipe4", "spipe4"}
Pipes == IF Answers THEN {"to", "from"} ELSE {"to"}
Held(p, pipe, end) == <<p, pipe, end>> \in open
Both == {"parent", "child"}

(* The pipes are made before the fork; after it both have everything.      *)
CoInit ==
  /\ prog = "none" /\ lines = 0 /\ parentAt = "pipe" /\ childAt = "none"
  /\ to = 0 /\ from = 0 /\ open = {}

CoStart ==
  /\ parentAt = "pipe" /\ parentAt' = "fork"
  /\ prog' \in {"pipe2", "pipe4", "spipe4"} /\ lines' \in 0 .. MaxCopied
  /\ open' = {"parent"} \X Pipes' \X {"read", "write"}
  /\ UNCHANGED <<childAt, to, from>>

Fork ==
  /\ parentAt = "fork" /\ parentAt' = "close" /\ childAt' = "close"
  /\ open' = Both \X Pipes \X {"read", "write"}
  /\ UNCHANGED <<prog, lines, to, from>>

(* Seeded bug: the parent keeps the descriptor the child answers on.       *)
pipe4_parent_keeps == {<<"parent", "to", "read">>}

(* fd1[0] and fd2[1] of pipe4, fd[1] of spipe4, which is both, and fd[0]   *)
(* of pipe2.                                                               *)
pipe4_parent == {<<"parent", "to", "read">>, <<"parent", "from", "write">>}
pipe4_child == {<<"child", "to", "write">>, <<"child", "from", "read">>}
spipe4_parent == {<<"parent", "to", "read">>, <<"parent", "from", "write">>}
spipe4_child == {<<"child", "to", "write">>, <<"child", "from", "read">>}
pipe2_parent == {<<"parent", "to", "read">>}
pipe2_child == {<<"child", "to", "write">>}

ParentCloses ==
  /\ parentAt = "close" /\ parentAt' = "input"
  /\ open' = open \ (CASE prog = "pipe4" -> pipe4_parent [] prog = "spipe4" -> spipe4_parent
                       [] prog = "pipe2" -> pipe2_parent)
  /\ UNCHANGED <<prog, childAt, lines, to, from>>

ChildCloses ==
  /\ childAt = "close" /\ childAt' = "runs"
  /\ open' = open \ (CASE prog = "pipe4" -> pipe4_child [] prog = "spipe4" -> spipe4_child
                       [] prog = "pipe2" -> pipe2_child)
  /\ UNCHANGED <<prog, parentAt, lines, to, from>>

Exit(p) == open' = open \ ({p} \X {"to", "from"} \X {"read", "write"})

(* A line is written to the child; nobody to read it is SIGPIPE, which     *)
(* ends the program with or without its handler.                           *)
ParentWrites ==
  /\ parentAt = "input" /\ lines > 0 /\ lines' = lines - 1
  /\ IF \E p \in Both : Held(p, "to", "read")
     THEN /\ to' = to + 1 /\ parentAt' = (IF Answers THEN "read" ELSE "input") /\ UNCHANGED open
     ELSE parentAt' = "done" /\ Exit("parent") /\ UNCHANGED to
  /\ UNCHANGED <<prog, childAt, from>>

(* One answer is taken; none, and nobody to give one, ends the loop.       *)
ParentReads ==
  /\ parentAt = "read"
  /\ \/ from > 0 /\ from' = 0 /\ parentAt' = "input" /\ UNCHANGED open
     \/ /\ from = 0 /\ ~\E p \in Both : Held(p, "from", "write")
        /\ parentAt' = "done" /\ Exit("parent") /\ UNCHANGED from
  /\ UNCHANGED <<prog, childAt, lines, to>>

(* End of input: pipe2 closes the pipe and waits, the others exit.         *)
ParentEnds ==
  /\ parentAt = "input" /\ lines = 0
  /\ IF Answers THEN parentAt' = "done" /\ Exit("parent")
     ELSE parentAt' = "wait" /\ open' = open \ {<<"parent", "to", "write">>}
  /\ UNCHANGED <<prog, childAt, lines, to, from>>

ParentWaited ==
  /\ parentAt = "wait" /\ childAt = "done" /\ parentAt' = "done" /\ Exit("parent")
  /\ UNCHANGED <<prog, childAt, lines, to, from>>

(* The child reads a line and answers it in one write; or it reads the end *)
(* of its input, or is ended by SIGPIPE or for reasons of its own.         *)
ChildAnswers ==
  /\ childAt = "runs" /\ to > 0 /\ to' = to - 1
  /\ from' = IF Answers THEN from + 1 ELSE from
  /\ UNCHANGED <<prog, parentAt, childAt, lines, open>>

ChildEnds ==
  /\ childAt \in {"close", "runs"} /\ childAt' = "done" /\ Exit("child")
  /\ UNCHANGED <<prog, parentAt, lines, to, from>>

ChildAtEof == childAt = "runs" /\ to = 0 /\ ~\E p \in Both : Held(p, "to", "write")

ParentGoes == ParentCloses \/ ParentWrites \/ ParentReads \/ ParentEnds \/ ParentWaited
ChildGoes == ChildCloses \/ ChildAnswers \/ (ChildAtEof /\ ChildEnds)
CoNext == CoStart \/ Fork \/ ParentGoes \/ ChildGoes \/ ChildEnds

(* Parent and child end, whether the input ends or the child dies: each    *)
(* notices the other's end.                                                *)
CoprocEnds == parentAt = "close" ~> parentAt = "done" /\ childAt = "done"
=============================================================================
