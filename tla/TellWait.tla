------------------------------- MODULE TellWait -------------------------------
(* Parent and child that take turns over the two pipes of TELL_WAIT, in    *)
(* the programs that do so: tellwait2, devzero and deadlock.  A program is *)
(* what each of the two does, one operation after the other.               *)
EXTENDS Naturals, Sequences

CONSTANT Loops  \* half of devzero's NLOOPS
ASSUME TellAssumption == Loops \in Nat

VARIABLES
  program,  \* "tellwait2", "devzero" or "deadlock"
  todo,     \* what each process has still to do
  told,     \* bytes in the pipe to each
  output,   \* who wrote to standard output
  area,     \* devzero's shared counter
  reg,      \* what each has loaded from it
  got,      \* history: what update() returned, with its caller
  locks     \* who has the write lock of which byte

tellVars == <<program, todo, told, output, area, reg, got, locks>>

Pair == {"parent", "child"}
Other(p) == IF p = "parent" THEN "child" ELSE "parent"

(* Seeded bug: the parent tells the child before its own output is         *)
(* complete.                                                               *)
tellwait2_early(p) == IF p = "child" THEN <<"wait", "putc", "putc">> ELSE <<"putc", "tell", "putc">>

(* Unbuffered output is one write for each character.                      *)
tellwait2(p) == IF p = "child" THEN <<"wait", "putc", "putc">> ELSE <<"putc", "putc", "tell">>

(* The loops of devzero, Loops times each.                                 *)
devzero(p) ==
  LET loop == IF p = "child" THEN <<"wait", "load", "store", "tell">> ELSE <<"load", "store", "tell", "wait">>
  IN  [k \in 1 .. 4 * Loops |-> loop[((k - 1) % 4) + 1]]

deadlock(p) ==
  IF p = "child" THEN <<"lock0", "tell", "wait", "lock1">> ELSE <<"lock1", "tell", "wait", "lock0">>

Program(name, p) ==
  CASE name = "tellwait2" -> tellwait2(p) [] name = "devzero" -> devzero(p)
    [] name = "deadlock" -> deadlock(p)

TellInit ==
  /\ program = "none" /\ todo = [p \in Pair |-> <<>>]
  /\ told = [p \in Pair |-> 0] /\ output = <<>> /\ area = 0 /\ reg = [p \in Pair |-> 0]
  /\ got = <<>> /\ locks = {}

(* The pipes, and the fork after them.                                     *)
TELL_WAIT ==
  /\ program = "none" /\ program' \in {"tellwait2", "devzero", "deadlock"}
  /\ todo' = [p \in Pair |-> Program(program', p)]
  /\ UNCHANGED <<told, output, area, reg, got, locks>>

Does(p, op) == todo[p] # <<>> /\ Head(todo[p]) = op
Done(p) == todo' = [todo EXCEPT ![p] = Tail(@)]

(* TELL_CHILD and TELL_PARENT: a byte into the other's pipe.               *)
TELL(p) ==
  /\ Does(p, "tell") /\ Done(p)
  /\ told' = [told EXCEPT ![Other(p)] = @ + 1]
  /\ UNCHANGED <<program, output, area, reg, got, locks>>

(* WAIT_PARENT and WAIT_CHILD.  Both processes hold both ends of both      *)
(* pipes: there is never an end of file.                                   *)
WAIT(p) ==
  /\ Does(p, "wait") /\ told[p] > 0 /\ Done(p)
  /\ told' = [told EXCEPT ![p] = @ - 1]
  /\ UNCHANGED <<program, output, area, reg, got, locks>>

putc(p) ==
  /\ Does(p, "putc") /\ Done(p) /\ output' = Append(output, p)
  /\ UNCHANGED <<program, told, area, reg, got, locks>>

(* update() is a load and a store.                                         *)
load(p) ==
  /\ Does(p, "load") /\ Done(p) /\ reg' = [reg EXCEPT ![p] = area]
  /\ UNCHANGED <<program, told, output, area, got, locks>>
store(p) ==
  /\ Does(p, "store") /\ Done(p)
  /\ area' = reg[p] + 1 /\ got' = Append(got, <<p, reg[p]>>)
  /\ UNCHANGED <<program, told, output, reg, locks>>

(* writew_lock waits for the other's lock, unless the other waits for it:  *)
(* then one of them gets EDEADLK and exits, and with it go its locks.      *)
Byte(op) == IF op = "lock0" THEN 0 ELSE 1
Wants(p, b) == todo[p] # <<>> /\ Head(todo[p]) \in {"lock0", "lock1"} /\ Byte(Head(todo[p])) = b
Taken(p, b) == <<Other(p), b>> \in locks
lockabyte(p) ==
  \E b \in {0, 1} :
    /\ Wants(p, b) /\ ~Taken(p, b) /\ Done(p)
    /\ locks' = locks \cup {<<p, b>>}
    /\ UNCHANGED <<program, told, output, area, reg, got>>
lockabyte_fails(p) ==
  \E b \in {0, 1} :
    /\ Wants(p, b) /\ Taken(p, b) /\ Wants(Other(p), 1 - b) /\ Taken(Other(p), 1 - b)
    /\ todo' = [todo EXCEPT ![p] = <<>>] /\ locks' = {l \in locks : l[1] # p}
    /\ UNCHANGED <<program, told, output, area, reg, got>>
exit(p) ==
  /\ todo[p] = <<>> /\ \E l \in locks : l[1] = p
  /\ locks' = {l \in locks : l[1] # p}
  /\ UNCHANGED <<program, todo, told, output, area, reg, got>>

TellNext ==
  \/ TELL_WAIT
  \/ \E p \in Pair : \/ TELL(p) \/ WAIT(p) \/ putc(p) \/ load(p) \/ store(p)
                     \/ lockabyte(p) \/ lockabyte_fails(p) \/ exit(p)
TellSpec == TellInit /\ [][TellNext]_tellVars

(* "parent goes first": the child's output follows the parent's, not mixed *)
(* with it.  The updates of devzero alternate and count: none is lost.     *)
(* And the pipes are empty when both have ended.                           *)
TakeTurns ==
  /\ program = "tellwait2" =>
       \A i, j \in DOMAIN output : output[i] = "parent" /\ output[j] = "child" => i < j
  /\ \A i \in DOMAIN got : got[i] = <<(IF (i % 2) = 1 THEN "parent" ELSE "child"), i - 1>>
  /\ (\A p \in Pair : todo[p] = <<>>) => \A p \in Pair : told[p] = 0
=============================================================================
