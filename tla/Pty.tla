--------------------------------- MODULE Pty ---------------------------------
(***************************************************************************)
(* The pty program (pty/main.c, and driver.c and loop.c, whose text is in  *)
(* pty/ourhdr.h): three processes around a pseudo terminal.  The parent    *)
(* copies the master to its standard output, the copier, forked in loop(), *)
(* copies the standard input to the master, and the program, forked in     *)
(* pty_fork() (lib.sun/ptyfork.c), runs on the slave.  Parent and copier   *)
(* end each other with SIGTERM.  The parent sets the user's terminal to    *)
(* raw mode and resets it at exit (lib.sun/ttymodes.c).                    *)
(***************************************************************************)
EXTENDS Integers, Sequences

(* A definition with a suffixed name (ReadEof_early) is a seeded bug: the  *)
(* definition after it as a programmer might have got it wrong.            *)

CONSTANTS
  Interactive, \* values of `interactive' (no -n, no -d, stdin is a terminal)
  IgnoreEof,   \* values of `ignoreeof' (-i)
  MaxIn,       \* bound: buffers of standard input
  MaxOut,      \* bound: buffers the program writes
  Cap          \* buffers that fit in the pty between copier and program

ASSUME PtyAssumption ==
  /\ Interactive \subseteq BOOLEAN /\ IgnoreEof \subseteq BOOLEAN
  /\ MaxIn \in Nat /\ MaxOut \in Nat /\ Cap \in Nat

VARIABLES
  interactive, ignoreeof,
  parent, copier, slave,  \* where each process is
  handled,   \* the parent has established sig_term
  sigcaught, \* set by sig_term
  pterm,     \* a SIGTERM is pending for the parent
  cterm,     \* a SIGTERM is pending for the copier
  tty,       \* the mode of the user's terminal
  ttystate,  \* what ttymodes.c has noted of it in the parent
  atexits,   \* tty_atexit is registered in the parent
  nread,     \* buffers the copier has read from standard input
  inbuf,     \* the buffer it holds, if any
  inq,       \* the buffers on their way from the master to the program
  input,     \* what the program has read
  nout,      \* buffers the program has written
  outq,      \* the buffers on their way to the master
  outbuf,    \* the buffer the parent holds, if any
  out        \* what has gone to standard output

options == <<interactive, ignoreeof>>
signals == <<handled, sigcaught, pterm, cterm>>
terminal == <<tty, ttystate, atexits>>
inward == <<nread, inbuf, inq, input>>
outward == <<nout, outq, outbuf, out>>
ptyVars == <<options, parent, copier, slave, signals, terminal, inward, outward>>

Gone == {"exited", "killed"}
(* The byte before the buffer (see WriteInterrupted).                      *)
Stray == 0
UpTo(n) == [i \in 1 .. n |-> i]

-----------------------------------------------------------------------------
(* main                                                                    *)

(* pty_fork has returned; tty_raw of the user's terminal, ...              *)
TtyRaw ==
  /\ parent = "start" /\ interactive
  /\ tty' = "raw" /\ ttystate' = "RAW"
  /\ parent' = "atexit"
  /\ UNCHANGED <<options, copier, slave, signals, atexits, inward, outward>>

(* ... to be reset on exit.                                                *)
AtExit ==
  /\ parent = "atexit"
  /\ atexits' = TRUE
  /\ parent' = "fork"
  /\ UNCHANGED <<options, copier, slave, signals, tty, ttystate, inward, outward>>

-----------------------------------------------------------------------------
(* loop                                                                    *)

LoopFork ==
  /\ \/ parent = "fork"
     \/ parent = "start" /\ ~interactive
  /\ copier' = "read"
  /\ parent' = "signal"
  /\ UNCHANGED <<options, slave, signals, terminal, inward, outward>>

(* The parent catches SIGTERM from here on, interrupting system calls.     *)
CatchSigterm ==
  /\ parent = "signal"
  /\ handled' = TRUE
  /\ parent' = "read"
  /\ UNCHANGED <<options, copier, slave, sigcaught, pterm, cterm, terminal, inward, outward>>

(* read() of the master returns a buffer, ...                              *)
ReadMaster ==
  /\ parent \in {"read", "asleep"} /\ outq # <<>>
  /\ outbuf' = <<Head(outq)>> /\ outq' = Tail(outq)
  /\ parent' = "write"
  /\ UNCHANGED <<options, copier, slave, signals, terminal, inward, nout, out>>

ReadEof_early ==
  /\ parent \in {"read", "asleep"} /\ slave = "exited"
  /\ parent' = "done"
  /\ UNCHANGED <<options, copier, slave, signals, terminal, inward, outward>>

(* ... or the end of file, once the program is gone, ...                   *)
ReadEof ==
  /\ parent \in {"read", "asleep"} /\ outq = <<>> /\ slave = "exited"
  /\ parent' = "done"
  /\ UNCHANGED <<options, copier, slave, signals, terminal, inward, outward>>

(* ... or goes to sleep.                                                   *)
ReadSleep ==
  /\ parent = "read" /\ outq = <<>> /\ slave # "exited"
  /\ parent' = "asleep"
  /\ UNCHANGED <<options, copier, slave, signals, terminal, inward, outward>>

(* writen() to standard output.                                            *)
WriteStdout ==
  /\ parent = "write"
  /\ out' = out \o outbuf /\ outbuf' = <<>>
  /\ parent' = "read"
  /\ UNCHANGED <<options, copier, slave, signals, terminal, inward, nout, outq>>

Stop_nokill ==
  /\ parent = "done"
  /\ cterm' = (cterm \/ sigcaught)
  /\ parent' = "exit"
  /\ UNCHANGED <<options, copier, slave, handled, sigcaught, pterm, terminal, inward, outward>>

(* Tell the copier if it did not send the signal; loop() returns.          *)
Stop ==
  /\ parent = "done"
  /\ cterm' = (cterm \/ ~sigcaught)
  /\ parent' = "exit"
  /\ UNCHANGED <<options, copier, slave, handled, sigcaught, pterm, terminal, inward, outward>>

(* exit(0) calls tty_atexit, which resets what tty_raw has changed.        *)
ParentExit ==
  /\ parent = "exit"
  /\ IF atexits /\ ttystate = "RAW"
     THEN tty' = "cooked" /\ ttystate' = "RESET"
     ELSE UNCHANGED <<tty, ttystate>>
  /\ parent' = "exited"
  /\ UNCHANGED <<options, copier, slave, signals, atexits, inward, outward>>

(* A SIGTERM reaches the parent: before there is a handler it is the end,  *)
(* after that it only interrupts a read() or write() that is asleep.       *)
ParentKilled ==
  /\ pterm /\ parent \notin Gone /\ ~handled
  /\ pterm' = FALSE /\ parent' = "killed"
  /\ UNCHANGED <<options, copier, slave, handled, sigcaught, cterm, terminal, inward, outward>>

sig_term ==
  /\ pterm /\ parent \notin Gone /\ handled
  /\ pterm' = FALSE /\ sigcaught' = TRUE
  /\ parent' = IF parent = "asleep" THEN "done" ELSE parent
  /\ UNCHANGED <<options, copier, slave, handled, cterm, terminal, inward, outward>>

(* A write() that is interrupted before it has written anything returns    *)
(* -1, which in the size_t of writen() is no error: the buffer grows by a  *)
(* byte at its front, and writen() goes on.                                *)
WriteInterrupted ==
  /\ pterm /\ parent = "write" /\ handled
  /\ pterm' = FALSE /\ sigcaught' = TRUE
  /\ outbuf' = <<Stray>> \o outbuf
  /\ UNCHANGED <<options, parent, copier, slave, handled, cterm, terminal, inward, nout,
                 outq, out>>

-----------------------------------------------------------------------------
(* The copier.                                                             *)
ReadStdin ==
  /\ copier = "read" /\ nread < MaxIn
  /\ nread' = nread + 1 /\ inbuf' = <<nread + 1>>
  /\ copier' = "write"
  /\ UNCHANGED <<options, parent, slave, signals, terminal, inq, input, outward>>

(* The end of the file; of a raw terminal, when its line is dropped.       *)
ReadStdinEof ==
  /\ copier = "read"
  /\ copier' = IF ignoreeof THEN "exit" ELSE "notify"
  /\ UNCHANGED <<options, parent, slave, signals, terminal, inward, outward>>

WriteMaster_again ==
  /\ copier = "write" /\ Len(inq) < Cap
  /\ inq' = inq \o inbuf /\ inbuf' = inbuf
  /\ copier' \in {"read", "write"}
  /\ UNCHANGED <<options, parent, slave, signals, terminal, nread, input, outward>>

(* writen() to the master sleeps while the program does not read.          *)
WriteMaster ==
  /\ copier = "write" /\ Len(inq) < Cap
  /\ inq' = inq \o inbuf /\ inbuf' = <<>>
  /\ copier' = "read"
  /\ UNCHANGED <<options, parent, slave, signals, terminal, nread, input, outward>>

(* Without a program write() fails, and writen() takes -1 for progress and *)
(* tries forever.                                                          *)
WriteFails ==
  /\ copier = "write" /\ slave = "exited"
  /\ copier' = "spin"
  /\ UNCHANGED <<options, parent, slave, signals, terminal, inward, outward>>

(* kill(getppid(), SIGTERM), which is process 1 once the parent is gone.   *)
Notify ==
  /\ copier = "notify"
  /\ pterm' = (pterm \/ parent \notin Gone)
  /\ copier' = "exit"
  /\ UNCHANGED <<options, parent, slave, handled, sigcaught, cterm, terminal, inward, outward>>

(* The copier's exit(0) calls tty_atexit too, with the ttystate of fork(). *)
CopierExit ==
  /\ copier = "exit"
  /\ tty' = IF atexits THEN "cooked" ELSE tty
  /\ copier' = "exited"
  /\ UNCHANGED <<options, parent, slave, signals, ttystate, atexits, inward, outward>>

CopierKilled ==
  /\ cterm /\ copier \notin Gone
  /\ cterm' = FALSE /\ copier' = "killed"
  /\ UNCHANGED <<options, parent, slave, handled, sigcaught, pterm, terminal, inward, outward>>

-----------------------------------------------------------------------------
(* The program.  pty_fork's child opens the slave and becomes the program  *)
(* or fails in exec and writes a message instead.                          *)
SlaveExec ==
  /\ slave = "forked" /\ slave' = "running"
  /\ UNCHANGED <<options, parent, copier, signals, terminal, inward, outward>>

Writes ==
  /\ nout < MaxOut
  /\ nout' = nout + 1 /\ outq' = Append(outq, nout + 1)
  /\ UNCHANGED <<options, parent, copier, signals, terminal, inward, outbuf, out>>

SlaveExecFails == slave = "forked" /\ slave' = "exited" /\ Writes

SlaveWrites == slave = "running" /\ slave' = slave /\ Writes

SlaveReads ==
  /\ slave = "running" /\ inq # <<>>
  /\ input' = Append(input, Head(inq)) /\ inq' = Tail(inq)
  /\ UNCHANGED <<options, parent, copier, slave, signals, terminal, nread, inbuf, outward>>

SlaveExits ==
  /\ slave = "running" /\ slave' = "exited"
  /\ UNCHANGED <<options, parent, copier, signals, terminal, inward, outward>>

-----------------------------------------------------------------------------
PtyInit ==
  /\ interactive \in Interactive /\ ignoreeof \in IgnoreEof
  /\ parent = "start" /\ copier = "none" /\ slave = "forked"
  /\ handled = FALSE /\ sigcaught = FALSE /\ pterm = FALSE /\ cterm = FALSE
  /\ tty = "cooked" /\ ttystate = "RESET" /\ atexits = FALSE
  /\ nread = 0 /\ inbuf = <<>> /\ inq = <<>> /\ input = <<>>
  /\ nout = 0 /\ outq = <<>> /\ outbuf = <<>> /\ out = <<>>

ParentStep ==
  \/ TtyRaw \/ AtExit \/ LoopFork \/ CatchSigterm
  \/ ReadMaster \/ ReadEof \/ ReadSleep \/ WriteStdout \/ Stop \/ ParentExit

Deliver == ParentKilled \/ sig_term \/ WriteInterrupted

Stdin == ReadStdin \/ ReadStdinEof

Copier == WriteMaster \/ WriteFails \/ Notify \/ CopierExit

Slave == SlaveExec \/ SlaveExecFails \/ SlaveWrites \/ SlaveReads \/ SlaveExits

PtyNext == ParentStep \/ Deliver \/ Stdin \/ Copier \/ CopierKilled \/ Slave

PtySpec == PtyInit /\ [][PtyNext]_ptyVars

-----------------------------------------------------------------------------
TypeOK ==
  /\ interactive \in BOOLEAN /\ ignoreeof \in BOOLEAN
  /\ parent \in {"start", "atexit", "fork", "signal", "read", "asleep", "write", "done",
                 "exit"} \cup Gone
  /\ copier \in {"none", "read", "write", "spin", "notify", "exit"} \cup Gone
  /\ slave \in {"forked", "running", "exited"}
  /\ handled \in BOOLEAN /\ sigcaught \in BOOLEAN /\ pterm \in BOOLEAN /\ cterm \in BOOLEAN
  /\ tty \in {"cooked", "raw"} /\ ttystate \in {"RESET", "RAW"} /\ atexits \in BOOLEAN
  /\ nread \in 0 .. MaxIn /\ nout \in 0 .. MaxOut
  /\ inbuf \in Seq(1 .. MaxIn) /\ inq \in Seq(1 .. MaxIn) /\ input \in Seq(1 .. MaxIn)
  /\ outq \in Seq(1 .. MaxOut)
  /\ outbuf \in Seq(0 .. MaxOut) /\ out \in Seq(0 .. MaxOut)

(* loop() copies standard input to the program: what has been read is with *)
(* the program, on its way or in the copier's hands, in order, once.       *)
InputCopied == input \o inq \o inbuf = UpTo(nread)

(* s without the stray bytes.                                              *)
Clean(s) ==
  LET clean[i \in 0 .. Len(s)] ==
        IF i = 0 THEN <<>>
        ELSE clean[i - 1] \o (IF s[i] = Stray THEN <<>> ELSE <<s[i]>>)
  IN  clean[Len(s)]

(* loop() copies the program's output, stray bytes apart, in order and     *)
(* once; a parent that ends by itself at the end of file has copied it all.*)
OutputCopied ==
  /\ Clean(out) \o Clean(outbuf) \o outq = UpTo(nout)
  /\ parent \in {"done", "exit", "exited"} /\ ~sigcaught => Clean(out) = UpTo(nout)

(* The comments at pty/ourhdr.h:121-123 and pty/main.c:86: when            *)
(* the program is gone the parent and the copier end, whichever way the    *)
(* signals cross, and the user's terminal is as it was.                    *)
AllEnd == (slave = "exited") ~>
  [](parent \in Gone /\ copier \in Gone /\ tty = "cooked")
=============================================================================
