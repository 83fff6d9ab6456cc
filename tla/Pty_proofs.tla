------------------------------ MODULE Pty_proofs ------------------------------
(* Theorems about Pty: its types, and that what is read from standard      *)
(* input is copied to the program in order and once, for any number of     *)
(* buffers and any capacity of the pty.                                    *)
EXTENDS Pty, Lists_proofs, TLAPS

(* The copier has nothing in its hands when it reads: writen has written   *)
(* all of the last buffer.                                                 *)
EmptyHanded == copier \in {"none", "read"} => inbuf = <<>>

(* There is one copier, which loop() has forked and only then may end.     *)
OneCopier == parent \in {"start", "atexit", "fork"} => copier = "none" /\ ~cterm

InputInv == TypeOK /\ OneCopier /\ EmptyHanded /\ InputCopied

-----------------------------------------------------------------------------
LEMMA UpToNext ==
  ASSUME NEW n \in Nat
  PROVE  UpTo(n + 1) = UpTo(n) \o <<n + 1>>
<1>1. UpTo(n) \in Seq(Nat) /\ Len(UpTo(n)) = n
  BY DEF UpTo
<1>2. UpTo(n + 1) \in Seq(Nat) /\ Len(UpTo(n + 1)) = n + 1
  BY DEF UpTo
<1>3. UpTo(n) \o <<n + 1>> \in Seq(Nat) /\ Len(UpTo(n) \o <<n + 1>>) = n + 1
  BY <1>1
<1>4. ASSUME NEW i \in 1 .. n + 1
      PROVE  UpTo(n + 1)[i] = (UpTo(n) \o <<n + 1>>)[i]
  BY <1>1 DEF UpTo
<1>5. QED
  BY <1>2, <1>3, <1>4, SeqEqual

LEMMA ConcatNat ==
  ASSUME NEW a \in Seq(Nat), NEW b \in Seq(Nat), NEW c \in Seq(Nat)
  PROVE  a \o (b \o c) = a \o b \o c
BY SMTT(30)

(* Taking the head of what is under way and putting it at the end of what  *)
(* has arrived leaves the whole as it was.                                 *)
LEMMA HeadMoves ==
  ASSUME NEW a \in Seq(Nat), NEW b \in Seq(Nat), NEW c \in Seq(Nat), b # <<>>
  PROVE  Append(a, Head(b)) \o Tail(b) \o c = a \o b \o c
<1>1. b = <<Head(b)>> \o Tail(b) /\ Head(b) \in Nat /\ Tail(b) \in Seq(Nat)
  OBVIOUS
<1>2. Append(a, Head(b)) = a \o <<Head(b)>> /\ <<Head(b)>> \in Seq(Nat)
  BY <1>1
<1>3. a \o (<<Head(b)>> \o Tail(b)) = a \o <<Head(b)>> \o Tail(b)
  BY <1>1, <1>2, ConcatNat
<1>4. Append(a, Head(b)) \o Tail(b) = a \o b
  BY <1>1, <1>2, <1>3, Zenon
<1>5. QED
  BY <1>4

-----------------------------------------------------------------------------
(* Pty is well typed, for every bound and capacity.                        *)
LEMMA TypesHold == PtyInit => TypeOK
<1> SUFFICES ASSUME PtyInit PROVE TypeOK
  OBVIOUS
<1>1. interactive \in BOOLEAN /\ ignoreeof \in BOOLEAN
  BY PtyAssumption, Zenon DEF PtyInit
<1>2. nread \in 0 .. MaxIn /\ nout \in 0 .. MaxOut
  BY PtyAssumption DEF PtyInit
<1>3. /\ inbuf \in Seq(1 .. MaxIn) /\ inq \in Seq(1 .. MaxIn) /\ input \in Seq(1 .. MaxIn)
      /\ outq \in Seq(1 .. MaxOut) /\ outbuf \in Seq(0 .. MaxOut) /\ out \in Seq(0 .. MaxOut)
  BY EmptySeq DEF PtyInit
<1>4. /\ handled \in BOOLEAN /\ sigcaught \in BOOLEAN /\ pterm \in BOOLEAN
      /\ cterm \in BOOLEAN /\ atexits \in BOOLEAN
  BY DEF PtyInit
<1>5. /\ parent = "start" /\ copier = "none" /\ slave = "forked"
      /\ tty = "cooked" /\ ttystate = "RESET"
  BY DEF PtyInit
<1>6. QED
  BY <1>1, <1>2, <1>3, <1>4, <1>5 DEF TypeOK

LEMMA TypesKept == TypeOK /\ [PtyNext]_ptyVars => TypeOK'
<1> SUFFICES ASSUME TypeOK, [PtyNext]_ptyVars PROVE TypeOK'
  OBVIOUS
<1> USE PtyAssumption
<1>1. CASE TtyRaw BY <1>1 DEF TtyRaw, TypeOK, Gone, options, signals, inward, outward
<1>2. CASE AtExit BY <1>2 DEF AtExit, TypeOK, Gone, options, signals, inward, outward
<1>3. CASE LoopFork
  BY <1>3 DEF LoopFork, TypeOK, Gone, options, signals, terminal, inward, outward
<1>4. CASE CatchSigterm
  BY <1>4 DEF CatchSigterm, TypeOK, Gone, options, terminal, inward, outward
<1>5. CASE ReadMaster
  BY <1>5 DEF ReadMaster, TypeOK, Gone, options, signals, terminal, inward
<1>6. CASE ReadEof
  BY <1>6 DEF ReadEof, TypeOK, Gone, options, signals, terminal, inward, outward
<1>7. CASE ReadSleep
  BY <1>7 DEF ReadSleep, TypeOK, Gone, options, signals, terminal, inward, outward
<1>8. CASE WriteStdout
  BY <1>8 DEF WriteStdout, TypeOK, Gone, options, signals, terminal, inward
<1>9. CASE Stop BY <1>9 DEF Stop, TypeOK, Gone, options, terminal, inward, outward
<1>10. CASE ParentExit BY <1>10 DEF ParentExit, TypeOK, Gone, options, signals, inward, outward
<1>11. CASE ParentKilled
  <2>1. pterm' = FALSE /\ parent' = "killed"
    BY <1>11 DEF ParentKilled
  <2>2. UNCHANGED <<options, copier, slave, handled, sigcaught, cterm, terminal, inward,
                    outward>>
    BY <1>11 DEF ParentKilled
  <2>3. pterm' \in BOOLEAN /\ parent' \in Gone
    BY <2>1 DEF Gone
  <2>4. QED
    BY <2>2, <2>3 DEF TypeOK, options, terminal, inward, outward
<1>12. CASE sig_term
  <2>1. pterm' \in BOOLEAN /\ sigcaught' \in BOOLEAN
    BY <1>12 DEF sig_term
  <2>2. parent' \in {parent, "done"}
    BY <1>12 DEF sig_term
  <2>3. UNCHANGED <<options, copier, slave, handled, cterm, terminal, inward, outward>>
    BY <1>12 DEF sig_term
  <2>4. QED
    BY <2>1, <2>2, <2>3 DEF TypeOK, options, terminal, inward, outward
<1>13. CASE WriteInterrupted
  <2>t. MaxOut \in Nat /\ outbuf \in Seq(0 .. MaxOut)
    BY DEF TypeOK
  <2>0. Stray \in 0 .. MaxOut
    BY <2>t DEF Stray
  <2>1. <<Stray>> \o outbuf \in Seq(0 .. MaxOut)
    BY <2>t, <2>0
  <2>2. pterm' \in BOOLEAN /\ sigcaught' \in BOOLEAN /\ outbuf' \in Seq(0 .. MaxOut)
    BY <1>13, <2>1 DEF WriteInterrupted
  <2>3. UNCHANGED <<options, parent, copier, slave, handled, cterm, terminal, inward, nout,
                    outq, out>>
    BY <1>13 DEF WriteInterrupted
  <2>4. QED
    BY <2>2, <2>3 DEF TypeOK, options, terminal, inward
<1>14. CASE ReadStdin
  BY <1>14 DEF ReadStdin, TypeOK, Gone, options, signals, terminal, outward
<1>15. CASE ReadStdinEof
  BY <1>15 DEF ReadStdinEof, TypeOK, Gone, options, signals, terminal, inward, outward
<1>16. CASE WriteMaster
  BY <1>16 DEF WriteMaster, TypeOK, Gone, options, signals, terminal, outward
<1>17. CASE WriteFails
  BY <1>17 DEF WriteFails, TypeOK, Gone, options, signals, terminal, inward, outward
<1>18. CASE Notify BY <1>18 DEF Notify, TypeOK, Gone, options, terminal, inward, outward
<1>19. CASE CopierExit
  BY <1>19 DEF CopierExit, TypeOK, Gone, options, signals, inward, outward
<1>20. CASE CopierKilled
  <2>1. cterm' = FALSE /\ copier' = "killed"
    BY <1>20 DEF CopierKilled
  <2>2. UNCHANGED <<options, parent, slave, handled, sigcaught, pterm, terminal, inward,
                    outward>>
    BY <1>20 DEF CopierKilled
  <2>3. cterm' \in BOOLEAN /\ copier' \in Gone
    BY <2>1 DEF Gone
  <2>4. QED
    BY <2>2, <2>3, SMTT(30) DEF TypeOK, options, terminal, inward, outward
<1>21. CASE SlaveExec
  BY <1>21 DEF SlaveExec, TypeOK, Gone, options, signals, terminal, inward, outward
<1>22. CASE SlaveExecFails \/ SlaveWrites
  <2>0. /\ nout < MaxOut /\ nout' = nout + 1 /\ outq' = Append(outq, nout + 1)
        /\ outbuf' = outbuf /\ out' = out
    BY <1>22 DEF SlaveExecFails, SlaveWrites, Writes
  <2>4. nout \in Nat /\ nout + 1 \in 1 .. MaxOut /\ outq \in Seq(1 .. MaxOut)
    BY <2>0 DEF TypeOK
  <2>1. nout' \in 0 .. MaxOut /\ outq' \in Seq(1 .. MaxOut)
    BY <2>0, <2>4, AppendProperties
  <2>2. /\ slave' \in {"running", "exited"}
        /\ UNCHANGED <<options, parent, copier, signals, terminal, inward>>
    BY <1>22 DEF SlaveExecFails, SlaveWrites, Writes
  <2>3. QED
    BY <2>0, <2>1, <2>2 DEF TypeOK, Gone, options, signals, terminal, inward
<1>23. CASE SlaveReads
  BY <1>23 DEF SlaveReads, TypeOK, Gone, options, signals, terminal, outward
<1>24. CASE SlaveExits
  BY <1>24 DEF SlaveExits, TypeOK, Gone, options, signals, terminal, inward, outward
<1>25. CASE UNCHANGED ptyVars
  BY <1>25 DEF ptyVars, TypeOK, options, signals, terminal, inward, outward
<1>26. QED
  BY <1>1, <1>2, <1>3, <1>4, <1>5, <1>6, <1>7, <1>8, <1>9, <1>10, <1>11, <1>12, <1>13,
     <1>14, <1>15, <1>16, <1>17, <1>18, <1>19, <1>20, <1>21, <1>22, <1>23, <1>24, <1>25
     DEF PtyNext, ParentStep, Deliver, Stdin, Copier, Slave

-----------------------------------------------------------------------------
(* What the copier has read is with the program, under way or in its hands.*)
LEMMA InputStarts == PtyInit => EmptyHanded /\ InputCopied
<1> SUFFICES ASSUME PtyInit PROVE EmptyHanded /\ InputCopied
  OBVIOUS
<1>1. UpTo(0) = <<>>
  BY DEF UpTo
<1>2. QED
  BY <1>1 DEF PtyInit, EmptyHanded, InputCopied

(* A step that leaves the input alone and does not bring the copier to its *)
(* read() keeps both.                                                      *)
LEMMA InputAlone ==
  EmptyHanded /\ InputCopied /\ UNCHANGED inward
    /\ (copier' \in {"none", "read"} => copier \in {"none", "read"})
  => EmptyHanded' /\ InputCopied'
BY DEF EmptyHanded, InputCopied, UpTo, inward

LEMMA CopierKept == OneCopier /\ [PtyNext]_ptyVars => OneCopier'
<1> SUFFICES ASSUME OneCopier, [PtyNext]_ptyVars PROVE OneCopier'
  OBVIOUS
<1>1. CASE ParentStep
  BY <1>1
     DEF OneCopier, ParentStep, TtyRaw, AtExit, LoopFork, CatchSigterm, ReadMaster, ReadEof,
         ReadSleep, WriteStdout, Stop, ParentExit, signals
<1>2. CASE Deliver
  BY <1>2 DEF OneCopier, Deliver, ParentKilled, sig_term, WriteInterrupted
<1>3. CASE Stdin \/ Copier
  BY <1>3
     DEF OneCopier, Stdin, Copier, ReadStdin, ReadStdinEof, WriteMaster, WriteFails, Notify,
         CopierExit
<1>4. CASE CopierKilled
  BY <1>4 DEF OneCopier, CopierKilled, signals
<1>5. CASE Slave \/ UNCHANGED ptyVars
  BY <1>5
     DEF OneCopier, Slave, SlaveExec, SlaveExecFails, SlaveWrites, Writes, SlaveReads,
         SlaveExits, signals, ptyVars
<1>6. QED
  BY <1>1, <1>2, <1>3, <1>4, <1>5 DEF PtyNext

LEMMA InputKept == InputInv /\ [PtyNext]_ptyVars => EmptyHanded' /\ InputCopied'
<1> SUFFICES ASSUME InputInv, [PtyNext]_ptyVars PROVE EmptyHanded' /\ InputCopied'
  OBVIOUS
<1>t. /\ MaxIn \in Nat /\ nread \in 0 .. MaxIn
      /\ input \in Seq(Nat) /\ inq \in Seq(Nat) /\ inbuf \in Seq(Nat)
  BY PtyAssumption DEF InputInv, TypeOK
<1>i. OneCopier /\ EmptyHanded /\ InputCopied
  BY DEF InputInv
<1>1. CASE ParentStep
  BY <1>1, <1>i, InputAlone
     DEF OneCopier, ParentStep, TtyRaw, AtExit, LoopFork, CatchSigterm, ReadMaster, ReadEof, ReadSleep,
         WriteStdout, Stop, ParentExit
<1>2. CASE Deliver \/ CopierKilled
  BY <1>2, <1>i, InputAlone
     DEF Deliver, ParentKilled, sig_term, WriteInterrupted, CopierKilled, Gone
<1>3. CASE ReadStdin
  <2>0. inbuf = <<>> /\ input \o inq \o <<>> = input \o inq
    BY <1>3, <1>i, <1>t DEF ReadStdin, EmptyHanded
  <2>1. input \o inq = UpTo(nread)
    BY <2>0, <1>i DEF InputCopied
  <2>2. UpTo(nread + 1) = UpTo(nread) \o <<nread + 1>>
    BY <1>t, UpToNext
  <2>3. /\ nread' = nread + 1 /\ inbuf' = <<nread + 1>> /\ copier' = "write"
        /\ input' = input /\ inq' = inq
    BY <1>3 DEF ReadStdin
  <2>4. input' \o inq' \o inbuf' = UpTo(nread + 1)
    BY <2>1, <2>2, <2>3
  <2>5. UpTo(nread)' = UpTo(nread + 1)
    BY <2>3 DEF UpTo
  <2>6. QED
    BY <2>3, <2>4, <2>5 DEF EmptyHanded, InputCopied
<1>4. CASE WriteMaster
  <2>1. input \o (inq \o inbuf) = input \o inq \o inbuf
    BY <1>t, ConcatNat
  <2>2. input \o (inq \o inbuf) \o <<>> = input \o (inq \o inbuf)
    BY <1>t
  <2>3. /\ inq' = inq \o inbuf /\ inbuf' = <<>> /\ nread' = nread /\ input' = input
    BY <1>4 DEF WriteMaster
  <2>4. input' \o inq' \o inbuf' = input \o inq \o inbuf
    BY <2>1, <2>2, <2>3
  <2>5. UpTo(nread)' = UpTo(nread)
    BY <2>3 DEF UpTo
  <2>6. QED
    BY <1>i, <2>3, <2>4, <2>5 DEF EmptyHanded, InputCopied
<1>5. CASE ReadStdinEof \/ WriteFails \/ Notify \/ CopierExit
  BY <1>5, <1>i, InputAlone DEF ReadStdinEof, WriteFails, Notify, CopierExit
<1>6. CASE SlaveReads
  <2>1. input' \o inq' \o inbuf = input \o inq \o inbuf
    <3>1. inq # <<>>
      BY <1>6 DEF SlaveReads
    <3>2. Append(input, Head(inq)) \o Tail(inq) \o inbuf = input \o inq \o inbuf
      BY <1>t, <3>1, HeadMoves
    <3>3. QED
      BY <1>6, <3>2 DEF SlaveReads
  <2>2. nread' = nread /\ inbuf' = inbuf /\ copier' = copier
    BY <1>6 DEF SlaveReads
  <2>3. UpTo(nread)' = UpTo(nread)
    BY <2>2 DEF UpTo
  <2>4. QED
    BY <1>i, <2>1, <2>2, <2>3 DEF EmptyHanded, InputCopied
<1>7. CASE SlaveExec \/ SlaveExecFails \/ SlaveWrites \/ SlaveExits
  BY <1>7, <1>i, InputAlone DEF SlaveExec, SlaveExecFails, SlaveWrites, Writes, SlaveExits
<1>8. CASE UNCHANGED ptyVars
  BY <1>8, <1>i, InputAlone DEF ptyVars
<1>9. QED
  BY <1>1, <1>2, <1>3, <1>4, <1>5, <1>6, <1>7, <1>8 DEF PtyNext, Stdin, Copier, Slave

LEMMA InputInvariant == PtySpec => []InputInv
<1>1. PtyInit => InputInv
  BY TypesHold, InputStarts DEF InputInv, PtyInit, OneCopier
<1>2. InputInv /\ [PtyNext]_ptyVars => InputInv'
  BY TypesKept, CopierKept, InputKept DEF InputInv
<1>3. QED
  BY <1>1, <1>2, PTL DEF PtySpec

-----------------------------------------------------------------------------
(* Every reachable state of pty is well typed: buffers of standard input   *)
(* are whole and only output may have a stray byte.                        *)
THEOREM Typing == PtySpec => []TypeOK
<1>1. InputInv => TypeOK
  BY DEF InputInv
<1>2. QED
  BY <1>1, InputInvariant, PTL

(* loop() hands what it reads from standard input to the program in order  *)
(* and once, whatever signals arrive and whoever ends first.               *)
THEOREM InputInOrder == PtySpec => []InputCopied
<1>1. InputInv => InputCopied
  BY DEF InputInv
<1>2. QED
  BY <1>1, InputInvariant, PTL

-----------------------------------------------------------------------------
(* The stray bytes                                                         *)

Kept(b) == IF b = Stray THEN <<>> ELSE <<b>>

(* Clean keeps or drops one byte after the other.                          *)
CleanBy(f, s) ==
  /\ f[0] = <<>> /\ \A k \in 1 .. Len(s) : f[k] = f[k - 1] \o Kept(s[k])
  /\ \A k \in 0 .. Len(s) : f[k] \in Seq(Nat)
  /\ Clean(s) = f[Len(s)]

LEMMA CleanSteps ==
  ASSUME NEW s \in Seq(Nat)
  PROVE  \E f : CleanBy(f, s)
<1> DEFINE n == Len(s)  p == [k \in 1 .. n |-> Kept(s[k])]
           J == CHOOSE c : c = [i \in 0 .. n |-> IF i = 0 THEN <<>> ELSE c[i - 1] \o Kept(s[i])]
<1>0. n \in Nat /\ \A k \in 1 .. n : s[k] \in Nat
  OBVIOUS
<1>c. Clean(s) = J[n]
  BY DEF Clean, Kept
<1>1. PICK f : f = [k \in 0 .. n |-> IF k = 0 THEN <<>> ELSE f[k - 1] \o p[k]]
  <2> HIDE DEF p, n
  <2> QED
    BY <1>0, JoinExists
<1>2. \A k \in 0 .. n : k # 0 => p[k] = Kept(s[k])
  <2>1. \A k \in 0 .. n : k # 0 => k \in 1 .. n
    BY <1>0
  <2> QED
    BY <2>1
<1> HIDE DEF p, n
<1>3. f = [k \in 0 .. n |-> IF k = 0 THEN <<>> ELSE f[k - 1] \o Kept(s[k])]
  <2>1. [k \in 0 .. n |-> IF k = 0 THEN <<>> ELSE f[k - 1] \o p[k]]
        = [k \in 0 .. n |-> IF k = 0 THEN <<>> ELSE f[k - 1] \o Kept(s[k])]
    BY <1>2
  <2> QED
    BY <1>1, <2>1
<1>4. J = [i \in 0 .. n |-> IF i = 0 THEN <<>> ELSE J[i - 1] \o Kept(s[i])]
  BY <1>3
<1> HIDE DEF J
<1>5. 0 \in 0 .. n /\ \A k \in 1 .. n : k \in 0 .. n /\ k # 0
  BY <1>0
<1>6. J[0] = <<>> /\ \A k \in 1 .. n : J[k] = J[k - 1] \o Kept(s[k])
  BY <1>4, <1>5
<1>7. \A k \in 0 .. n : J[k] \in Seq(Nat)
  <2>1. ASSUME NEW k \in 1 .. n, J[k - 1] \in Seq(Nat) PROVE J[k] \in Seq(Nat)
    <3>1. Kept(s[k]) \in Seq(Nat)
      BY <1>0 DEF Kept
    <3>2. J[k - 1] \o Kept(s[k]) \in Seq(Nat)
      BY <2>1, <3>1, JoinIs
    <3>3. J[k] = J[k - 1] \o Kept(s[k])
      BY <1>6
    <3> QED
      BY <3>2, <3>3
  <2>2. J[0] \in Seq(Nat)
    BY <1>6
  <2> QED
    BY <1>0, <2>1, <2>2, JoinsType
<1> QED
  BY <1>6, <1>7, <1>c DEF CleanBy, n

LEMMA CleanType == ASSUME NEW s \in Seq(Nat) PROVE Clean(s) \in Seq(Nat)
<1>1. PICK f : CleanBy(f, s)
  BY CleanSteps
<1>2. Len(s) \in 0 .. Len(s)
  OBVIOUS
<1> QED
  BY <1>1, <1>2 DEF CleanBy

LEMMA CleanOne ==
  /\ Clean(<<>>) = <<>>
  /\ \A b \in Nat : Clean(<<b>>) = Kept(b)
<1>1. Clean(<<>>) = <<>>
  <2>0. <<>> \in Seq(Nat) /\ Len(<<>>) = 0
    OBVIOUS
  <2>1. PICK f : CleanBy(f, <<>>)
    BY <2>0, CleanSteps
  <2> QED
    BY <2>0, <2>1 DEF CleanBy
<1>2. ASSUME NEW b \in Nat PROVE Clean(<<b>>) = Kept(b)
  <2>0. <<b>> \in Seq(Nat)
    OBVIOUS
  <2>1. PICK f : CleanBy(f, <<b>>)
    BY <2>0, CleanSteps
  <2>2. Len(<<b>>) = 1 /\ <<b>>[1] = b /\ 1 \in 1 .. 1 /\ 1 - 1 = 0
    OBVIOUS
  <2>3. f[1] = f[0] \o Kept(b) /\ f[0] = <<>> /\ Clean(<<b>>) = f[1]
    BY <2>1, <2>2 DEF CleanBy
  <2>4. Kept(b) \in Seq(Nat)
    BY DEF Kept
  <2> QED
    BY <2>3, <2>4, JoinEmpty
<1> QED
  BY <1>1, <1>2

(* What is cleaned in two parts is cleaned as a whole.                     *)
LEMMA CleanJoin ==
  ASSUME NEW a \in Seq(Nat), NEW b \in Seq(Nat)
  PROVE  Clean(a \o b) = Clean(a) \o Clean(b)
<1> DEFINE m == Len(a)  n == Len(b)
<1>1. /\ m \in Nat /\ n \in Nat /\ a \o b \in Seq(Nat) /\ Len(a \o b) = m + n
      /\ \A i \in 1 .. m : (a \o b)[i] = a[i]
      /\ \A i \in 1 .. n : (a \o b)[m + i] = b[i]
  BY JoinIs
<1>2. PICK f : CleanBy(f, a)
  BY CleanSteps
<1>3. PICK g : CleanBy(g, b)
  BY CleanSteps
<1>4. PICK h : CleanBy(h, a \o b)
  BY <1>1, CleanSteps
<1> HIDE DEF m, n
<1>5. h[m] = f[m]
  <2>1. ASSUME NEW k \in 1 .. m, h[k - 1] = f[k - 1] PROVE h[k] = f[k]
    <3>1. k \in 1 .. m + n
      BY <1>1
    <3> QED
      BY <1>1, <1>2, <1>4, <2>1, <3>1 DEF CleanBy, m
  <2>2. h[0] = f[0]
    BY <1>2, <1>4 DEF CleanBy
  <2> QED
    BY <1>1, <2>1, <2>2, JoinsAgree
<1>6. Clean(a) = f[m] /\ Clean(b) = g[n] /\ Clean(a) \in Seq(Nat) /\ Clean(a \o b) = h[m + n]
  BY <1>1, <1>2, <1>3, <1>4, CleanType DEF CleanBy, m, n
<1>t. f[m] \in Seq(Nat)
  BY <1>6
<1> DEFINE F == [k \in 0 .. n |-> h[m + k]]  G == [k \in 0 .. n |-> f[m] \o g[k]]
<1>7. F[n] = G[n]
  <2>1. ASSUME NEW k \in 1 .. n, F[k - 1] = G[k - 1] PROVE F[k] = G[k]
    <3>1. k \in 0 .. n /\ k - 1 \in 0 .. n /\ m + k \in 1 .. m + n /\ m + (k - 1) = (m + k) - 1
      BY <1>1
    <3>2. F[k] = h[m + k] /\ G[k] = f[m] \o g[k] /\ h[(m + k) - 1] = f[m] \o g[k - 1]
      BY <2>1, <3>1
    <3> HIDE DEF F, G
    <3>3. h[m + k] = h[(m + k) - 1] \o Kept(b[k])
      BY <1>1, <1>4, <3>1 DEF CleanBy
    <3>4. g[k] = g[k - 1] \o Kept(b[k]) /\ g[k - 1] \in Seq(Nat)
      BY <1>3, <3>1 DEF CleanBy, n
    <3>5. b[k] \in Nat
      BY DEF n
    <3>6. Kept(b[k]) \in Seq(Nat)
      BY <3>5 DEF Kept
    <3>7. (f[m] \o g[k - 1]) \o Kept(b[k]) = f[m] \o (g[k - 1] \o Kept(b[k]))
      <4>1. g[k - 1] \in Seq(Nat)
        BY <3>4
      <4> QED
        BY <1>t, <3>6, <4>1, ConcatNat
    <3> QED
      BY <3>2, <3>3, <3>4, <3>7
  <2>2. F[0] = G[0]
    <3>1. 0 \in 0 .. n /\ m + 0 = m
      BY <1>1
    <3>2. F[0] = h[m] /\ G[0] = f[m] \o g[0]
      BY <3>1
    <3> HIDE DEF F, G
    <3>3. f[m] \o <<>> = f[m] /\ g[0] = <<>>
      BY <1>3, <1>6, JoinEmpty DEF CleanBy
    <3> QED
      BY <1>5, <3>2, <3>3
  <2> HIDE DEF F, G
  <2> QED
    BY <1>1, <2>1, <2>2, JoinsAgree
<1>8. F[n] = h[m + n] /\ G[n] = f[m] \o g[n]
  <2>1. n \in 0 .. n
    BY <1>1
  <2> QED
    BY <2>1
<1> QED
  BY <1>6, <1>7, <1>8

-----------------------------------------------------------------------------
(* The parent holds output only between its read() and its write(): the    *)
(* signal that interrupts the write() does not end it.                     *)
OutHeld == parent \notin {"write", "killed"} => outbuf = <<>>

(* What the program has written is on standard output, in the parent's     *)
(* hands or on its way.                                                    *)
OutKept == Clean(out) \o Clean(outbuf) \o outq = UpTo(nout)

(* A parent that has not been told to stop has seen the end of the file.   *)
OutEnded ==
  parent \in {"done", "exit", "exited"} /\ ~sigcaught => slave = "exited" /\ outq = <<>>

OutputInv == TypeOK /\ OutHeld /\ OutKept /\ OutEnded

LEMMA OutputRight == OutputInv => OutputCopied
<1> SUFFICES ASSUME OutputInv PROVE OutputCopied
  OBVIOUS
<1>1. out \in Seq(Nat)
  BY PtyAssumption DEF OutputInv, TypeOK
<1>2. ASSUME parent \in {"done", "exit", "exited"}, ~sigcaught PROVE Clean(out) = UpTo(nout)
  <2>1. outq = <<>> /\ outbuf = <<>> /\ Clean(out) \o Clean(outbuf) \o outq = UpTo(nout)
    BY <1>2 DEF OutputInv, OutHeld, OutKept, OutEnded
  <2>2. Clean(out) \o Clean(outbuf) \o outq = Clean(out)
    BY <1>1, <2>1, CleanOne, CleanType, JoinEmpty
  <2> QED
    BY <2>1, <2>2
<1> QED
  BY <1>2 DEF OutputInv, OutputCopied, OutKept

LEMMA OutputStarts == PtyInit => OutHeld /\ OutKept /\ OutEnded
<1> SUFFICES ASSUME PtyInit PROVE OutHeld /\ OutKept /\ OutEnded
  OBVIOUS
<1>1. outbuf = <<>> /\ outq = <<>> /\ out = <<>> /\ nout = 0 /\ parent = "start"
  BY DEF PtyInit
<1>2. UpTo(0) = <<>>
  BY DEF UpTo
<1>3. Clean(<<>>) \o Clean(<<>>) \o <<>> = <<>>
  BY CleanOne
<1> QED
  BY <1>1, <1>2, <1>3 DEF OutHeld, OutKept, OutEnded

(* A step that leaves the output alone and neither ends the parent's loop  *)
(* nor starts it anew.                                                     *)
LEMMA OutputAlone ==
  ASSUME OutputInv, UNCHANGED outward,
         parent' \notin {"write", "killed"} => outbuf = <<>>,
         parent' \in {"done", "exit", "exited"} /\ ~sigcaught'
           => slave' = "exited" /\ outq = <<>>
  PROVE  OutHeld' /\ OutKept' /\ OutEnded'
<1>1. outbuf' = outbuf /\ outq' = outq /\ out' = out /\ nout' = nout
  BY DEF outward
<1>2. OutKept'
  <2>1. Clean(out') \o Clean(outbuf') \o outq' = UpTo(nout')
    BY <1>1 DEF OutputInv, OutKept
  <2> QED
    BY <2>1 DEF OutKept, Clean, UpTo
<1> QED
  BY <1>1, <1>2 DEF OutHeld, OutEnded

LEMMA OutputKept == OutputInv /\ [PtyNext]_ptyVars => OutHeld' /\ OutKept' /\ OutEnded'
<1> SUFFICES ASSUME OutputInv, [PtyNext]_ptyVars PROVE OutHeld' /\ OutKept' /\ OutEnded'
  OBVIOUS
<1>t. /\ MaxOut \in Nat /\ nout \in Nat /\ out \in Seq(Nat) /\ outbuf \in Seq(Nat)
      /\ outq \in Seq(1 .. MaxOut) /\ outq \in Seq(Nat)
  BY PtyAssumption DEF OutputInv, TypeOK
<1>c. Clean(out) \in Seq(Nat) /\ Clean(outbuf) \in Seq(Nat)
  BY <1>t, CleanType
<1>i. OutHeld /\ OutKept /\ OutEnded
  BY DEF OutputInv
<1>1. CASE ReadMaster
  <2>1. /\ parent \in {"read", "asleep"} /\ outq # <<>> /\ outbuf' = <<Head(outq)>>
        /\ outq' = Tail(outq) /\ parent' = "write" /\ out' = out /\ nout' = nout
    BY <1>1 DEF ReadMaster
  <2>2. outbuf = <<>>
    BY <1>i, <2>1 DEF OutHeld
  <2>3. Head(outq) \in 1 .. MaxOut
    BY <1>t, <2>1
  <2>4. Clean(<<Head(outq)>>) = <<Head(outq)>>
    <3>1. Head(outq) \in Nat /\ Head(outq) # Stray
      BY <1>t, <2>3 DEF Stray
    <3> QED
      BY <3>1, CleanOne DEF Kept
  <2>5. Clean(out) \o <<Head(outq)>> \o Tail(outq) = Clean(out) \o <<>> \o outq
    <3>1. outq = <<Head(outq)>> \o Tail(outq) /\ <<Head(outq)>> \in Seq(Nat)
          /\ Tail(outq) \in Seq(Nat)
      BY <1>t, <2>1
    <3>2. Clean(out) \o (<<Head(outq)>> \o Tail(outq)) = Clean(out) \o <<Head(outq)>> \o Tail(outq)
      BY <1>c, <3>1, ConcatNat
    <3>3. Clean(out) \o <<>> = Clean(out)
      BY <1>c, JoinEmpty
    <3> QED
      BY <3>1, <3>2, <3>3, Zenon
  <2>6. Clean(out) \o <<>> \o outq = UpTo(nout)
    BY <1>i, <2>2, CleanOne DEF OutKept
  <2>7. OutKept'
    <3>1. Clean(out') \o Clean(outbuf') \o outq' = UpTo(nout')
      BY <2>1, <2>4, <2>5, <2>6
    <3> QED
      BY <3>1 DEF OutKept, Clean, UpTo
  <2> QED
    BY <2>1, <2>7 DEF OutHeld, OutEnded
<1>2. CASE WriteStdout
  <2>1. out' = out \o outbuf /\ outbuf' = <<>> /\ parent' = "read" /\ outq' = outq /\ nout' = nout
    BY <1>2 DEF WriteStdout
  <2>2. Clean(out \o outbuf) = Clean(out) \o Clean(outbuf) /\ Clean(<<>>) = <<>>
    BY <1>t, CleanJoin, CleanOne
  <2>3. Clean(out) \o Clean(outbuf) \o <<>> = Clean(out) \o Clean(outbuf)
    <3>1. Clean(out) \o Clean(outbuf) \in Seq(Nat)
      BY <1>c, JoinIs
    <3> QED
      BY <3>1, JoinEmpty
  <2>4. Clean(out') \o Clean(outbuf') \o outq' = UpTo(nout')
    BY <1>i, <2>1, <2>2, <2>3 DEF OutKept
  <2>5. OutKept'
    BY <2>4 DEF OutKept, Clean, UpTo
  <2> QED
    BY <2>1, <2>5 DEF OutHeld, OutEnded
<1>3. CASE WriteInterrupted
  <2>1. outbuf' = <<Stray>> \o outbuf /\ parent' = parent /\ parent = "write"
        /\ out' = out /\ outq' = outq /\ nout' = nout
    BY <1>3 DEF WriteInterrupted
  <2>2. Clean(<<Stray>> \o outbuf) = Clean(outbuf)
    <3>1. Stray \in Nat /\ <<Stray>> \in Seq(Nat)
      BY DEF Stray
    <3>2. Clean(<<Stray>>) = <<>>
      BY <3>1, CleanOne DEF Kept
    <3>3. Clean(<<Stray>> \o outbuf) = <<>> \o Clean(outbuf)
      BY <1>t, <3>1, <3>2, CleanJoin
    <3> QED
      BY <1>c, <3>3, JoinEmpty
  <2>3. Clean(out') \o Clean(outbuf') \o outq' = UpTo(nout')
    BY <1>i, <2>1, <2>2 DEF OutKept
  <2>4. OutKept'
    BY <2>3 DEF OutKept, Clean, UpTo
  <2> QED
    BY <2>1, <2>4 DEF OutHeld, OutEnded
<1>4. CASE SlaveExecFails \/ SlaveWrites
  <2>1. /\ nout' = nout + 1 /\ outq' = Append(outq, nout + 1) /\ slave # "exited"
        /\ outbuf' = outbuf /\ out' = out /\ parent' = parent /\ sigcaught' = sigcaught
    BY <1>4 DEF SlaveExecFails, SlaveWrites, Writes, signals
  <2>2. Append(outq, nout + 1) = outq \o <<nout + 1>> /\ <<nout + 1>> \in Seq(Nat)
    BY <1>t
  <2>3. UpTo(nout + 1) = UpTo(nout) \o <<nout + 1>>
    BY <1>t, UpToNext
  <2>4. Clean(out) \o Clean(outbuf) \o (outq \o <<nout + 1>>)
        = Clean(out) \o Clean(outbuf) \o outq \o <<nout + 1>>
    <3>1. Clean(out) \o Clean(outbuf) \in Seq(Nat)
      BY <1>c, JoinIs
    <3> QED
      BY <1>t, <2>2, <3>1, ConcatNat
  <2>5. Clean(out') \o Clean(outbuf') \o outq' = UpTo(nout')
    BY <1>i, <2>1, <2>2, <2>3, <2>4 DEF OutKept
  <2>6. OutKept'
    BY <2>5 DEF OutKept, Clean, UpTo
  <2> QED
    BY <1>i, <2>1, <2>6 DEF OutHeld, OutEnded
<1>5. CASE ReadEof
  BY <1>5, <1>i, OutputAlone DEF ReadEof, OutHeld
<1>6. CASE TtyRaw \/ AtExit \/ LoopFork \/ CatchSigterm \/ ReadSleep
  BY <1>6, <1>i, OutputAlone
     DEF TtyRaw, AtExit, LoopFork, CatchSigterm, ReadSleep, OutHeld
<1>7. CASE Stop \/ ParentExit
  BY <1>7, <1>i, OutputAlone DEF Stop, ParentExit, OutHeld, OutEnded, signals
<1>8. CASE ParentKilled
  BY <1>8, <1>i, OutputAlone DEF ParentKilled
<1>9. CASE sig_term
  BY <1>9, <1>i, OutputAlone DEF sig_term, OutHeld, Gone
<1>10. CASE Stdin \/ Copier \/ CopierKilled
  <2>1. UNCHANGED outward /\ parent' = parent /\ sigcaught' = sigcaught /\ slave' = slave
    BY <1>10 DEF Stdin, Copier, ReadStdin, ReadStdinEof, WriteMaster, WriteFails, Notify,
         CopierExit, CopierKilled, signals
  <2> QED
    BY <1>i, <2>1, OutputAlone DEF OutHeld, OutEnded
<1>11. CASE SlaveExec \/ SlaveReads \/ SlaveExits
  <2>1. /\ UNCHANGED outward /\ parent' = parent /\ sigcaught' = sigcaught
        /\ slave = "exited" => slave' = "exited"
    BY <1>11 DEF SlaveExec, SlaveReads, SlaveExits, signals
  <2> QED
    BY <1>i, <2>1, OutputAlone DEF OutHeld, OutEnded
<1>12. CASE UNCHANGED ptyVars
  BY <1>12, <1>i, OutputAlone DEF ptyVars, OutHeld, OutEnded, signals
<1> QED
  BY <1>1, <1>2, <1>3, <1>4, <1>5, <1>6, <1>7, <1>8, <1>9, <1>10, <1>11, <1>12
     DEF PtyNext, ParentStep, Deliver, Slave

(* loop() copies the program's output in order and once, whatever signals  *)
(* interrupt it: apart from the stray bytes of an interrupted writen()     *)
(* nothing is added, and a parent that ends by itself has copied it all.   *)
THEOREM OutputInOrder == PtySpec => []OutputCopied
<1>1. PtyInit => OutputInv
  BY TypesHold, OutputStarts DEF OutputInv
<1>2. OutputInv /\ [PtyNext]_ptyVars => OutputInv'
  BY TypesKept, OutputKept DEF OutputInv
<1> QED
  BY <1>1, <1>2, OutputRight, PTL DEF PtySpec
=============================================================================
