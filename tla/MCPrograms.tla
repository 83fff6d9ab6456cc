------------------------------ MODULE MCPrograms ------------------------------
(* Programs for TLC that are asked what is never wrong: connections, the   *)
(* open server, the beeper, and those of which one small instance is       *)
(* enough.  They share nothing: a behaviour is one of one of them, the     *)
(* others stay as they start.  Nothing need go on.                         *)
EXTENDS UnixConn, OpenServer, Beeper, TellWait, Dialer, Product, AtExit, FileServer, TLC
CONSTANTS c1, c2, c3, c4, ann, bob, player, band
CONSTANT MaxOpen  \* bound: programs that use the beeper at a time
VARIABLE running

(* A process id is used again by another user and by the same.             *)
ThePid == (c1 :> 1) @@ (c2 :> 1) @@ (c3 :> 1) @@ (c4 :> 2)
TheUid == (c1 :> "ann") @@ (c2 :> "bob") @@ (c3 :> "ann") @@ (c4 :> "bob")

Chat(said) == <<[kind |-> "comment"], [kind |-> "dialer", dialer |-> "hayes", expsend |-> said]>>
TheFiles ==
  { Chat(<< <<"a", "a", "b">>, <<"\\E", "a", "\\e", "\\d", "\\T", "\\c">> >>),
    Chat(<< <<"\"\"">>, <<"\\p", "\\c", "\\s">>, <<"a", "b", "a">> >>),
    Chat(<< <<"a", "\\r">>, <<"a">>, <<"b", "\\?">> >>), Chat(<< <<"b">>, <<"b", "\\">> >>),
    Chat(<< <<"b">>, <<"\\?">>, <<"b">> >>),
    << [kind |-> "empty"], [kind |-> "dialer", dialer |-> "other", expsend |-> <<>>] >>,
    << [kind |-> "blank"] >> }
ThePhone == <<"1", "\\T">>

others(v) == UNCHANGED running /\ running = v
servers == <<connVars, openVars, fileVars>>
alone == <<tellVars, dialVars, prodVars, exitVars>>
programs == <<servers, alone, beepVars, running>>

Init ==
  /\ ConnInit /\ OpenInit /\ BeepInit /\ TellInit /\ DialInit /\ ProdInit /\ ExitInit /\ FileInit
  /\ running \in {"conn", "open", "beeper", "tell", "dial", "product", "exit", "files"}

ConnStep == others("conn") /\ ConnNext /\ UNCHANGED <<openVars, fileVars, alone, beepVars>>
OpenStep == others("open") /\ OpenNext /\ UNCHANGED <<connVars, fileVars, alone, beepVars>>
FileStep == others("files") /\ FileNext /\ UNCHANGED <<connVars, openVars, alone, beepVars>>
BeepStep ==
  /\ others("beeper") /\ BeepNext /\ UNCHANGED <<servers, alone>>
  /\ Cardinality({p \in Programs : file'[p] # Nobody}) <= MaxOpen
TellStep == others("tell") /\ TellNext /\ UNCHANGED <<servers, dialVars, prodVars, exitVars, beepVars>>
DialStep == others("dial") /\ DialNext /\ UNCHANGED <<servers, tellVars, prodVars, exitVars, beepVars>>
ProdStep == others("product") /\ ProdNext /\ UNCHANGED <<servers, tellVars, dialVars, exitVars, beepVars>>
ExitStep == others("exit") /\ ExitNext /\ UNCHANGED <<servers, tellVars, dialVars, prodVars, beepVars>>
Next == \/ ConnStep \/ OpenStep \/ FileStep \/ BeepStep
        \/ TellStep \/ DialStep \/ ProdStep \/ ExitStep
Spec == Init /\ [][Next]_programs

(* The players of the beeper are alike.                                    *)
Alike == Permutations(Players)

(* The dialer alone: the child goes on by itself; the modem need not.      *)
DialSpec ==
  /\ Init /\ running = "dial" /\ [][DialStep]_programs
  /\ WF_programs(DialStep /\ DialChild)

(* The open server, the file server alone.                                 *)
OpenOnly == Init /\ running = "open" /\ [][OpenStep]_programs
FileSpec == Init /\ running = "files" /\ [][FileStep]_programs
=============================================================================
