------------------------------- MODULE Dialer -------------------------------
(* What calld's child does to dial: dial_find looks the dialer up in the   *)
(* Dialers file, tty_open opens the line, tty_dial plays the dialer's      *)
(* expect/send chat with the modem, expect_str under an alarm.  The modem  *)
(* sends what it likes when it likes and may hang up.  A word of the chat  *)
(* is a sequence of characters and escapes ("\\T" is one element).         *)
EXTENDS Naturals, Sequences, SequencesExt

CONSTANTS
  Files,      \* the Dialers files: sequences of lines, see dial_next
  Wanted,     \* the dialer that the device names
  Classes,    \* the speeds that tty_open knows
  AskedClass, \* the speeds that the devices name
  Phone,      \* the number: a word
  Sounds,      \* what the modem may send
  MaxBytes,   \* bound: how many bytes it sends
  InBuf,      \* sizeof inbuf in expect_str
  MaxDepth    \* bound: calls of send_str in send_str before the stack is full

(* strtok makes no empty words; a byte is not the hang-up.                 *)
ASSUME DialAssumption ==
  /\ \A file \in Files : DOMAIN file \subseteq Nat /\ \A i \in DOMAIN file :
       file[i].kind = "dialer" => file[i].expsend \in Seq(Seq(STRING) \ {<<>>})
  /\ Sounds \subseteq STRING \ {"hangup"} /\ InBuf \in Nat

VARIABLES
  dpc,      \* where the child is
  chat,     \* strtok: the words of the chat that are not used yet
  exp,      \* expstr
  c,        \* expect_str's c, the 0 that ends the expected string at first
  win,      \* what cmpptr points to, up to inptr
  used,     \* inptr - inbuf
  frames,   \* send_str's calls: what is left of ptr, and echocheck
  wire,     \* sent by the modem, not read yet; "hangup" ends it
  heard,    \* history: what this expect_str has read
  alarm,    \* SIGALRM: "off" or "set"
  caught,   \* caught_alrm
  modemLeft \* bytes the modem may still send

dialVars == <<dpc, chat, exp, c, win, used, frames, wire, heard, alarm, caught, modemLeft>>

Nul == "NUL"

DialInit ==
  /\ dpc = "find" /\ chat = <<>> /\ exp = <<>> /\ c = Nul /\ win = <<>> /\ used = 0
  /\ frames = <<>> /\ wire = <<>> /\ heard = <<>> /\ alarm = "off" /\ caught = FALSE
  /\ modemLeft = MaxBytes

(* A line is a comment, empty, or a dialer with sub and expsend, either of *)
(* which may be missing; a line of blanks misses the dialer itself.        *)
dial_next(l) == l.kind \notin {"comment", "empty"}
Whole(l) == l.kind = "dialer"

(* dial_find ends at the first line that has the dialer, at the first that *)
(* misses a part (log_quit), or at the end of the file.                    *)
dial_find ==
  \E file \in Files :
    LET stop == {i \in DOMAIN file : dial_next(file[i]) /\ (Whole(file[i]) => file[i].dialer = Wanted)}
        i == CHOOSE j \in stop : \A k \in stop : j <= k
    IN  /\ dpc = "find"
        /\ IF stop = {} THEN dpc' = "failed" /\ UNCHANGED chat
           ELSE IF Whole(file[i]) THEN dpc' = "open" /\ chat' = file[i].expsend
           ELSE dpc' = "quit" /\ UNCHANGED chat
        /\ UNCHANGED <<exp, c, win, used, frames, wire, heard, alarm, caught, modemLeft>>

(* A line that cannot be opened, that is no terminal, or a speed that is   *)
(* not in the list; the terminal calls themselves may fail.                *)
tty_open ==
  /\ dpc = "open"
  /\ \E class \in AskedClass, works \in BOOLEAN :
       dpc' \in IF ~works THEN {"failed", "quit"}
                ELSE IF class \in Classes THEN {"expect"} ELSE {"failed"}
  /\ UNCHANGED <<chat, exp, c, win, used, frames, wire, heard, alarm, caught, modemLeft>>

(* The modem, whenever it likes.                                           *)
Modem ==
  /\ modemLeft > 0 /\ (wire # <<>> => Last(wire) # "hangup")
  /\ \E b \in Sounds \cup {"hangup"} : wire' = Append(wire, b)
  /\ modemLeft' = modemLeft - 1
  /\ UNCHANGED <<dpc, chat, exp, c, win, used, frames, heard, alarm, caught>>
-----------------------------------------------------------------------------
(* expect_str                                                              *)
Nothing == << "\"\"" >>
Escape(e) == CASE e = "\\r" -> "CR" [] e = "\\s" -> " " [] OTHER -> e
Invalid(w) == \E i \in DOMAIN w : w[i] \in {"\\", "\\T", "\\c", "\\?"}

(* tty_dial's next word is one to expect.  The alarm is set for the whole  *)
(* string.                                                                 *)
ExpectStart ==
  /\ dpc = "expect" /\ chat # <<>> /\ Head(chat) # Nothing
  /\ chat' = Tail(chat)
  /\ IF Invalid(Head(chat))
     THEN dpc' = "failed" /\ UNCHANGED <<exp, alarm, caught>>
     ELSE /\ exp' = [i \in DOMAIN Head(chat) |-> Escape(Head(chat)[i])]
          /\ caught' = FALSE /\ alarm' = "set" /\ dpc' = "test"
  /\ win' = <<>> /\ used' = 0 /\ heard' = <<>> /\ c' = Nul
  /\ UNCHANGED <<frames, wire, modemLeft>>

ExpectNothing ==
  /\ dpc = "expect" /\ chat # <<>> /\ Head(chat) = Nothing
  /\ chat' = Tail(chat) /\ dpc' = "matched" /\ exp' = <<>> /\ heard' = <<>>
  /\ UNCHANGED <<c, win, used, frames, wire, alarm, caught, modemLeft>>

(* What expect_str does with what exp_read left in its place b: skip to    *)
(* the first character, fill the window, and move it on until it matches.  *)
(* Nothing keeps inptr inside inbuf.                                       *)
Skips == win = <<>>

(* Seeded bug: a byte more than matchlen is read before the first          *)
(* comparison.                                                             *)
Scan_one_more(b) ==
  LET w == IF Skips THEN (IF b = Head(exp) THEN <<b>> ELSE <<>>)
           ELSE IF Len(win) <= Len(exp) THEN Append(win, b)
           ELSE Append(Tail(win), b)
  IN  /\ win' = w
      /\ c' = IF Skips THEN b ELSE c
      /\ used' = IF w = <<>> THEN used ELSE used + 1
      /\ dpc' = IF used' > InBuf THEN "overrun"
                ELSE IF Len(w) > Len(exp) /\ SubSeq(w, 1, Len(exp)) = exp THEN "matched" ELSE "test"

Scan(b) ==
  LET w == IF Skips THEN (IF b = Head(exp) THEN <<b>> ELSE <<>>)
           ELSE IF Len(win) < Len(exp) THEN Append(win, b)
           ELSE Append(Tail(win), b)
  IN  /\ win' = w
      /\ c' = IF Skips THEN b ELSE c
      /\ used' = IF w = <<>> THEN used ELSE used + 1
      /\ dpc' = IF used' > InBuf THEN "overrun"
                ELSE IF w = exp THEN "matched" ELSE "test"

(* exp_read times out: it returns (size_t) -1, which is not less than 0,   *)
(* and has read nothing.  c is what it was; a place in inbuf holds what    *)
(* was there.                                                              *)
TimedOut ==
  \E b \in IF Skips THEN {c} ELSE Sounds : Scan(b)

(* The flag is tested before read() ...                                    *)
exp_read_late ==
  /\ dpc = "test" /\ caught /\ TimedOut
  /\ UNCHANGED <<chat, exp, frames, wire, heard, alarm, caught, modemLeft>>

exp_read ==
  /\ dpc = "test" /\ ~caught /\ dpc' = "read"
  /\ UNCHANGED <<chat, exp, c, win, used, frames, wire, heard, alarm, caught, modemLeft>>

(* ... which takes a byte, or fails when the line is hung up.              *)
ReadByte ==
  /\ dpc = "read" /\ wire # <<>>
  /\ wire' = Tail(wire)
  /\ IF Head(wire) = "hangup" THEN dpc' = "quit" /\ UNCHANGED <<win, c, used, heard>>
     ELSE Scan(Head(wire)) /\ heard' = Append(heard, Head(wire))
  /\ UNCHANGED <<chat, exp, frames, alarm, caught, modemLeft>>

(* SIGALRM: it interrupts a read that waits, and only that; between the    *)
(* test of the flag and the read it interrupts nothing.                    *)
sig_alrm ==
  /\ alarm = "set" /\ alarm' = "off" /\ caught' = TRUE
  /\ \/ dpc = "read" /\ wire = <<>> /\ TimedOut
     \/ UNCHANGED <<dpc, win, c, used>>
  /\ UNCHANGED <<chat, exp, frames, wire, heard, modemLeft>>

(* returnok, and tty_dial's test for the end of the chat.                  *)
Matched ==
  /\ dpc = "matched" /\ alarm' = "off"
  /\ IF chat = <<>> THEN dpc' = "connected" /\ UNCHANGED <<chat, frames>>
     ELSE /\ dpc' = "send" /\ chat' = Tail(chat)
          /\ frames' = << [rest |-> Head(chat), echo |-> FALSE] >>
  /\ UNCHANGED <<exp, c, win, used, wire, heard, caught, modemLeft>>
-----------------------------------------------------------------------------
(* send_str                                                                *)
Top == Last(frames)
More == Top.rest # <<>>
Next1 == Head(Top.rest)
Rest(echo) == [frames EXCEPT ![Len(frames)] = [rest |-> Tail(Top.rest), echo |-> echo]]

(* A call returns; tty_dial looks at what the outer one says, send_str     *)
(* itself not at what the inner one does.                                  *)
SendReturns(ok) ==
  /\ frames' = Front(frames)
  /\ dpc' = IF Len(frames) > 1 THEN "send"
            ELSE IF ~ok THEN "failed"
            ELSE IF chat = <<>> THEN "connected" ELSE "expect"

(* The escapes that write nothing.                                         *)
SendEscape ==
  /\ dpc = "send" /\ More
  /\ \/ Next1 \in {"\\d", "\\p"} /\ frames' = Rest(Top.echo) /\ UNCHANGED dpc
     \/ Next1 = "\\c" /\ IF Len(Top.rest) = 1 THEN SendReturns(TRUE)
                         ELSE frames' = Rest(Top.echo) /\ UNCHANGED dpc
     \/ Next1 = "\\e" /\ frames' = Rest(FALSE) /\ UNCHANGED dpc
     \/ Next1 = "\\E" /\ frames' = Rest(TRUE) /\ UNCHANGED dpc
     \/ Next1 = "\\" /\ SendReturns(FALSE)
     \* sprintf writes into its own format
     \/ Next1 = "\\?" /\ (SendReturns(FALSE) \/ (dpc' = "overrun" /\ UNCHANGED frames))
  /\ UNCHANGED <<chat, exp, c, win, used, wire, heard, alarm, caught, modemLeft>>

(* The number is sent by another call, with a CR of its own.               *)
SendPhone ==
  /\ dpc = "send" /\ More /\ Next1 = "\\T"
  /\ IF Len(frames) = MaxDepth THEN dpc' = "overrun" /\ UNCHANGED frames
     ELSE frames' = Append(Rest(Top.echo), [rest |-> Phone, echo |-> Top.echo]) /\ UNCHANGED dpc
  /\ UNCHANGED <<chat, exp, c, win, used, wire, heard, alarm, caught, modemLeft>>

(* A character, and the CR at the end; c is what must come back.           *)
Plain(e) == e \notin {"\\d", "\\p", "\\c", "\\e", "\\E", "\\", "\\?", "\\T"}
SendByte ==
  /\ dpc = "send"
  /\ IF More
     THEN /\ Plain(Next1)
          /\ c' = Escape(Next1) /\ frames' = Rest(Top.echo)
          /\ dpc' = IF Top.echo THEN "echo" ELSE "send"
     ELSE SendReturns(TRUE) /\ UNCHANGED c
  /\ UNCHANGED <<chat, exp, win, used, wire, heard, alarm, caught, modemLeft>>

(* Read until the character comes back.                                    *)
ReadEcho ==
  /\ dpc = "echo" /\ wire # <<>> /\ wire' = Tail(wire)
  /\ dpc' = IF Head(wire) = "hangup" THEN "quit" ELSE IF Head(wire) = c THEN "send" ELSE "echo"
  /\ UNCHANGED <<chat, exp, c, win, used, frames, heard, alarm, caught, modemLeft>>
-----------------------------------------------------------------------------
DialChild ==
  \/ dial_find \/ tty_open
  \/ ExpectStart \/ ExpectNothing \/ exp_read_late \/ exp_read \/ ReadByte \/ sig_alrm \/ Matched
  \/ SendEscape \/ SendPhone \/ SendByte \/ ReadEcho
DialNext == DialChild \/ Modem

DialerSpec == DialInit /\ [][DialNext]_dialVars

(* Without a time out expect_str says it got the string when it has read   *)
(* it, and has not read a byte further than its first occurrence.  Once    *)
(* it has returned no alarm is left to interrupt what send_str reads.      *)
Received(s) == Len(s) >= Len(exp) /\ SubSeq(s, Len(s) - Len(exp) + 1, Len(s)) = exp
FirstMatch ==
  /\ dpc = "matched" /\ ~caught =>
       Received(heard) /\ \A i \in 1 .. Len(heard) - 1 : ~Received(SubSeq(heard, 1, i))
  /\ dpc \in {"send", "echo", "connected"} => alarm = "off"

(* expectstr.c:11 "return 0 if got it, -1 if not", expectstr.c:76 "handle  *)
(* timeout errors": once exp_read finds the flag set expect_str returns.   *)
TimeoutReturns == (caught /\ dpc = "test") ~> dpc \notin {"test", "read"}
=============================================================================
