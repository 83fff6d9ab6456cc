-------------------------------- MODULE Beeper --------------------------------
(***************************************************************************)
(* The two drivers of the beeper, driver_test/beep_driver.c ("plain") and  *)
(* driver_platform_test (driver.c and device.c, "platform"), and the       *)
(* programs that open /dev/beep: players (test_beep_music.c), testers      *)
(* (test_beep.c) and openers (driver_platform_test/test.c), any number of  *)
(* each at once.                                                           *)
(* Both drivers take major number 250, the class "myclass" and the node    *)
(* "beep"; neither names itself as the owner of its operations, so it can  *)
(* be unloaded while a file is open.                                       *)
(***************************************************************************)
EXTENDS Integers

CONSTANTS
  Drivers,  \* the drivers that may be loaded: "plain", "platform"
  Programs, \* bound: the programs that run, each at most MaxRuns times
  Players, Testers, \* which of them are which; the others are openers
  Pitches,  \* bound: pitches of the tunes; how long a note lasts is left out
  MaxRuns, MaxNotes, MaxLoads

ASSUME BeepAssumption ==
  /\ Drivers \subseteq {"plain", "platform"} /\ Pitches \subseteq Nat \ {0}
  /\ Programs \cap {"plain", "platform", "nobody"} = {}

VARIABLES
  loading, \* where each driver is between out and in
  hello,   \* the platform device is registered
  chrdev,  \* whose operations major 250 has
  class,   \* who has created the class
  node,    \* /dev/beep exists
  mapped,  \* the driver's pointers to the registers are valid
  tcon, tcntb, tcmpb, \* the timer
  file,    \* whose operations a program's open file has
  at,      \* where a program is
  note,    \* the pitch a player sets
  count,   \* notes played, runs made, drivers loaded
  begun, ended, \* who has set the timer's period, its compare value last (history)
  oops

loads == <<loading, hello, chrdev, class, node, mapped>>
timer == <<tcon, tcntb, tcmpb>>
users == <<file, at, note>>
setups == <<begun, ended>>
beepVars == <<loads, timer, users, setups, count, oops>>

Nobody == "nobody"
BEPP_IN_FREQ == 100000

BeepInit ==
  /\ loading = [d \in Drivers |-> "out"] /\ hello = FALSE
  /\ chrdev = Nobody /\ class = Nobody /\ node = FALSE
  /\ mapped = [d \in Drivers |-> FALSE]
  /\ tcon = "stopped" /\ tcntb = 0 /\ tcmpb = 0
  /\ file = [p \in Programs |-> Nobody] /\ at = [p \in Programs |-> "open"]
  /\ note = [p \in Programs |-> 0]
  /\ count = [loads |-> 0, notes |-> [p \in Programs |-> 0], runs |-> [p \in Programs |-> 0]]
  /\ begun = Nobody /\ ended = Nobody /\ oops = FALSE

-----------------------------------------------------------------------------
(* Loading: module_init, and probe of the platform driver                  *)

Moves(d, from, to) == loading[d] = from /\ loading' = [loading EXCEPT ![d] = to]
Unloaded(d) == IF d = "plain" THEN "out" ELSE "waiting"
LoadOnly == UNCHANGED <<users, setups, oops>>

beep_init(d) ==
  /\ count.loads < MaxLoads /\ count' = [count EXCEPT !.loads = @ + 1]
  /\ Moves(d, "out", IF d = "plain" \/ hello THEN "chrdev" ELSE "waiting")
  /\ UNCHANGED <<hello, chrdev, class, node, mapped, timer>> /\ LoadOnly

hello_init ==
  /\ "platform" \in Drivers /\ ~hello /\ hello' = TRUE
  /\ loading' = [loading EXCEPT !["platform"] = IF @ = "waiting" THEN "chrdev" ELSE @]
  /\ UNCHANGED <<chrdev, class, node, mapped, timer, count>> /\ LoadOnly

(* The platform driver has mapped its registers before.  That the number   *)
(* is taken is not noticed.                                                *)
RegisterChrdev(d) ==
  /\ Moves(d, "chrdev", "class")
  /\ mapped' = [mapped EXCEPT ![d] = (d = "platform")]
  /\ chrdev' = IF chrdev = Nobody THEN d ELSE chrdev
  /\ UNCHANGED <<hello, class, node, timer, count>> /\ LoadOnly

(* Seeded bug: the class may be created twice.                             *)
ClassCreate_shared(d) ==
  /\ \/ class' = d /\ Moves(d, "class", "device") /\ UNCHANGED chrdev
     \/ chrdev' = Nobody /\ Moves(d, "class", Unloaded(d)) /\ UNCHANGED class
  /\ UNCHANGED <<hello, node, mapped, timer, count>> /\ LoadOnly

(* unregister_chrdev goes by number and name, which are the other driver's *)
(* too.                                                                    *)
ClassCreate(d) ==
  /\ \/ class = Nobody /\ class' = d /\ Moves(d, "class", "device") /\ UNCHANGED chrdev
     \/ chrdev' = Nobody /\ Moves(d, "class", Unloaded(d)) /\ UNCHANGED class
  /\ UNCHANGED <<hello, node, mapped, timer, count>> /\ LoadOnly

DeviceCreate(d) ==
  /\ \/ node' = TRUE /\ Moves(d, "device", "hardware") /\ UNCHANGED <<class, chrdev>>
     \/ class' = Nobody /\ chrdev' = Nobody /\ Moves(d, "device", Unloaded(d)) /\ UNCHANGED node
  /\ UNCHANGED <<hello, mapped, timer, count>> /\ LoadOnly

(* fs4412_beep_init, step by step: the node is there and its file may be   *)
(* in use.                                                                 *)
MapRegisters(d) ==
  /\ Moves(d, "hardware", "period") /\ mapped' = [mapped EXCEPT ![d] = TRUE]
  /\ UNCHANGED <<hello, chrdev, class, node, timer, count>> /\ LoadOnly

InitPeriod(d) ==
  /\ Moves(d, "period", "compare") /\ tcntb' = 500 /\ begun' = d
  /\ UNCHANGED <<hello, chrdev, class, node, mapped, tcon, tcmpb, users, ended, count, oops>>

InitCompare(d) ==
  /\ Moves(d, "compare", "control") /\ tcmpb' = 250 /\ ended' = d
  /\ UNCHANGED <<hello, chrdev, class, node, mapped, tcon, tcntb, users, begun, count, oops>>

InitControl(d) ==
  /\ Moves(d, "control", "in") /\ tcon' = "update"
  /\ UNCHANGED <<hello, chrdev, class, node, mapped, tcntb, tcmpb, count>> /\ LoadOnly

(* Unloading while a file is open leaves it with operations that are gone. *)
Unbound(d) ==
  /\ mapped' = [mapped EXCEPT ![d] = FALSE]
  /\ node' = FALSE /\ class' = Nobody /\ chrdev' = Nobody
Orphan(d) == file' = [p \in Programs |-> IF file[p] = d THEN "stale" ELSE file[p]]

beep_exit(d) ==
  /\ \/ Moves(d, "in", "out") /\ Unbound(d)
     \/ d = "platform" /\ Moves(d, "waiting", "out") /\ UNCHANGED <<chrdev, class, node, mapped>>
  /\ Orphan(d) /\ UNCHANGED <<hello, timer, at, note, setups, count, oops>>

hello_exit ==
  /\ hello /\ hello' = FALSE
  /\ \/ Moves("platform", "in", "waiting") /\ Unbound("platform")
     \/ loading["platform"] \in {"out", "waiting"} /\ UNCHANGED <<loading, chrdev, class, node, mapped>>
  /\ UNCHANGED <<timer, count>> /\ LoadOnly

-----------------------------------------------------------------------------
(* The operations.  A register reached through a pointer that is not       *)
(* valid, or an operation of an unloaded driver, is the end.               *)

Valid(d) == d \in Drivers /\ mapped[d]
Goes(p, from, to) == at[p] = from /\ at' = [at EXCEPT ![p] = to]
Control(d, value) ==
  IF Valid(d) THEN tcon' = value /\ UNCHANGED oops ELSE oops' = TRUE /\ UNCHANGED tcon

First(p) == IF p \in Players THEN "note" ELSE IF p \in Testers THEN "on" ELSE "sleep"

Open(p) ==
  /\ count.runs[p] < MaxRuns
  /\ node /\ chrdev # Nobody /\ file' = [file EXCEPT ![p] = chrdev]
  /\ Goes(p, "open", First(p))
  /\ IF chrdev = "platform" THEN Control(chrdev, "running") ELSE UNCHANGED <<tcon, oops>>
  /\ count' = [count EXCEPT !.runs[p] = @ + 1, !.notes[p] = 0]
  /\ UNCHANGED <<loads, tcntb, tcmpb, note, setups>>

(* BEEP_FREQ is two writes, with no lock around them.                      *)
FreqPeriod(p) ==
  /\ count.notes[p] < MaxNotes /\ Goes(p, "note", "compare")
  /\ \E pitch \in Pitches :
       /\ note' = [note EXCEPT ![p] = pitch]
       /\ IF Valid(file[p]) THEN tcntb' = BEPP_IN_FREQ \div pitch /\ UNCHANGED oops
          ELSE oops' = TRUE /\ UNCHANGED tcntb
  /\ count' = [count EXCEPT !.notes[p] = @ + 1] /\ begun' = p
  /\ UNCHANGED <<loads, tcon, tcmpb, file, ended>>

beep_freq(p) ==
  /\ Goes(p, "compare", "on")
  /\ IF Valid(file[p]) THEN tcmpb' = BEPP_IN_FREQ \div (2 * note[p]) /\ UNCHANGED oops
     ELSE oops' = TRUE /\ UNCHANGED tcmpb
  /\ note' = [note EXCEPT ![p] = 0] /\ ended' = p
  /\ UNCHANGED <<loads, tcon, tcntb, file, begun, count>>

IoctlOn(p) ==
  /\ Goes(p, "on", "off") /\ Control(file[p], "running")
  /\ UNCHANGED <<loads, tcntb, tcmpb, file, note, setups, count>>

IoctlOff(p) ==
  /\ Goes(p, "off", IF p \in Players THEN "note" ELSE "sleep") /\ Control(file[p], "stopped")
  /\ UNCHANGED <<loads, tcntb, tcmpb, file, note, setups, count>>

(* Seeded bug: release stops the timer only between notes.                 *)
Release_quiet(p) ==
  /\ file[p] # Nobody /\ at[p] # "compare" /\ file' = [file EXCEPT ![p] = Nobody]
  /\ at' = [at EXCEPT ![p] = "open"]
  /\ Control(file[p], IF at[p] = "sleep" THEN "stopped" ELSE tcon)
  /\ UNCHANGED <<loads, tcntb, tcmpb, note, setups, count>>

(* The end of the tune, close, or the end of a program that is killed,     *)
(* which comes when it is back from its ioctl.                             *)
Release(p) ==
  /\ file[p] # Nobody /\ at[p] # "compare" /\ file' = [file EXCEPT ![p] = Nobody]
  /\ at' = [at EXCEPT ![p] = "open"]
  /\ Control(file[p], "stopped")
  /\ UNCHANGED <<loads, tcntb, tcmpb, note, setups, count>>

BeepNext ==
  /\ ~oops
  /\ \/ \E d \in Drivers : \/ beep_init(d) \/ RegisterChrdev(d) \/ ClassCreate(d)
                           \/ DeviceCreate(d) \/ beep_exit(d)
                           \/ MapRegisters(d) \/ InitPeriod(d) \/ InitCompare(d) \/ InitControl(d)
     \/ hello_init \/ hello_exit
     \/ \E p \in Programs : \/ Open(p) \/ FreqPeriod(p) \/ beep_freq(p)
                            \/ IoctlOn(p) \/ IoctlOff(p) \/ Release(p)

BeepSpec == BeepInit /\ [][BeepNext]_beepVars

-----------------------------------------------------------------------------
(* Properties                                                              *)

(* Whatever programs opened and closed the device in whatever order, and   *)
(* died where they were, once all files are closed the beeper is silent    *)
(* (beep_release).                                                         *)
SilentWhenClosed ==
  ~oops /\ (\A p \in Programs : file[p] = Nobody) => tcon # "running"

(* Nothing keeps the set-ups of the timer apart, whether two programs play *)
(* at once or one plays while the driver is still loading; then the period *)
(* of one may stand with the compare value of another.  But when the       *)
(* set-up that began last has also ended last the timer compares at half   *)
(* of its period, a clean tone, wherever the others were crossed           *)
(* (beep_freq, fs4412_beep_init).                                          *)
Between(x) == IF x \in Drivers THEN loading[x] = "compare" ELSE x \in Programs /\ at[x] = "compare"
HalfDuty ==
  ~oops /\ begun = ended /\ ~Between(begun) => 2 * tcmpb \in {tcntb, tcntb - 1}

(* Silence when all is closed, and what can be said of the tone.           *)
ToneRight == SilentWhenClosed /\ HalfDuty

(* The two drivers are never both in, although that the number is taken   *)
(* is not noticed: the class is.  And the number never leads to a driver   *)
(* that has gone, where open() would jump into freed memory: every way out *)
(* gives it back (beep_init, beep_probe).                                  *)
OneDriverIn ==
  /\ \A c, d \in Drivers : loading[c] = "in" /\ loading[d] = "in" => c = d
  /\ chrdev # Nobody => loading[chrdev] \notin {"out", "waiting"}
=============================================================================
