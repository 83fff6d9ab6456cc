---------------------------- MODULE Devices_proofs ----------------------------
(***************************************************************************)
(* Proofs about the device programs.  The LED dimmer shows what its keys   *)
(* asked for, but for brightness 7, where the channels that burn show what *)
(* lies behind the tables (Dimmer).  The beeper is silent once all files   *)
(* are closed, and plays a clean tone when the set-up that began last has  *)
(* ended last; one of its two drivers is in (Beeper): for any number of    *)
(* programs, tunes and loads, two of whose writes may cross.  The display  *)
(* controller fetches from memory that is there, is programmed as its      *)
(* driver remembers, and shows the palette that was asked for (Lcd), for   *)
(* any boards, page size and colours.  The sound test plays nothing that   *)
(* it has not captured, whatever its card supports, and run as its buffer  *)
(* was malloced for it stays in it (Latency).  mmap_test shows the part of *)
(* a file that was asked for, but for the length -1 (FileMap), for any     *)
(* width of size_t and page size.                                          *)
(***************************************************************************)
EXTENDS Dimmer, Beeper, Lcd, Latency, FileMap, FiniteSetTheorems, Lists_proofs, TLAPS
-----------------------------------------------------------------------------
(* The dimmer                                                              *)

DimInv ==
  /\ scan \in {"start", "bright", "color"} /\ brightness1 \in 0 .. 7 /\ color1 \in 1 .. 7
  /\ DutyShown

(* What set_color loads: zero for a channel the colour leaves out.         *)
LEMMA SetColor ==
  ASSUME NEW color \in 1 .. 7, NEW b \in 0 .. 7, set_color(color, b)
  PROVE  \A i \in 1 .. 3 : IF Lit(color)[i] = 0 THEN ccr'[i] = Duties[1] ELSE ccr'[i] \in Duty(b)
<1> DEFINE lit == Lit(color)  x == b * lit[1]  y == b * lit[2]  z == b * lit[3]
<1>1. lit[1] \in {0, 1} /\ lit[2] \in {0, 1} /\ lit[3] \in {0, 1}
  BY DEF Lit
<1>2. three_color(x, y, z)
  BY DEF set_color
<1> HIDE DEF lit
<1>3. x = (IF lit[1] = 0 THEN 0 ELSE b) /\ y = (IF lit[2] = 0 THEN 0 ELSE b)
      /\ z = (IF lit[3] = 0 THEN 0 ELSE b)
  BY <1>1
<1> HIDE DEF x, y, z
<1>4. ~(x > 7 \/ y > 7 \/ z > 7)
  BY <1>3
<1>5. PICK r \in Duty(x), s \in Duty(y), g \in Duty(z) : ccr' = <<r, s, g>>
  BY <1>2, <1>4 DEF three_color
<1>6. ccr'[1] \in Duty(x) /\ ccr'[2] \in Duty(y) /\ ccr'[3] \in Duty(z)
  BY <1>5
<1>7. Duty(0) = {Duties[1]}
  BY DEF Duty, Duties
<1>8. \A i \in 1 .. 3 : i = 1 \/ i = 2 \/ i = 3
  OBVIOUS
<1>9. \A i \in 1 .. 3 : IF lit[i] = 0 THEN ccr'[i] = Duties[1] ELSE ccr'[i] \in Duty(b)
  BY <1>3, <1>6, <1>7, <1>8
<1> QED
  BY <1>9 DEF lit

LEMMA DimStep == DimInv /\ [DimNext]_dimVars => DimInv'
<1> SUFFICES ASSUME DimInv, [DimNext]_dimVars PROVE DimInv'
  OBVIOUS
<1> USE DEF DimInv
<1>1. CASE UNCHANGED dimVars
  BY <1>1 DEF dimVars, DutyShown
<1>2. /\ scan' \in {"bright", "color"} \/ scan' = scan
      /\ brightness1' \in 0 .. 7 /\ color1' \in 1 .. 7
  <2>1. CASE FirstColor
    BY <2>1 DEF FirstColor
  <2>2. CASE BrightKey
    BY <2>2 DEF BrightKey
  <2>3. CASE ColorKey
    BY <2>3 DEF ColorKey
  <2> QED
    BY <1>1, <2>1, <2>2, <2>3 DEF DimNext, dimVars
<1>3. \/ set_color(color1', brightness1')
      \/ scan # "start" /\ UNCHANGED <<brightness1, color1, ccr>>
      \/ UNCHANGED dimVars
  BY DEF DimNext, FirstColor, BrightKey, ColorKey
<1>4. DutyShown'
  <2>1. CASE set_color(color1', brightness1')
    <3> DEFINE c == color1'  b == brightness1'
    <3>1. c \in 1 .. 7 /\ b \in 0 .. 7 /\ set_color(c, b)
      BY <1>2, <2>1
    <3> HIDE DEF c, b
    <3>2. \A i \in 1 .. 3 : IF Lit(c)[i] = 0 THEN ccr'[i] = Duties[1] ELSE ccr'[i] \in Duty(b)
      BY <3>1, SetColor
    <3>3. Len(Duties) = 7
      BY DEF Duties
    <3> QED
      BY <3>1, <3>2, <3>3 DEF c, b, DutyShown
  <2>2. CASE scan # "start" /\ UNCHANGED <<brightness1, color1, ccr>>
    BY <2>2 DEF DutyShown
  <2> QED
    BY <1>1, <1>3, <2>1, <2>2
<1> QED
  BY <1>2, <1>4

(* After every key the channels of the remembered colour burn as the duty  *)
(* tables have it for the remembered brightness and the others are dark;   *)
(* at brightness 7, for which the tables have no entry, those of the       *)
(* colour burn with whatever lies behind the tables                        *)
(* (stm8_pwm/main.c, set_color and three_color).                           *)
THEOREM ShowsDuty == DimSpec => []DutyShown
<1>1. DimInit => DimInv
  BY DEF DimInit, DimInv, DutyShown
<1>2. DimInv => DutyShown
  BY DEF DimInv
<1> QED
  BY <1>1, <1>2, DimStep, PTL DEF DimSpec

-----------------------------------------------------------------------------
(* The beeper                                                              *)

Inits == {"hardware", "period", "compare", "control"}
Stages == {"out", "waiting", "chrdev", "class", "device", "in"} \cup Inits
BeepTypes ==
  /\ loading \in [Drivers -> Stages] /\ mapped \in [Drivers -> BOOLEAN]
  /\ hello \in BOOLEAN /\ (hello => "platform" \in Drivers)
  /\ chrdev \in Drivers \cup {Nobody} /\ class \in Drivers \cup {Nobody}
  /\ file \in [Programs -> Drivers \cup {Nobody, "stale"}]
  /\ at \in [Programs -> {"open", "note", "compare", "on", "off", "sleep"}]
  /\ note \in [Programs -> Nat]

(* The class is the mark of a driver that has got beyond it, and major 250 *)
(* of one that is on its way in or is in.                                  *)
ClassOwned == \A d \in Drivers : loading[d] \in {"device", "in"} \cup Inits <=> class = d
NumberLeads == chrdev # Nobody => loading[chrdev] \notin {"out", "waiting"}

(* A program that has gone on from open() has a file, and the beeper       *)
(* sounds for one that has.                                                *)
FilesHeld == \A p \in Programs : at[p] # "open" => file[p] # Nobody
Sounds == ~oops /\ tcon = "running" => \E p \in Programs : file[p] # Nobody

(* As long as the set-up that began last has not ended, the period is its. *)
PeriodSet ==
  /\ \A p \in Programs : at[p] = "compare" => note[p] \in Pitches
  /\ ~oops /\ Between(begun) => tcntb = IF begun \in Drivers THEN 500 ELSE BEPP_IN_FREQ \div note[begun]

BeepInv == BeepTypes /\ ClassOwned /\ NumberLeads /\ FilesHeld /\ Sounds /\ PeriodSet /\ HalfDuty

LEMMA DriverNames ==
  Nobody \notin Drivers /\ "stale" \notin Drivers /\ Nobody \notin Programs /\ Drivers \cap Programs = {}
BY BeepAssumption DEF Nobody

(* Half of a period, rounded down twice or once.                           *)
LEMMA HalfPeriod ==
  ASSUME NEW n \in Nat \ {0}, NEW f \in Nat
  PROVE  2 * (f \div (2 * n)) \in {f \div n, (f \div n) - 1}
<1> DEFINE a == f \div (2 * n)
           b == f \div n
<1>1. /\ b \in Int /\ n * b <= f /\ f < n * (b + 1)
  OBVIOUS
<1>2. 2 * n \in Nat \ {0}
  OBVIOUS
<1>3. /\ a \in Int /\ (2 * n) * a <= f /\ f < (2 * n) * (a + 1)
  <2> DEFINE m == 2 * n
  <2> HIDE DEF m
  <2>1. m \in Nat \ {0}
    BY <1>2 DEF m
  <2>2. (f \div m) \in Int /\ m * (f \div m) <= f /\ f < m * ((f \div m) + 1)
    BY <2>1
  <2> QED
    BY <2>2 DEF m
<1> HIDE DEF a, b
<1>4. ASSUME NEW x \in Int, NEW y \in Int, n * x < n * y PROVE x < y
  <2> SUFFICES ASSUME y <= x PROVE FALSE
    OBVIOUS
  <2>1. PICK d \in Nat : x = y + d
    <3> WITNESS x - y \in Nat
    <3> QED
      OBVIOUS
  <2>2. n * x = n * y + n * d /\ n * d \in Nat
    BY <2>1
  <2> QED
    BY <1>4, <2>2
<1>5. (2 * n) * a = n * (2 * a) /\ (2 * n) * (a + 1) = n * (2 * a + 2)
  BY <1>3
<1>6. 2 * a < b + 1
  <2>1. n * (2 * a) < n * (b + 1)
    BY <1>1, <1>3, <1>5
  <2>2. 2 * a \in Int /\ b + 1 \in Int
    BY <1>1, <1>3
  <2> QED
    BY <1>4, <2>1, <2>2
<1>7. b < 2 * a + 2
  <2>1. n * b < n * (2 * a + 2)
    BY <1>1, <1>3, <1>5
  <2>2. b \in Int /\ 2 * a + 2 \in Int
    BY <1>1, <1>3
  <2> QED
    BY <1>4, <2>1, <2>2
<1>8. 2 * a = b \/ 2 * a = b - 1
  BY <1>1, <1>3, <1>6, <1>7
<1> QED
  BY <1>8 DEF a, b

LEMMA BeepStarts == BeepInit => BeepInv
<1> SUFFICES ASSUME BeepInit PROVE BeepInv
  OBVIOUS
<1>1. BeepTypes /\ ClassOwned /\ NumberLeads
  BY DriverNames DEF BeepInit, BeepTypes, Stages, Inits, ClassOwned, NumberLeads
<1>2. FilesHeld /\ Sounds /\ PeriodSet
  BY DriverNames DEF BeepInit, FilesHeld, Sounds, PeriodSet, Between
<1>3. HalfDuty
  BY DEF BeepInit, HalfDuty
<1> QED
  BY <1>1, <1>2, <1>3 DEF BeepInv

(* A driver moves on: the others stay where they are.                      *)
LEMMA Moving ==
  ASSUME BeepTypes, NEW d \in Drivers, NEW from, NEW to \in Stages, Moves(d, from, to)
  PROVE  /\ loading[d] = from /\ loading' \in [Drivers -> Stages] /\ loading'[d] = to
         /\ \A e \in Drivers : e # d => loading'[e] = loading[e]
BY DEF Moves, BeepTypes

LEMMA BeepInits ==
  ASSUME BeepInv, NEW d \in Drivers, beep_init(d)
  PROVE  BeepTypes' /\ ClassOwned' /\ NumberLeads'
<1> USE DEF BeepInv
<1> DEFINE to == IF d = "plain" \/ hello THEN "chrdev" ELSE "waiting"
<1>1. to \in {"chrdev", "waiting"} /\ to \in Stages
  BY DEF Stages
<1>2. UNCHANGED <<hello, chrdev, class, node, mapped, file, at, note>> /\ Moves(d, "out", to)
  BY DEF beep_init, LoadOnly, users
<1> HIDE DEF to
<1>3. /\ loading[d] = "out" /\ loading' \in [Drivers -> Stages] /\ loading'[d] = to
      /\ \A e \in Drivers : e # d => loading'[e] = loading[e]
  BY <1>1, <1>2, Moving
<1>4. BeepTypes'
  BY <1>2, <1>3 DEF BeepTypes
<1>5. ClassOwned'
  BY <1>1, <1>2, <1>3 DEF ClassOwned, Inits
<1>6. NumberLeads'
  BY <1>1, <1>2, <1>3 DEF NumberLeads, BeepTypes
<1> QED
  BY <1>4, <1>5, <1>6

LEMMA Registers ==
  ASSUME BeepInv, NEW d \in Drivers, RegisterChrdev(d)
  PROVE  BeepTypes' /\ ClassOwned' /\ NumberLeads'
<1> USE DEF BeepInv
<1>1. UNCHANGED <<hello, class, node, file, at, note>> /\ Moves(d, "chrdev", "class")
      /\ chrdev' = IF chrdev = Nobody THEN d ELSE chrdev
  BY DEF RegisterChrdev, LoadOnly, users
<1>2. /\ loading[d] = "chrdev" /\ loading' \in [Drivers -> Stages] /\ loading'[d] = "class"
      /\ \A e \in Drivers : e # d => loading'[e] = loading[e]
  BY <1>1, Moving DEF Stages
<1>3. mapped' \in [Drivers -> BOOLEAN]
  BY DEF RegisterChrdev, BeepTypes
<1>4. BeepTypes'
  BY <1>1, <1>2, <1>3 DEF BeepTypes
<1>5. ClassOwned'
  BY <1>1, <1>2 DEF ClassOwned, Inits
<1>6. NumberLeads'
  BY <1>1, <1>2 DEF NumberLeads, BeepTypes
<1> QED
  BY <1>4, <1>5, <1>6

LEMMA Creates ==
  ASSUME BeepInv, NEW d \in Drivers,
         \/ ClassCreate(d) \/ DeviceCreate(d)
         \/ MapRegisters(d) \/ InitPeriod(d) \/ InitCompare(d) \/ InitControl(d)
  PROVE  BeepTypes' /\ ClassOwned' /\ NumberLeads'
<1> USE DEF BeepInv
<1>1. UNCHANGED <<hello, file, at, note>> /\ mapped' \in [Drivers -> BOOLEAN]
  <2>1. UNCHANGED <<hello, file, at, note>>
    BY DEF ClassCreate, DeviceCreate, MapRegisters, InitPeriod, InitCompare, InitControl, LoadOnly, users
  <2>2. mapped' = mapped \/ mapped' = [mapped EXCEPT ![d] = TRUE]
    BY DEF ClassCreate, DeviceCreate, MapRegisters, InitPeriod, InitCompare, InitControl
  <2> QED
    BY <2>1, <2>2 DEF BeepTypes
<1>2. \/ Moves(d, "class", "device") /\ class = Nobody /\ class' = d /\ UNCHANGED chrdev
      \/ Moves(d, "class", Unloaded(d)) /\ UNCHANGED class /\ chrdev' = Nobody
      \/ Moves(d, "device", "hardware") /\ UNCHANGED <<class, chrdev>>
      \/ Moves(d, "device", Unloaded(d)) /\ class' = Nobody /\ chrdev' = Nobody
      \/ /\ UNCHANGED <<class, chrdev>>
         /\ \/ Moves(d, "hardware", "period") \/ Moves(d, "period", "compare")
            \/ Moves(d, "compare", "control") \/ Moves(d, "control", "in")
  BY DEF ClassCreate, DeviceCreate, MapRegisters, InitPeriod, InitCompare, InitControl
<1>3. Unloaded(d) \in {"out", "waiting"}
  BY DEF Unloaded
<1>4. PICK to \in Stages : \E from \in Stages : Moves(d, from, to)
  BY <1>2, <1>3 DEF Stages, Inits
<1>5. /\ loading' \in [Drivers -> Stages] /\ \A e \in Drivers : e # d => loading'[e] = loading[e]
  BY <1>4, Moving
<1>6. \A from \in Stages, t \in Stages : Moves(d, from, t) => loading[d] = from /\ loading'[d] = t
  BY Moving
<1>7. Unloaded(d) \in Stages /\ {"class", "device", "in"} \cup Inits \subseteq Stages
  BY <1>3 DEF Stages
<1>8. \/ loading[d] = "class" /\ loading'[d] = "device" /\ class = Nobody /\ class' = d /\ UNCHANGED chrdev
      \/ loading[d] = "class" /\ loading'[d] = Unloaded(d) /\ UNCHANGED class /\ chrdev' = Nobody
      \/ loading[d] = "device" /\ loading'[d] = Unloaded(d) /\ class' = Nobody /\ chrdev' = Nobody
      \/ /\ loading[d] \in {"device"} \cup Inits /\ loading'[d] \in Inits \cup {"in"}
         /\ UNCHANGED <<class, chrdev>>
  BY <1>2, <1>6, <1>7 DEF Inits
<1>9. BeepTypes'
  BY <1>1, <1>5, <1>8 DEF BeepTypes
<1>10. ClassOwned'
  BY <1>3, <1>5, <1>8, DriverNames DEF ClassOwned, Inits
<1>11. NumberLeads'
  BY <1>5, <1>8 DEF NumberLeads, BeepTypes, Inits
<1> QED
  BY <1>9, <1>10, <1>11

LEMMA Exits ==
  ASSUME BeepInv, NEW d \in Drivers, beep_exit(d)
  PROVE  BeepTypes' /\ ClassOwned' /\ NumberLeads'
<1> USE DEF BeepInv
<1>1. UNCHANGED <<hello, at, note>> /\ mapped' \in [Drivers -> BOOLEAN]
      /\ file' \in [Programs -> Drivers \cup {Nobody, "stale"}]
  BY DEF beep_exit, Unbound, Orphan, BeepTypes
<1>2. \/ Moves(d, "in", "out") /\ class' = Nobody /\ chrdev' = Nobody
      \/ Moves(d, "waiting", "out") /\ UNCHANGED <<class, chrdev>>
  BY DEF beep_exit, Unbound
<1>3. "in" \in Stages /\ "out" \in Stages
  BY DEF Stages
<1>4. /\ loading' \in [Drivers -> Stages] /\ \A e \in Drivers : e # d => loading'[e] = loading[e]
      /\ loading'[d] = "out"
      /\ \/ loading[d] = "in" /\ class' = Nobody /\ chrdev' = Nobody
         \/ loading[d] = "waiting" /\ UNCHANGED <<class, chrdev>>
  BY <1>2, <1>3, Moving
<1>5. BeepTypes'
  BY <1>1, <1>4 DEF BeepTypes
<1>6. ClassOwned'
  BY <1>4, DriverNames DEF ClassOwned, Inits
<1>7. NumberLeads'
  BY <1>4 DEF NumberLeads, BeepTypes
<1> QED
  BY <1>5, <1>6, <1>7

LEMMA Hellos ==
  ASSUME BeepInv, hello_init \/ hello_exit
  PROVE  BeepTypes' /\ ClassOwned' /\ NumberLeads'
<1> USE DEF BeepInv
<1> DEFINE d == "platform"
<1>1. d \in Drivers
  BY DEF hello_init, hello_exit, BeepTypes
<1>2. UNCHANGED <<file, at, note>> /\ hello' \in BOOLEAN /\ mapped' \in [Drivers -> BOOLEAN]
  BY DEF hello_init, hello_exit, Unbound, LoadOnly, users, BeepTypes
<1>3. \/ loading' = [loading EXCEPT ![d] = IF loading[d] = "waiting" THEN "chrdev" ELSE loading[d]] /\ UNCHANGED <<class, chrdev>>
      \/ Moves(d, "in", "waiting") /\ class' = Nobody /\ chrdev' = Nobody
      \/ UNCHANGED <<loading, class, chrdev>>
  BY DEF hello_init, hello_exit, Unbound
<1>4. "in" \in Stages /\ "waiting" \in Stages /\ "chrdev" \in Stages
  BY DEF Stages
<1>5. CASE loading' = [loading EXCEPT ![d] = IF loading[d] = "waiting" THEN "chrdev" ELSE loading[d]] /\ UNCHANGED <<class, chrdev>>
  <2>1. /\ loading' \in [Drivers -> Stages] /\ \A e \in Drivers : e # d => loading'[e] = loading[e]
        /\ loading'[d] = IF loading[d] = "waiting" THEN "chrdev" ELSE loading[d]
    BY <1>1, <1>4, <1>5 DEF BeepTypes
  <2>2. BeepTypes'
    BY <1>1, <1>2, <1>5, <2>1 DEF BeepTypes
  <2>3. ClassOwned'
    BY <1>5, <2>1 DEF ClassOwned, Inits
  <2>4. NumberLeads'
    BY <1>5, <2>1 DEF NumberLeads, BeepTypes
  <2> QED
    BY <2>2, <2>3, <2>4
<1>6. CASE Moves(d, "in", "waiting") /\ class' = Nobody /\ chrdev' = Nobody
  <2>1. /\ loading' \in [Drivers -> Stages] /\ \A e \in Drivers : e # d => loading'[e] = loading[e]
        /\ loading'[d] = "waiting" /\ loading[d] = "in"
    BY <1>1, <1>4, <1>6, Moving
  <2>2. BeepTypes'
    BY <1>1, <1>2, <1>6, <2>1 DEF BeepTypes
  <2>3. ClassOwned'
    <3>1. \A e \in Drivers : e # d => loading[e] \notin {"device", "in"} \cup Inits
      BY <1>1, <2>1 DEF ClassOwned
    <3> QED
      BY <1>6, <2>1, <3>1, DriverNames DEF ClassOwned, Inits
  <2>4. NumberLeads'
    BY <1>6 DEF NumberLeads
  <2> QED
    BY <2>2, <2>3, <2>4
<1>7. CASE UNCHANGED <<loading, class, chrdev>>
  BY <1>1, <1>2, <1>7 DEF BeepTypes, ClassOwned, NumberLeads
<1> QED
  BY <1>3, <1>5, <1>6, <1>7

(* What is played.                                                         *)
Playing == FilesHeld /\ Sounds /\ PeriodSet /\ HalfDuty

(* A step that neither begins nor ends a set-up of the timer.              *)
LEMMA NoSetUp ==
  ASSUME BeepInv, ~oops' => ~oops, UNCHANGED <<tcntb, tcmpb, note, begun, ended>>,
         \A p \in Programs : at'[p] = "compare" <=> at[p] = "compare",
         \A d \in Drivers : loading'[d] = "compare" <=> loading[d] = "compare"
  PROVE  PeriodSet' /\ HalfDuty'
<1>1. Between(begun)' <=> Between(begun)
  BY DEF Between
<1> QED
  BY <1>1 DEF BeepInv, PeriodSet, HalfDuty

LEMMA LoadingPlays ==
  ASSUME BeepInv,
         \/ hello_init \/ hello_exit
         \/ \E d \in Drivers : \/ beep_init(d) \/ RegisterChrdev(d) \/ ClassCreate(d) \/ DeviceCreate(d)
                               \/ MapRegisters(d) \/ InitControl(d) \/ beep_exit(d)
  PROVE  Playing'
<1> USE DEF BeepInv
<1>1. UNCHANGED <<tcntb, tcmpb, at, note, begun, ended, oops>> /\ tcon' \in {tcon, "update"}
  BY DEF hello_init, hello_exit, beep_init, RegisterChrdev, ClassCreate, DeviceCreate, MapRegisters,
         InitControl, beep_exit, LoadOnly, users, timer, setups
<1>2. UNCHANGED file \/ \E d \in Drivers : Orphan(d)
  BY DEF hello_init, hello_exit, beep_init, RegisterChrdev, ClassCreate, DeviceCreate, MapRegisters,
         InitControl, beep_exit, LoadOnly, users
<1>3. \A p \in Programs : file[p] # Nobody => file'[p] # Nobody
  BY <1>2 DEF Orphan, Nobody
<1>4. ASSUME NEW d \in Drivers PROVE loading'[d] = "compare" <=> loading[d] = "compare"
  <2>1. \/ UNCHANGED loading
        \/ loading' = [loading EXCEPT !["platform"] = IF loading["platform"] = "waiting" THEN "chrdev"
                                                    ELSE loading["platform"]]
        \/ \E c \in Drivers \cup {"platform"}, from, to \in Stages \ {"compare"} : Moves(c, from, to)
    <3>1. \A c : Unloaded(c) \in {"out", "waiting"}
      BY DEF Unloaded
    <3>2. CASE hello_init \/ hello_exit
      BY <3>2 DEF hello_init, hello_exit, Stages, Inits
    <3>3. ASSUME NEW c \in Drivers,
                 \/ beep_init(c) \/ RegisterChrdev(c) \/ ClassCreate(c) \/ DeviceCreate(c)
                 \/ MapRegisters(c) \/ InitControl(c) \/ beep_exit(c)
          PROVE  \E from, to \in Stages \ {"compare"} : Moves(c, from, to)
      BY <3>1, <3>3 DEF beep_init, RegisterChrdev, ClassCreate, DeviceCreate, MapRegisters, InitControl,
                        beep_exit, Stages, Inits
    <3> QED
      BY <3>2, <3>3
  <2> QED
    BY <2>1 DEF Moves, BeepTypes
<1>5. PeriodSet' /\ HalfDuty'
  BY <1>1, <1>4, NoSetUp
<1>6. FilesHeld'
  BY <1>1, <1>3 DEF FilesHeld
<1>7. Sounds'
  BY <1>1, <1>3 DEF Sounds
<1> QED
  BY <1>5, <1>6, <1>7 DEF Playing

(* The driver sets the timer up, one register after the other.             *)
LEMMA HardwarePlays ==
  ASSUME BeepInv, NEW d \in Drivers, InitPeriod(d) \/ InitCompare(d)
  PROVE  Playing'
<1> USE DEF BeepInv
<1>1. UNCHANGED <<tcon, file, at, note, oops>>
  BY DEF InitPeriod, InitCompare, users
<1>2. FilesHeld' /\ Sounds'
  BY <1>1 DEF FilesHeld, Sounds
<1>3. CASE InitPeriod(d)
  <2>1. tcntb' = 500 /\ begun' = d
    BY <1>3 DEF InitPeriod
  <2>2. loading'[d] = "compare"
    <3>1. Moves(d, "period", "compare") /\ "compare" \in Stages
      BY <1>3 DEF InitPeriod, Stages, Inits
    <3> QED
      BY <3>1, Moving
  <2>3. Between(begun)' /\ begun' \in Drivers
    BY <2>1, <2>2 DEF Between
  <2>4. PeriodSet' /\ HalfDuty'
    BY <1>1, <2>1, <2>3 DEF PeriodSet, HalfDuty
  <2> QED
    BY <1>2, <2>4 DEF Playing
<1>4. CASE InitCompare(d)
  <2>1. tcmpb' = 250 /\ ended' = d /\ UNCHANGED <<tcntb, begun>>
    BY <1>4 DEF InitCompare
  <2>2. loading[d] = "compare" /\ loading'[d] = "control"
        /\ \A e \in Drivers : e # d => loading'[e] = loading[e]
    <3>1. Moves(d, "compare", "control") /\ "control" \in Stages
      BY <1>4 DEF InitCompare, Stages, Inits
    <3> QED
      BY <3>1, Moving
  <2>3. CASE begun = d
    <3>1. Between(begun) /\ ~Between(begun)'
      BY <2>1, <2>2, <2>3 DEF Between
    <3>2. ~oops => tcntb = 500
      BY <2>3, <3>1 DEF PeriodSet
    <3>3. PeriodSet'
      BY <1>1, <3>1 DEF PeriodSet
    <3>4. HalfDuty'
      BY <1>1, <2>1, <3>2 DEF HalfDuty
    <3> QED
      BY <1>2, <3>3, <3>4 DEF Playing
  <2>4. CASE begun # d
    <3>1. Between(begun)' <=> Between(begun)
      BY <1>1, <2>1, <2>2, <2>4 DEF Between
    <3>2. PeriodSet'
      BY <1>1, <2>1, <3>1 DEF PeriodSet
    <3>3. HalfDuty'
      BY <2>1, <2>4 DEF HalfDuty
    <3> QED
      BY <1>2, <3>2, <3>3 DEF Playing
  <2> QED
    BY <2>3, <2>4
<1> QED
  BY <1>3, <1>4

(* A program goes from one place to another, the others stay.              *)
LEMMA Going ==
  ASSUME BeepTypes, NEW p \in Programs, NEW from, NEW to, Goes(p, from, to)
  PROVE  at[p] = from /\ at'[p] = to /\ \A q \in Programs : q # p => at'[q] = at[q]
BY DEF Goes, BeepTypes

Places == {"open", "note", "compare", "on", "off", "sleep"}
LEMMA OpenPlays ==
  ASSUME BeepInv, NEW p \in Programs, Open(p)
  PROVE  BeepTypes' /\ Playing'
<1> USE DEF BeepInv
<1> DEFINE to == First(p)
<1>1. to \in {"note", "on", "sleep"} /\ Goes(p, "open", to)
  BY DEF Open, First
<1> HIDE DEF to
<1>2. at[p] = "open" /\ at'[p] = to /\ (\A q \in Programs : q # p => at'[q] = at[q])
      /\ at' \in [Programs -> Places]
  BY <1>1, Going DEF Goes, BeepTypes, Places
<1>3. /\ chrdev # Nobody /\ chrdev \in Drivers /\ file' = [file EXCEPT ![p] = chrdev]
      /\ UNCHANGED <<loads, tcntb, tcmpb, note, begun, ended>>
  BY DEF Open, BeepTypes, setups
<1>4. file'[p] = chrdev /\ \A q \in Programs : q # p => file'[q] = file[q]
  BY <1>3 DEF BeepTypes
<1>5. /\ tcon' = tcon \/ tcon' = "running"
      /\ oops' = oops \/ (oops' = TRUE /\ tcon' = tcon)
  BY DEF Open, Control
<1>6. BeepTypes'
  BY <1>2, <1>3 DEF BeepTypes, loads, Places
<1>7. FilesHeld'
  BY <1>1, <1>2, <1>3, <1>4 DEF FilesHeld
<1>8. Sounds'
  BY <1>3, <1>4 DEF Sounds
<1>9. \A q \in Programs : at'[q] = "compare" <=> at[q] = "compare"
  BY <1>1, <1>2
<1>10. ~oops' => ~oops
  BY <1>5
<1>11. PeriodSet' /\ HalfDuty'
  BY <1>3, <1>9, <1>10, NoSetUp DEF loads
<1> QED
  BY <1>6, <1>7, <1>8, <1>11 DEF Playing

LEMMA PeriodPlays ==
  ASSUME BeepInv, NEW p \in Programs, FreqPeriod(p)
  PROVE  BeepTypes' /\ Playing'
<1> USE DEF BeepInv
<1>1. Goes(p, "note", "compare") /\ begun' = p /\ UNCHANGED <<loads, tcon, tcmpb, file, ended>>
  BY DEF FreqPeriod
<1>2. at[p] = "note" /\ at'[p] = "compare" /\ (\A q \in Programs : q # p => at'[q] = at[q])
      /\ at' \in [Programs -> Places]
  BY <1>1, Going DEF Goes, BeepTypes, Places
<1>3. PICK pitch \in Pitches :
        /\ note' = [note EXCEPT ![p] = pitch]
        /\ IF Valid(file[p]) THEN tcntb' = BEPP_IN_FREQ \div pitch /\ UNCHANGED oops
           ELSE oops' = TRUE /\ UNCHANGED tcntb
  BY DEF FreqPeriod
<1>4. oops' = oops \/ oops' = TRUE
  BY <1>3
<1>10. note'[p] = pitch /\ (\A q \in Programs : q # p => note'[q] = note[q]) /\ note' \in [Programs -> Nat]
  BY <1>3, BeepAssumption DEF BeepTypes
<1>5. BeepTypes'
  BY <1>1, <1>2, <1>10 DEF BeepTypes, loads, Places
<1>6. FilesHeld'
  BY <1>1, <1>2 DEF FilesHeld
<1>7. Sounds'
  BY <1>1, <1>4 DEF Sounds
<1>11. p \notin Drivers /\ Between(begun)'
  BY <1>1, <1>2, DriverNames DEF Between
<1>8. PeriodSet'
  <2>1. \A q \in Programs : at'[q] = "compare" => note'[q] \in Pitches
    BY <1>2, <1>10 DEF PeriodSet
  <2>2. ~oops' => tcntb' = BEPP_IN_FREQ \div pitch
    BY <1>3
  <2> QED
    BY <1>1, <1>10, <1>11, <2>1, <2>2 DEF PeriodSet
<1>9. HalfDuty'
  BY <1>11 DEF HalfDuty
<1> QED
  BY <1>5, <1>6, <1>7, <1>8, <1>9 DEF Playing

LEMMA ComparePlays ==
  ASSUME BeepInv, NEW p \in Programs, beep_freq(p)
  PROVE  BeepTypes' /\ Playing'
<1> USE DEF BeepInv
<1>1. Goes(p, "compare", "on") /\ ended' = p /\ UNCHANGED <<loads, tcon, tcntb, file, begun>>
      /\ note' = [note EXCEPT ![p] = 0]
  BY DEF beep_freq
<1>2. at[p] = "compare" /\ at'[p] = "on" /\ (\A q \in Programs : q # p => at'[q] = at[q])
      /\ at' \in [Programs -> Places]
  BY <1>1, Going DEF Goes, BeepTypes, Places
<1>3. (\A q \in Programs : q # p => note'[q] = note[q]) /\ note' \in [Programs -> Nat]
  BY <1>1 DEF BeepTypes
<1>4. oops' = oops \/ oops' = TRUE
  BY DEF beep_freq
<1>5. BeepTypes'
  BY <1>1, <1>2, <1>3 DEF BeepTypes, loads, Places
<1>6. FilesHeld'
  BY <1>1, <1>2 DEF FilesHeld
<1>7. Sounds'
  BY <1>1, <1>4 DEF Sounds
<1>10. \A q \in Programs : at'[q] = "compare" => note'[q] \in Pitches
  BY <1>2, <1>3 DEF PeriodSet
\* The set-up that began last ends.
<1>8. CASE begun = p
  <2>1. p \notin Drivers /\ Between(begun) /\ ~Between(begun)'
    BY <1>1, <1>2, <1>8, DriverNames DEF Between
  <2>2. PeriodSet'
    BY <1>10, <2>1 DEF PeriodSet
  <2>3. HalfDuty'
    <3> SUFFICES ASSUME ~oops' PROVE 2 * tcmpb' \in {tcntb', tcntb' - 1}
      BY DEF HalfDuty
    <3> DEFINE n == note[p]
    <3>1. n \in Pitches /\ tcntb' = BEPP_IN_FREQ \div n
      BY <1>1, <1>2, <1>4, <1>8, <2>1 DEF PeriodSet
    <3>2. tcmpb' = BEPP_IN_FREQ \div (2 * n)
      BY DEF beep_freq
    <3> HIDE DEF n
    <3>3. n \in Nat \ {0} /\ BEPP_IN_FREQ \in Nat
      BY <3>1, BeepAssumption DEF BEPP_IN_FREQ
    <3> QED
      BY <3>1, <3>2, <3>3, HalfPeriod
  <2> QED
    BY <1>5, <1>6, <1>7, <2>2, <2>3 DEF Playing
\* Another set-up has begun since.
<1>9. CASE begun # p
  <2>1. Between(begun)' <=> Between(begun)
    BY <1>1, <1>2, <1>9 DEF Between, loads
  <2>2. begun \notin Drivers /\ Between(begun) => note'[begun] = note[begun]
    BY <1>3, <1>9 DEF Between
  <2>3. PeriodSet'
    BY <1>1, <1>4, <1>10, <2>1, <2>2 DEF PeriodSet
  <2>4. HalfDuty'
    BY <1>1, <1>9 DEF HalfDuty
  <2> QED
    BY <1>5, <1>6, <1>7, <2>3, <2>4 DEF Playing
<1> QED
  BY <1>8, <1>9

LEMMA IoctlPlays ==
  ASSUME BeepInv, NEW p \in Programs, IoctlOn(p) \/ IoctlOff(p)
  PROVE  BeepTypes' /\ Playing'
<1> USE DEF BeepInv
<1>1. UNCHANGED <<loads, tcntb, tcmpb, file, note, begun, ended>>
  BY DEF IoctlOn, IoctlOff, setups
<1>2. PICK to \in {"off", "note", "sleep"} : Goes(p, "on", to) \/ Goes(p, "off", to)
  BY DEF IoctlOn, IoctlOff
<1>3. at[p] \in {"on", "off"} /\ at'[p] = to /\ (\A q \in Programs : q # p => at'[q] = at[q])
      /\ at' \in [Programs -> Places]
  BY <1>2, Going DEF Goes, BeepTypes, Places
<1>4. oops' = oops \/ oops' = TRUE
  BY DEF IoctlOn, IoctlOff, Control
<1>5. BeepTypes'
  BY <1>1, <1>3 DEF BeepTypes, loads, Places
<1>6. FilesHeld'
  BY <1>1, <1>2, <1>3 DEF FilesHeld
<1>7. Sounds'
  BY <1>1, <1>3 DEF Sounds, FilesHeld
<1>8. \A q \in Programs : at'[q] = "compare" <=> at[q] = "compare"
  BY <1>2, <1>3
<1>9. PeriodSet' /\ HalfDuty'
  BY <1>1, <1>4, <1>8, NoSetUp DEF loads
<1> QED
  BY <1>5, <1>6, <1>7, <1>9 DEF Playing

LEMMA ReleasePlays ==
  ASSUME BeepInv, NEW p \in Programs, Release(p)
  PROVE  BeepTypes' /\ Playing'
<1> USE DEF BeepInv
<1>1. /\ at[p] # "compare" /\ file' = [file EXCEPT ![p] = Nobody] /\ at' = [at EXCEPT ![p] = "open"]
      /\ UNCHANGED <<loads, tcntb, tcmpb, note, begun, ended>> /\ Control(file[p], "stopped")
  BY DEF Release, setups
<1>2. /\ at'[p] = "open" /\ (\A q \in Programs : q # p => at'[q] = at[q] /\ file'[q] = file[q])
      /\ at' \in [Programs -> Places]
  BY <1>1 DEF BeepTypes, Places
<1>3. \/ tcon' = "stopped" /\ oops' = oops
      \/ oops' = TRUE
  BY <1>1 DEF Control
<1>4. BeepTypes'
  BY <1>1, <1>2 DEF BeepTypes, loads, Places
<1>5. FilesHeld'
  BY <1>2 DEF FilesHeld
<1>6. Sounds'
  BY <1>3 DEF Sounds
<1>7. \A q \in Programs : at'[q] = "compare" <=> at[q] = "compare"
  BY <1>1, <1>2
<1>8. PeriodSet' /\ HalfDuty'
  BY <1>1, <1>3, <1>7, NoSetUp DEF loads
<1> QED
  BY <1>4, <1>5, <1>6, <1>8 DEF Playing

LEMMA BeepStep == BeepInv /\ [BeepNext]_beepVars => BeepInv'
<1> SUFFICES ASSUME BeepInv, [BeepNext]_beepVars PROVE BeepInv'
  OBVIOUS
<1>1. CASE UNCHANGED beepVars
  <2>1. UNCHANGED <<file, at, note, tcon, tcntb, tcmpb, begun, ended, oops, loading>>
    BY <1>1 DEF beepVars, users, loads, timer, setups
  <2>2. PeriodSet' /\ HalfDuty'
    BY <2>1, NoSetUp
  <2>3. FilesHeld' /\ Sounds'
    BY <2>1 DEF BeepInv, FilesHeld, Sounds
  <2> QED
    BY <1>1, <2>2, <2>3 DEF beepVars, users, loads, BeepInv, BeepTypes, ClassOwned, NumberLeads
<1>2. ASSUME NEW p \in Programs,
             Open(p) \/ FreqPeriod(p) \/ beep_freq(p) \/ IoctlOn(p) \/ IoctlOff(p) \/ Release(p)
      PROVE  BeepInv'
  <2>1. BeepTypes' /\ Playing'
    BY <1>2, OpenPlays, PeriodPlays, ComparePlays, IoctlPlays, ReleasePlays
  <2>2. UNCHANGED <<loading, class, chrdev>>
    BY <1>2 DEF Open, FreqPeriod, beep_freq, IoctlOn, IoctlOff, Release, loads
  <2> QED
    BY <2>1, <2>2 DEF BeepInv, Playing, ClassOwned, NumberLeads
<1>3. ASSUME NEW d \in Drivers,
             \/ beep_init(d) \/ RegisterChrdev(d) \/ ClassCreate(d)
             \/ DeviceCreate(d) \/ beep_exit(d)
             \/ MapRegisters(d) \/ InitPeriod(d) \/ InitCompare(d) \/ InitControl(d)
      PROVE  BeepInv'
  <2>1. Playing'
    BY <1>3, LoadingPlays, HardwarePlays
  <2>2. BeepTypes' /\ ClassOwned' /\ NumberLeads'
    BY <1>3, BeepInits, Registers, Creates, Exits
  <2> QED
    BY <2>1, <2>2 DEF BeepInv, Playing
<1>4. CASE hello_init \/ hello_exit
  BY <1>4, LoadingPlays, Hellos DEF BeepInv, Playing
<1> QED
  BY <1>1, <1>2, <1>3, <1>4 DEF BeepNext

LEMMA AlwaysBeeps == BeepSpec => []BeepInv
BY BeepStarts, BeepStep, PTL DEF BeepSpec

(* Silence when all files are closed, and a clean tone when the set-up of  *)
(* the timer that began last is the one that ended last, however the two   *)
(* writes of players, any number of them, and of a driver that is still    *)
(* loading fall between each other, whoever is killed, and whatever is     *)
(* unloaded under them (beep_release, beep_freq, fs4412_beep_init).        *)
THEOREM SoundsRight == BeepSpec => []ToneRight
<1>1. BeepInv => ToneRight
  BY DEF BeepInv, ToneRight, SilentWhenClosed, Sounds
<1> QED
  BY <1>1, AlwaysBeeps, PTL

(* Of the two drivers one is in at a time, and major 250 leads to none     *)
(* that has gone, whatever fails in loading them and in whatever order     *)
(* they come and go (beep_init, beep_probe).                               *)
THEOREM OneDriver == BeepSpec => []OneDriverIn
<1>1. BeepInv => OneDriverIn
  BY DEF BeepInv, OneDriverIn, ClassOwned, NumberLeads
<1> QED
  BY <1>1, AlwaysBeeps, PTL

-----------------------------------------------------------------------------
(* The display controller                                                  *)

(* The display and its registers.  What the driver sets up on the way from *)
(* probe to remove is for the one default display.                         *)
Line == (display.xres * display.bpp) \div 8
Largest == MaxOf({SmemLen(displays[i]) : i \in DOMAIN displays})
OnBoard == displays \in Boards /\ \E i \in DOMAIN displays : display = displays[i]
Cons ==
  [type : {display.type}, bpp : SUBSET {display.bpp}, clkval : SUBSET {ClkDiv(display.type)},
   envid : BOOLEAN]
Lives == {"absent", "failed", "probing", "bound", "suspended", "unregistered", "disabled",
          "released", "oops"}
LcdTypes ==
  /\ OnBoard /\ fb \in Lives /\ step \in 1 .. 9
  /\ DOMAIN regs = {"lcdcon1", "line_length", "smem_len", "visual", "fields"}
  /\ regs.lcdcon1 \in Cons \cup {None} /\ regs.line_length \in {0, Line}
  /\ DOMAIN hw = {"lcdcon1", "saddr", "tpal", "masked", "pal"}
  /\ hw.lcdcon1 \in Cons \cup {None}
  /\ hw.saddr \in {<<0, 0>>, <<0, (Line * display.yres) \div 2>>}
  /\ hw.masked \in BOOLEAN /\ hw.pal \in [PaletteRegs -> Int]
  /\ palette_buffer \in [PaletteRegs -> Int] /\ asked \in [PaletteRegs -> Int]
  /\ palette_ready \in BOOLEAN /\ slept \in BOOLEAN

(* What is held when, and that the controller is on only while all is.     *)
Backed ==
  /\ fb = "probing" =>
       /\ step > 1 => "fbinfo" \in held
       /\ step > 5 => "base" \in held
       /\ step > 6 => "clock" \in held
       /\ step > 8 => "video" \in held
  /\ fb \in {"bound", "unregistered", "suspended"} => {"fbinfo", "base", "video"} \subseteq held
  /\ fb \in {"bound", "unregistered"} => "clock" \in held
  /\ Envid(hw.lcdcon1) => fb \in {"bound", "unregistered"}

(* init_registers has run, and until set_par there is no line length.      *)
SetUp ==
  /\ (fb = "probing" /\ step > 8) \/ fb \in {"bound", "unregistered", "suspended"} =>
       regs.lcdcon1 # None /\ regs.smem_len = Largest
  /\ fb = "probing" /\ step > 8 => regs.line_length = 0
  /\ fb = "bound" /\ regs.line_length # 0 =>
       /\ hw.lcdcon1 = regs.lcdcon1 /\ regs.lcdcon1.clkval = {ClkDiv(display.type)}
       /\ hw.saddr[2] = (regs.line_length * display.yres) \div 2

(* An entry that waits has the value last asked for, one that does not has *)
(* been written, unless setcolreg is at it.                                *)
BeingSet(i) == setting # None /\ setting[1] = i
PaletteInv ==
  /\ setting # None =>
       /\ fb = "bound"
       /\ setting = <<setting[1], setting[2]>> /\ setting[1] \in PaletteRegs /\ setting[2] \in Nat
  /\ \A i \in PaletteRegs :
       /\ palette_buffer[i] # CLEAR => palette_buffer[i] = asked[i] /\ palette_ready
       /\ palette_buffer[i] = CLEAR /\ ~BeingSet(i) => hw.pal[i] \in {asked[i], 0}
  /\ palette_ready => ~hw.masked \/ slept

LcdInv == LcdTypes /\ Backed /\ SetUp /\ PaletteInv

-----------------------------------------------------------------------------
LEMMA ConIsSome == \A c \in Cons : c # None /\ (Envid(c) <=> c.envid = TRUE)
<1> SUFFICES ASSUME NEW c \in Cons PROVE c # None /\ (Envid(c) <=> c.envid = TRUE)
  OBVIOUS
<1>1. "type" \in DOMAIN c /\ c.envid \in BOOLEAN
  BY DEF Cons
<1>2. DOMAIN None = {}
  <2>1. DOMAIN None = 1 .. 0
    BY DEF None
  <2> QED
    BY <2>1
<1>3. c # None
  BY <1>1, <1>2
<1> QED
  BY <1>1, <1>3 DEF Envid

LEMMA NoneIsOff == ~Envid(None)
BY DEF Envid

LEMMA FrameSizes ==
  ASSUME OnBoard
  PROVE  /\ display.bpp \in Nat /\ display.xres \in Nat /\ display.yres \in Nat
         /\ Line \in Nat /\ 8 * Line <= display.xres * display.bpp
<1>1. display.bpp \in Nat /\ display.xres \in Nat /\ display.yres \in Nat
  BY LcdAssumption DEF OnBoard
<1> DEFINE x == display.xres  b == display.bpp
<1>2. x * b \in Nat
  BY <1>1
<1> DEFINE n == x * b
<1> HIDE DEF n
<1>3. n \in Nat
  BY <1>2 DEF n
<1>4. n \div 8 \in Nat /\ 8 * (n \div 8) <= n
  BY <1>3
<1> QED
  BY <1>1, <1>4 DEF Line, n

(* A finite set of numbers that has one has a largest.                     *)
LEMMA MaxIs ==
  ASSUME NEW S \in SUBSET Nat, IsFiniteSet(S), S # {}
  PROVE  MaxOf(S) \in S /\ \A y \in S : y <= MaxOf(S)
<1> DEFINE Top(T) == \E x \in T : \A y \in T : y <= x
           Bad == {T \in SUBSET S : T # {} /\ ~Top(T)}
<1>1. Bad = {}
  <2> SUFFICES ASSUME Bad # {} PROVE FALSE
    OBVIOUS
  <2>1. Bad \subseteq FiniteSubsetsOf(S)
    BY FS_Subset DEF FiniteSubsetsOf
  <2>2. PICK T \in Bad : \A U \in Bad : <<U, T>> \notin StrictSubsetOrdering(S)
    <3> HIDE DEF Bad
    <3> QED
      BY <2>1, FS_StrictSubsetOrderingWellFounded, WFMin
  <2>3. PICK x \in T : TRUE
    OBVIOUS
  <2> DEFINE U == T \ {x}
  <2>4. U \notin Bad
    <3>1. U \in SUBSET S /\ T \in SUBSET S /\ U \subseteq T /\ U # T
      BY <2>3
    <3>2. <<U, T>> \in StrictSubsetOrdering(S) \/ U \notin Bad
      <4> HIDE DEF U, Bad
      <4>1. CASE U \in Bad
        BY <2>1, <3>1, <4>1, <2>2 DEF StrictSubsetOrdering
      <4> QED
        BY <4>1
    <3> HIDE DEF U, Bad
    <3> QED
      BY <2>2, <3>2
  <2>5. \A n \in T : n \in Nat
    OBVIOUS
  <2>6. CASE U = {}
    <3>1. \A y \in T : y = x
      BY <2>6
    <3>2. Top(T)
      BY <2>3, <2>5, <3>1
    <3> QED
      BY <3>2
  <2>7. CASE U # {}
    <3>1. Top(U)
      BY <2>4, <2>7
    <3>2. PICK z \in U : \A y \in U : y <= z
      BY <3>1
    <3>3. \A y \in T : y = x \/ y <= z
      BY <3>2
    <3>4. x <= z \/ z <= x
      BY <2>3, <2>5, <3>2
    <3>5. Top(T)
      <4>1. CASE x <= z
        BY <3>2, <3>3, <4>1
      <4>2. CASE z <= x
        BY <2>3, <2>5, <3>2, <3>3, <4>2
      <4> QED
        BY <3>4, <4>1, <4>2
    <3> QED
      BY <3>5
  <2> QED
    BY <2>6, <2>7
<1>2. \E x \in S : \A y \in S : y <= x
  BY <1>1
<1> QED
  BY <1>2 DEF MaxOf

(* The video memory is for the largest of the board's displays.            *)
LEMMA LargestIs ==
  ASSUME OnBoard
  PROVE  Largest \in Nat /\ SmemLen(display) <= Largest
<1> DEFINE D == DOMAIN displays
           f == [i \in D |-> SmemLen(displays[i])]
           S == {f[i] : i \in D}
<1>1. \A i \in D : SmemLen(displays[i]) \in Nat
  <2> SUFFICES ASSUME NEW i \in D PROVE SmemLen(displays[i]) \in Nat
    OBVIOUS
  <2> DEFINE d == displays[i]
  <2>1. d.bpp \in Nat /\ d.xres \in Nat /\ d.yres \in Nat
    BY LcdAssumption DEF OnBoard
  <2>2. d.xres * d.yres \in Nat
    BY <2>1
  <2> DEFINE n == d.xres * d.yres
             m == n * d.bpp
  <2>3. m \in Nat
    <3> HIDE DEF n
    <3> QED
      BY <2>1, <2>2 DEF n
  <2>4. m \div 8 \in Nat
    <3> HIDE DEF m
    <3> QED
      BY <2>3
  <2> QED
    BY <2>4 DEF SmemLen
<1>2. IsFiniteSet(D)
  <2>1. D = 1 .. Len(displays) /\ Len(displays) \in Nat
    BY LcdAssumption DEF OnBoard
  <2> QED
    BY <2>1, FS_Interval
<1>3. S \in SUBSET Nat /\ IsFiniteSet(S)
  <2>1. S \in SUBSET Nat
    BY <1>1
  <2>2. f \in Surjection(D, S)
    <3> HIDE DEF D
    <3> QED
      BY DEF Surjection
  <2> HIDE DEF f, S
  <2> QED
    BY <1>2, <2>1, <2>2, FS_Surjection
<1>4. SmemLen(display) \in S
  BY DEF OnBoard
<1>5. S = {SmemLen(displays[i]) : i \in DOMAIN displays}
  OBVIOUS
<1> HIDE DEF S
<1>6. MaxOf(S) \in S /\ \A y \in S : y <= MaxOf(S)
  BY <1>3, <1>4, MaxIs
<1> QED
  BY <1>3, <1>4, <1>5, <1>6 DEF Largest

(* The frames fit into the video memory.                                   *)
LEMMA FrameFits ==
  ASSUME OnBoard
  PROVE  2 * ((Line * display.yres) \div 2) <= Largest /\ (Line * display.yres) \div 2 \in Nat
<1> DEFINE x == display.xres  b == display.bpp  y == display.yres  l == Line
<1>1. x \in Nat /\ b \in Nat /\ y \in Nat /\ l \in Nat /\ 8 * l <= x * b
  BY FrameSizes
<1>2. SmemLen(display) = (x * y * b) \div 8
  BY DEF SmemLen
<1> HIDE DEF x, b, y, l
<1>3. l * y \in Nat /\ x * b \in Nat /\ x * y \in Nat
  BY <1>1
<1>4. 8 * (l * y) <= x * y * b
  <2> DEFINE n == x * b
  <2>1. n \in Nat /\ 8 * l <= n
    BY <1>1, <1>3
  <2> HIDE DEF n
  <2>2. PICK d \in Nat : n = 8 * l + d
    <3>1. n - 8 * l \in Nat /\ n = 8 * l + (n - 8 * l)
      BY <1>1, <2>1
    <3> QED
      BY <3>1
  <2>3. n * y = 8 * (l * y) + d * y /\ d * y \in Nat /\ n * y \in Nat
    BY <1>1, <2>2
  <2>4. n * y = x * y * b
    BY <1>1 DEF n
  <2> QED
    BY <1>3, <2>3, <2>4
<1> DEFINE a == l * y
           m == x * y * b
<1>5. a \in Nat /\ m \in Nat /\ 8 * a <= m
  BY <1>1, <1>3, <1>4
<1> HIDE DEF a, m
<1>6. 2 * (a \div 2) <= m \div 8 /\ a \div 2 \in Nat /\ m \div 8 \in Nat
  BY <1>5
<1>7. m \div 8 <= Largest /\ Largest \in Nat
  BY <1>2, LargestIs DEF m
<1>8. 2 * (a \div 2) <= Largest /\ a \div 2 \in Nat
  <2> DEFINE q == a \div 2
  <2>1. q \in Nat /\ 2 * q <= m \div 8
    BY <1>6
  <2> DEFINE r == m \div 8
  <2>2. r \in Nat /\ r <= Largest /\ 2 * q <= r
    BY <1>6, <1>7, <2>1
  <2> HIDE DEF q, r
  <2> QED
    BY <1>7, <2>1, <2>2 DEF q
<1> QED
  BY <1>8 DEF a, l, y

-----------------------------------------------------------------------------
Fields5 == {"lcdcon1", "line_length", "smem_len", "visual", "fields"}
Hw5 == {"lcdcon1", "saddr", "tpal", "masked", "pal"}

LEMMA BoardStays ==
  ASSUME UNCHANGED board
  PROVE  /\ OnBoard' = OnBoard /\ Line' = Line /\ Largest' = Largest /\ Cons' = Cons
         /\ ClkDiv(display.type)' = ClkDiv(display.type) /\ display' = display
<1>1. display' = display /\ displays' = displays
  BY DEF board
<1>2. ClkDiv(display.type)' = ClkDiv(display.type)
  BY <1>1 DEF ClkDiv, calc_pixclk
<1> QED
  BY <1>1, <1>2 DEF OnBoard, Line, Largest, Cons

LEMMA LcdStarts == LcdInit => LcdInv
<1> SUFFICES ASSUME LcdInit PROVE LcdInv
  OBVIOUS
<1>1. OnBoard
  BY DEF LcdInit, OnBoard
<1>2. Line \in Nat
  BY <1>1, FrameSizes
<1>3. ~Envid(hw.lcdcon1)
  BY NoneIsOff DEF LcdInit, Reset
<1>4. LcdTypes
  <2>1. DOMAIN regs = {"lcdcon1", "line_length", "smem_len", "visual", "fields"}
        /\ regs.lcdcon1 = None /\ regs.line_length = 0
    BY DEF LcdInit
  <2>2. DOMAIN hw = {"lcdcon1", "saddr", "tpal", "masked", "pal"}
        /\ hw.lcdcon1 = None /\ hw.saddr = <<0, 0>> /\ hw.masked = TRUE /\ hw.pal = [i \in PaletteRegs |-> 0]
    BY DEF LcdInit, Reset
  <2>3. palette_buffer \in [PaletteRegs -> Int] /\ asked \in [PaletteRegs -> Int] /\ hw.pal \in [PaletteRegs -> Int]
    BY <2>2 DEF LcdInit, CLEAR
  <2>4. fb \in Lives /\ step = 1 /\ palette_ready = FALSE /\ slept = FALSE
    BY DEF LcdInit, Lives
  <2>5. hw.masked \in BOOLEAN /\ palette_ready \in BOOLEAN /\ slept \in BOOLEAN
    BY <2>2, <2>4, Zenon
  <2>7. step \in 1 .. 9
    BY <2>4
  <2>6. /\ regs.lcdcon1 \in Cons \cup {None} /\ regs.line_length \in {0, Line}
        /\ hw.lcdcon1 \in Cons \cup {None}
        /\ hw.saddr \in {<<0, 0>>, <<0, (Line * display.yres) \div 2>>}
    BY <2>1, <2>2
  <2> QED
    BY <1>1, <2>1, <2>2, <2>3, <2>4, <2>5, <2>6, <2>7 DEF LcdTypes
<1>5. Backed /\ SetUp
  BY <1>3 DEF LcdInit, Backed, SetUp
<1>6. PaletteInv
  BY DEF LcdInit, PaletteInv, Reset, CLEAR
<1> QED
  BY <1>4, <1>5, <1>6 DEF LcdInv

(* The palette, when nothing touches it.                                   *)
LEMMA PaletteStays ==
  ASSUME PaletteInv, UNCHANGED <<palette_buffer, palette_ready, setting, asked>>,
         UNCHANGED slept \/ slept' = TRUE,
         hw'.pal = hw.pal, hw'.masked = hw.masked, setting # None => fb' = fb
  PROVE  PaletteInv'
BY DEF PaletteInv, BeingSet

LEMMA InitKeeps ==
  ASSUME LcdInv, lcd_init
  PROVE  LcdInv'
<1> USE DEF LcdInv
<1>1. /\ fb \in {"absent", "failed"} /\ fb' = "probing" /\ step' = 1
      /\ UNCHANGED <<held, board, regs, hw, palette, slept>>
  BY DEF lcd_init
<1>2. LcdTypes'
  BY <1>1, BoardStays DEF LcdTypes, palette, Lives
<1>3. Backed' /\ SetUp'
  BY <1>1, BoardStays DEF Backed, SetUp
<1>4. PaletteInv'
  BY <1>1, PaletteStays DEF palette, PaletteInv
<1> QED
  BY <1>2, <1>3, <1>4

LEMMA Acquisitions ==
  /\ Len(Acquired) = 9 /\ Acquired[1] = "fbinfo" /\ Acquired[5] = "base" /\ Acquired[6] = "clock"
  /\ Acquired[8] = "video"
  /\ \A n \in 1 .. 9 : Acquired[n] = "video" => n = 8
BY DEF Acquired

(* What probe prepares before the video memory.                            *)
LEMMA Prepares ==
  ASSUME LcdInv, fb = "probing", Prepare, UNCHANGED <<board, slept>>
  PROVE  /\ DOMAIN regs' = Fields5 /\ regs'.lcdcon1 \in Cons \cup {None} /\ regs'.line_length \in {0, Line}
         /\ DOMAIN hw' = Hw5 /\ hw'.lcdcon1 = hw.lcdcon1 /\ hw'.saddr = hw.saddr
         /\ hw'.masked = hw.masked /\ hw'.pal = hw.pal
         /\ palette_buffer' \in [PaletteRegs -> Int] /\ asked' \in [PaletteRegs -> Int]
         /\ palette_ready' \in BOOLEAN /\ PaletteInv'
         /\ step = 8 => regs'.lcdcon1 # None /\ regs'.smem_len = Largest /\ regs'.line_length = 0
         /\ step # 8 => regs' = regs
<1> USE DEF LcdInv
<1>1. setting = None /\ step \in 1 .. 9
  BY DEF PaletteInv, LcdTypes
<1>2. CASE step = 8
  <2>1. /\ regs' = Prepared /\ hw' = [hw EXCEPT !.tpal = FALSE]
        /\ palette_buffer' = [i \in PaletteRegs |-> CLEAR] /\ palette_ready' = FALSE
        /\ asked' = hw.pal /\ UNCHANGED setting
    BY <1>2, Acquisitions DEF Prepare
  <2> DEFINE con == [type |-> display.type, bpp |-> {}, clkval |-> {}, envid |-> FALSE]
             r == [regs EXCEPT !.line_length = 0, !.visual = "unset", !.smem_len = Largest]
  <2>2. con \in Cons
    BY DEF Cons
  <2>3. regs' = [r EXCEPT !.lcdcon1 = con, !.fields = Fields(display)]
    BY <2>1 DEF Prepared, check_var, Largest
  <2>4. DOMAIN r = Fields5 /\ r.line_length = 0 /\ r.smem_len = Largest
    BY DEF LcdTypes, Fields5
  <2> HIDE DEF con, r
  <2>5. DOMAIN regs' = Fields5 /\ regs'.lcdcon1 = con /\ regs'.line_length = 0 /\ regs'.smem_len = Largest
    BY <2>3, <2>4 DEF Fields5
  <2>6. /\ DOMAIN hw' = Hw5 /\ hw'.lcdcon1 = hw.lcdcon1 /\ hw'.saddr = hw.saddr
        /\ hw'.masked = hw.masked /\ hw'.pal = hw.pal
    BY <2>1 DEF LcdTypes, Hw5
  <2>7. palette_buffer' \in [PaletteRegs -> Int] /\ asked' \in [PaletteRegs -> Int]
    BY <2>1 DEF LcdTypes, CLEAR
  <2>8. PaletteInv'
    BY <1>1, <2>1, <2>6 DEF PaletteInv
  <2> QED
    BY <1>2, <2>1, <2>2, <2>5, <2>6, <2>7, <2>8, ConIsSome
<1>3. CASE step # 8
  <2>1. UNCHANGED <<regs, hw, palette>>
    BY <1>1, <1>3, Acquisitions DEF Prepare
  <2>2. PaletteInv'
    BY <1>1, <2>1, PaletteStays DEF palette
  <2> QED
    BY <1>3, <2>1, <2>2 DEF palette, LcdTypes, Fields5, Hw5
<1> QED
  BY <1>2, <1>3

LEMMA ProbeKeeps ==
  ASSUME LcdInv, ProbeStep \/ ProbeFail
  PROVE  LcdInv'
<1> USE DEF LcdInv
<1>1. fb = "probing" /\ Prepare /\ UNCHANGED <<board, slept>> /\ step \in 1 .. 9 /\ ~Envid(hw.lcdcon1)
  BY DEF ProbeStep, ProbeFail, LcdTypes, Backed
<1>2. /\ DOMAIN regs' = Fields5 /\ regs'.lcdcon1 \in Cons \cup {None} /\ regs'.line_length \in {0, Line}
      /\ DOMAIN hw' = Hw5 /\ hw'.lcdcon1 = hw.lcdcon1 /\ hw'.saddr = hw.saddr
      /\ hw'.masked = hw.masked /\ hw'.pal = hw.pal
      /\ palette_buffer' \in [PaletteRegs -> Int] /\ asked' \in [PaletteRegs -> Int]
      /\ palette_ready' \in BOOLEAN /\ PaletteInv'
      /\ step = 8 => regs'.lcdcon1 # None /\ regs'.smem_len = Largest /\ regs'.line_length = 0
      /\ step # 8 => regs' = regs
  BY <1>1, Prepares
<1>3. /\ fb' \in {"probing", "bound", "failed", "oops"} /\ step' \in 1 .. 9
      /\ fb' = "probing" => step < 9 /\ step' = step + 1
      /\ fb' = "bound" => step = 9
      /\ fb' \in {"probing", "bound"} => held' = held \cup ({Acquired[step]} \ Lookups)
  <2>1. CASE ProbeStep
    BY <1>1, <2>1, Acquisitions DEF ProbeStep
  <2>2. CASE ProbeFail
    BY <2>2 DEF ProbeFail
  <2> QED
    BY <2>1, <2>2
<1>4. LcdTypes'
  BY <1>1, <1>2, <1>3, BoardStays DEF LcdTypes, Lives, Fields5, Hw5
<1>5. SetUp'
  <2>1. fb' \in {"probing", "bound"} /\ step > 8 => regs'.lcdcon1 # None /\ regs'.smem_len = Largest /\ regs'.line_length = 0
    BY <1>1, <1>2 DEF SetUp
  <2>2. fb' = "probing" /\ step' > 8 => step = 8
    BY <1>1, <1>3
  <2>3. fb' = "bound" => step > 8
    BY <1>3
  <2>4. fb' \in {"probing", "bound"} \/ fb' \notin {"bound", "unregistered", "suspended", "probing"}
    BY <1>3
  <2> QED
    BY <1>1, <1>2, <2>1, <2>2, <2>3, <2>4, BoardStays DEF SetUp
<1>6. Backed'
  <2>1. ~Envid(hw'.lcdcon1)
    BY <1>1, <1>2
  <2>2. ASSUME fb' \in {"probing", "bound"}
        PROVE  /\ held \subseteq held'
               /\ step = 1 => "fbinfo" \in held' /\ step = 1
               /\ step = 5 => "base" \in held'
               /\ step = 6 => "clock" \in held'
               /\ step = 8 => "video" \in held'
    BY <1>3, <2>2, Acquisitions DEF Lookups
  <2>3. ASSUME fb' \in {"probing", "bound"}
        PROVE  /\ "fbinfo" \in held'
               /\ step > 4 => "base" \in held'
               /\ step > 5 => "clock" \in held'
               /\ step > 7 => "video" \in held'
    BY <1>1, <2>2, <2>3 DEF Backed
  <2>4. fb' = "probing" =>
          /\ step' > 1 => "fbinfo" \in held'
          /\ step' > 5 => "base" \in held'
          /\ step' > 6 => "clock" \in held'
          /\ step' > 8 => "video" \in held'
    BY <1>1, <1>3, <2>3
  <2>5. fb' = "bound" => {"fbinfo", "base", "video", "clock"} \subseteq held'
    BY <1>3, <2>3
  <2>6. fb' \notin {"unregistered", "suspended"}
    BY <1>3
  <2> QED
    BY <2>1, <2>4, <2>5, <2>6 DEF Backed
<1> QED
  BY <1>2, <1>4, <1>5, <1>6

LEMMA RemoveKeeps ==
  ASSUME LcdInv, RemoveUnregister \/ RemoveMemory \/ RemoveRest
  PROVE  LcdInv'
<1> USE DEF LcdInv
<1>1. UNCHANGED <<step, board, regs, hw, palette, slept>>
  BY DEF RemoveUnregister, RemoveMemory, RemoveRest
<1>2. setting = None
  BY DEF RemoveUnregister, RemoveMemory, RemoveRest, PaletteInv
<1>3. \/ fb = "bound" /\ fb' = "unregistered" /\ held' = held \ {"registered"}
      \/ fb = "disabled" /\ fb' = "released"
      \/ fb = "released" /\ fb' \in {"absent", "oops"}
  BY DEF RemoveUnregister, RemoveMemory, RemoveRest
<1>4. LcdTypes'
  BY <1>1, <1>3, BoardStays DEF LcdTypes, Lives, palette
<1>5. Backed'
  BY <1>1, <1>3 DEF Backed
<1>6. SetUp'
  BY <1>1, <1>3, BoardStays DEF SetUp
<1>7. PaletteInv'
  BY <1>1, <1>2, PaletteStays DEF palette, PaletteInv
<1> QED
  BY <1>4, <1>5, <1>6, <1>7

(* lcd_enable switches the copy and the controller.                        *)
LEMMA Enables ==
  ASSUME LcdTypes, regs.lcdcon1 \in Cons, NEW on \in BOOLEAN, regs' = lcd_enable(regs, on)
  PROVE  /\ DOMAIN regs' = Fields5 /\ regs'.lcdcon1 \in Cons
         /\ (Envid(regs'.lcdcon1) <=> on) /\ regs'.lcdcon1.clkval = regs.lcdcon1.clkval
         /\ regs'.line_length = regs.line_length /\ regs'.smem_len = regs.smem_len
<1> DEFINE con == regs.lcdcon1
           new == [con EXCEPT !.envid = on]
<1>1. new \in Cons /\ new.envid = on /\ new.clkval = con.clkval
  BY DEF Cons
<1>2. regs' = [regs EXCEPT !.lcdcon1 = new]
  BY DEF lcd_enable
<1> HIDE DEF new
<1>3. /\ DOMAIN regs' = Fields5 /\ regs'.lcdcon1 = new
      /\ regs'.line_length = regs.line_length /\ regs'.smem_len = regs.smem_len
  BY <1>2 DEF LcdTypes, Fields5
<1>4. Envid(new) <=> on
  BY <1>1, ConIsSome
<1> QED
  BY <1>1, <1>3, <1>4

LEMMA DisableKeeps ==
  ASSUME LcdInv, RemoveDisable
  PROVE  LcdInv'
<1> USE DEF LcdInv
<1>1. /\ fb = "unregistered" /\ fb' = "disabled" /\ regs' = lcd_enable(regs, FALSE)
      /\ hw' = [hw EXCEPT !.lcdcon1 = regs'.lcdcon1]
      /\ UNCHANGED <<step, held, board, palette, slept>>
  BY DEF RemoveDisable
<1>2. regs.lcdcon1 \in Cons
  BY <1>1 DEF SetUp, LcdTypes
<1>3. /\ DOMAIN regs' = Fields5 /\ regs'.lcdcon1 \in Cons /\ ~Envid(regs'.lcdcon1)
      /\ regs'.line_length = regs.line_length
  BY <1>1, <1>2, Enables
<1>4. /\ DOMAIN hw' = Hw5 /\ hw'.lcdcon1 = regs'.lcdcon1 /\ hw'.saddr = hw.saddr
      /\ hw'.masked = hw.masked /\ hw'.pal = hw.pal
  BY <1>1 DEF LcdTypes, Hw5
<1>5. LcdTypes'
  BY <1>1, <1>3, <1>4, BoardStays DEF LcdTypes, Lives, palette, Fields5, Hw5
<1>6. Backed' /\ SetUp'
  BY <1>1, <1>3, <1>4 DEF Backed, SetUp
<1>7. PaletteInv'
  BY <1>1, <1>4, PaletteStays DEF palette, PaletteInv
<1> QED
  BY <1>5, <1>6, <1>7

(* my2440fb_activate_var programs the copy and the controller.             *)
LEMMA Activates ==
  ASSUME NEW r, NEW h, DOMAIN r = Fields5, DOMAIN h = Hw5, r.lcdcon1 \in Cons, activate_var(r, h)
  PROVE  /\ DOMAIN regs' = Fields5 /\ regs'.lcdcon1 \in Cons /\ regs'.lcdcon1.clkval = {ClkDiv(display.type)}
         /\ regs'.line_length = r.line_length /\ regs'.smem_len = r.smem_len
         /\ DOMAIN hw' = Hw5 /\ hw'.lcdcon1 = regs'.lcdcon1
         /\ hw'.saddr = <<0, (r.line_length * display.yres) \div 2>>
         /\ hw'.masked = h.masked /\ hw'.pal = h.pal
<1> DEFINE con == r.lcdcon1
           modes == IF con.type = "TFT" THEN TftModes ELSE StnModes
           new == [con EXCEPT !.bpp = con.bpp \cup ({display.bpp} \cap modes),
                              !.clkval = con.clkval \cup {ClkDiv(con.type)}, !.envid = TRUE]
<1>1. new = Configured(con)
  BY DEF Configured
<1>2. con.type = display.type /\ con.bpp \subseteq {display.bpp} /\ con.clkval \subseteq {ClkDiv(display.type)}
      /\ DOMAIN con = {"type", "bpp", "clkval", "envid"}
  BY DEF Cons
<1>3. new \in Cons /\ new.clkval = {ClkDiv(display.type)}
  <2> DEFINE cb == con.bpp \cup ({display.bpp} \cap modes)
             cc == con.clkval \cup {ClkDiv(con.type)}
  <2>1. cb \subseteq {display.bpp} /\ cc = {ClkDiv(display.type)}
    BY <1>2
  <2> HIDE DEF modes, cb, cc
  <2>2. [con EXCEPT !.bpp = cb, !.clkval = cc, !.envid = TRUE] \in Cons
        /\ [con EXCEPT !.bpp = cb, !.clkval = cc, !.envid = TRUE].clkval = cc
    BY <2>1 DEF Cons
  <2> QED
    BY <2>1, <2>2 DEF cb, cc
<1> HIDE DEF new
<1>4. regs' = [r EXCEPT !.lcdcon1 = new]
      /\ hw' = [h EXCEPT !.lcdcon1 = new, !.saddr = set_lcdaddr(r.line_length)]
  BY <1>1 DEF activate_var
<1>5. set_lcdaddr(r.line_length) = <<0, (r.line_length * display.yres) \div 2>>
  BY DEF set_lcdaddr
<1> DEFINE a == set_lcdaddr(r.line_length)
<1> HIDE DEF a
<1>6. /\ DOMAIN regs' = Fields5 /\ regs'.lcdcon1 = new
      /\ regs'.line_length = r.line_length /\ regs'.smem_len = r.smem_len
  BY <1>4 DEF Fields5
<1>7. hw' = [h EXCEPT !.lcdcon1 = new, !.saddr = a]
  BY <1>4 DEF a
<1>8. /\ DOMAIN hw' = Hw5 /\ hw'.lcdcon1 = new /\ hw'.saddr = a
      /\ hw'.masked = h.masked /\ hw'.pal = h.pal
  BY <1>7 DEF Hw5
<1> QED
  BY <1>3, <1>5, <1>6, <1>8 DEF a

LEMMA HalfOfNothing == \A y \in Nat : (0 * y) \div 2 = 0
<1>1. 0 \div 2 = 0
  OBVIOUS
<1> QED
  BY <1>1

(* Where the mode is programmed the driver is bound.                       *)
LEMMA ProgramsMode ==
  ASSUME LcdInv, NEW r, NEW h, DOMAIN r = Fields5, DOMAIN h = Hw5, r.lcdcon1 = regs.lcdcon1,
         r.smem_len = regs.smem_len, r.line_length \in {0, Line},
         h.masked = hw.masked, h.pal = hw.pal, activate_var(r, h),
         fb \in {"bound", "suspended"}, fb' = "bound", setting = None,
         held \cup {"clock"} \subseteq held', UNCHANGED <<step, board, palette, slept>>
  PROVE  LcdInv'
<1> USE DEF LcdInv
<1>1. r.lcdcon1 \in Cons /\ regs.smem_len = Largest
  BY DEF SetUp, LcdTypes
<1>2. /\ DOMAIN regs' = Fields5 /\ regs'.lcdcon1 \in Cons /\ regs'.lcdcon1.clkval = {ClkDiv(display.type)}
      /\ regs'.line_length = r.line_length /\ regs'.smem_len = r.smem_len
      /\ DOMAIN hw' = Hw5 /\ hw'.lcdcon1 = regs'.lcdcon1
      /\ hw'.saddr = <<0, (r.line_length * display.yres) \div 2>>
      /\ hw'.masked = h.masked /\ hw'.pal = h.pal
  BY <1>1, Activates
<1>3. hw'.saddr \in {<<0, 0>>, <<0, (Line * display.yres) \div 2>>}
  <2>1. display.yres \in Nat
    BY FrameSizes DEF LcdTypes
  <2>2. (0 * display.yres) \div 2 = 0
    BY <2>1, HalfOfNothing
  <2>3. CASE r.line_length = 0
    BY <1>2, <2>2, <2>3
  <2>4. CASE r.line_length = Line
    BY <1>2, <2>4
  <2> QED
    BY <2>3, <2>4
<1>4. LcdTypes'
  BY <1>2, <1>3, BoardStays DEF LcdTypes, Lives, palette, Fields5, Hw5
<1>5. Backed'
  BY DEF Backed
<1>6. SetUp'
  <2>1. regs'.lcdcon1 # None
    BY <1>2, ConIsSome
  <2>2. hw'.saddr[2] = (regs'.line_length * display.yres) \div 2
    BY <1>2
  <2> QED
    BY <1>1, <1>2, <2>1, <2>2, BoardStays DEF SetUp
<1>7. PaletteInv'
  BY <1>2, PaletteStays DEF palette, PaletteInv
<1> QED
  BY <1>4, <1>5, <1>6, <1>7

LEMMA ModeKeeps ==
  ASSUME LcdInv, set_par \/ lcd_fb_resume
  PROVE  LcdInv'
<1> USE DEF LcdInv
<1>1. CASE set_par
  <2> DEFINE r == [regs EXCEPT !.visual = Visual(display.bpp), !.line_length = Line]
  <2>1. /\ fb = "bound" /\ setting = None /\ activate_var(r, hw)
        /\ UNCHANGED <<fb, step, held, board, palette, slept>>
    BY <1>1 DEF set_par, Ready, Line
  <2>2. DOMAIN r = Fields5 /\ r.lcdcon1 = regs.lcdcon1 /\ r.smem_len = regs.smem_len /\ r.line_length \in {0, Line}
        /\ DOMAIN hw = Hw5
    BY DEF LcdTypes, Fields5, Hw5
  <2>3. held \cup {"clock"} \subseteq held'
    BY <2>1 DEF Backed
  <2> HIDE DEF r
  <2> QED
    BY <2>1, <2>2, <2>3, ProgramsMode
<1>2. CASE lcd_fb_resume
  <2> DEFINE h == [hw EXCEPT !.tpal = FALSE]
  <2>1. /\ fb = "suspended" /\ fb' = "bound" /\ held' = held \cup {"clock"} /\ activate_var(regs, h)
        /\ UNCHANGED <<step, board, palette, slept>>
    BY <1>2 DEF lcd_fb_resume
  <2>2. setting = None
    BY <2>1 DEF PaletteInv
  <2>3. DOMAIN regs = Fields5 /\ regs.line_length \in {0, Line}
        /\ DOMAIN h = Hw5 /\ h.masked = hw.masked /\ h.pal = hw.pal
    BY DEF LcdTypes, Fields5, Hw5
  <2> HIDE DEF h
  <2> QED
    BY <2>1, <2>2, <2>3, ProgramsMode
<1> QED
  BY <1>1, <1>2

LEMMA SuspendKeeps ==
  ASSUME LcdInv, lcd_fb_suspend
  PROVE  LcdInv'
<1> USE DEF LcdInv
<1>1. /\ fb = "bound" /\ setting = None /\ fb' = "suspended" /\ regs' = lcd_enable(regs, FALSE)
      /\ held' = held \ {"clock"} /\ UNCHANGED <<step, board, palette>>
  BY DEF lcd_fb_suspend
<1>2. \/ hw' = [hw EXCEPT !.lcdcon1 = regs'.lcdcon1] /\ slept' = (slept \/ FALSE)
      \/ hw' = Reset /\ slept' = (slept \/ palette_ready)
  BY DEF lcd_fb_suspend
<1>3. regs.lcdcon1 \in Cons /\ regs.smem_len = Largest
  BY <1>1 DEF SetUp, LcdTypes
<1>4. /\ DOMAIN regs' = Fields5 /\ regs'.lcdcon1 \in Cons /\ ~Envid(regs'.lcdcon1)
      /\ regs'.line_length = regs.line_length /\ regs'.smem_len = regs.smem_len
  BY <1>1, <1>3, Enables
<1>5. slept' \in BOOLEAN
  BY <1>2, Zenon DEF LcdTypes
<1>6. /\ DOMAIN hw' = Hw5 /\ hw'.lcdcon1 \in {None, regs'.lcdcon1}
      /\ hw'.saddr \in {<<0, 0>>, hw.saddr}
      /\ hw'.masked \in {hw.masked, TRUE}
      /\ hw'.pal = hw.pal \/ hw'.pal = [i \in PaletteRegs |-> 0]
  <2>1. CASE hw' = Reset
    BY <2>1 DEF Reset, Hw5
  <2>2. CASE hw' = [hw EXCEPT !.lcdcon1 = regs'.lcdcon1]
    BY <2>2 DEF LcdTypes, Hw5
  <2> QED
    BY <1>2, <2>1, <2>2
<1>7. LcdTypes'
  <2>1. hw'.masked \in BOOLEAN
    BY <1>6, Zenon DEF LcdTypes
  <2>2. hw'.pal \in [PaletteRegs -> Int]
    BY <1>6 DEF LcdTypes
  <2>3. hw'.lcdcon1 \in Cons \cup {None} /\ hw'.saddr \in {<<0, 0>>, <<0, (Line * display.yres) \div 2>>}
    BY <1>4, <1>6 DEF LcdTypes
  <2> QED
    BY <1>1, <1>4, <1>5, <1>6, <2>1, <2>2, <2>3, BoardStays DEF LcdTypes, Lives, palette, Fields5, Hw5
<1>8. Backed'
  <2>1. ~Envid(hw'.lcdcon1)
    BY <1>4, <1>6, NoneIsOff
  <2> QED
    BY <1>1, <2>1 DEF Backed
<1>9. SetUp'
  <2>1. regs'.lcdcon1 # None
    BY <1>4, ConIsSome
  <2> QED
    BY <1>1, <1>3, <1>4, <2>1, BoardStays DEF SetUp
<1>10. PaletteInv'
  <2>1. CASE hw' = [hw EXCEPT !.lcdcon1 = regs'.lcdcon1] /\ slept' = (slept \/ FALSE)
    <3>1. hw'.pal = hw.pal /\ hw'.masked = hw.masked
      BY <2>1 DEF LcdTypes
    <3> QED
      BY <1>1, <2>1, <3>1 DEF palette, PaletteInv, BeingSet
  <2>2. CASE hw' = Reset /\ slept' = (slept \/ palette_ready)
    <3>1. \A i \in PaletteRegs : hw'.pal[i] = 0
      BY <2>2 DEF Reset
    <3> QED
      BY <1>1, <2>2, <3>1 DEF palette, PaletteInv, BeingSet
  <2> QED
    BY <1>2, <2>1, <2>2
<1> QED
  BY <1>7, <1>8, <1>9, <1>10

LEMMA BlankKeeps ==
  ASSUME LcdInv, NEW mode, blank(mode)
  PROVE  LcdInv'
<1> USE DEF LcdInv
<1> DEFINE on == mode # "powerdown"
<1>1. /\ fb = "bound" /\ setting = None /\ regs' = lcd_enable(regs, on)
      /\ hw' = [hw EXCEPT !.lcdcon1 = regs'.lcdcon1, !.tpal = (mode # "unblank")]
      /\ UNCHANGED <<fb, step, held, board, palette, slept>>
  BY DEF blank, Ready
<1>2. regs.lcdcon1 \in Cons /\ regs.smem_len = Largest
  BY <1>1 DEF SetUp, LcdTypes
<1>3. on \in BOOLEAN
  BY Zenon
<1>4. /\ DOMAIN regs' = Fields5 /\ regs'.lcdcon1 \in Cons /\ regs'.lcdcon1.clkval = regs.lcdcon1.clkval
      /\ regs'.line_length = regs.line_length /\ regs'.smem_len = regs.smem_len
  BY <1>1, <1>2, <1>3, Enables
<1>5. /\ DOMAIN hw' = Hw5 /\ hw'.lcdcon1 = regs'.lcdcon1 /\ hw'.saddr = hw.saddr
      /\ hw'.masked = hw.masked /\ hw'.pal = hw.pal
  <2> DEFINE c == regs'.lcdcon1  t == mode # "unblank"
  <2> HIDE DEF c, t
  <2>1. hw' = [hw EXCEPT !.lcdcon1 = c, !.tpal = t]
    BY <1>1 DEF c, t
  <2>2. DOMAIN hw' = Hw5 /\ hw'.lcdcon1 = c /\ hw'.saddr = hw.saddr /\ hw'.masked = hw.masked /\ hw'.pal = hw.pal
    BY <2>1 DEF LcdTypes, Hw5
  <2> QED
    BY <2>2 DEF c
<1>6. LcdTypes'
  BY <1>1, <1>4, <1>5, BoardStays DEF LcdTypes, Lives, palette, Fields5, Hw5
<1>7. Backed'
  BY <1>1 DEF Backed
<1>8. SetUp'
  <2>1. regs'.lcdcon1 # None
    BY <1>4, ConIsSome
  <2> QED
    BY <1>1, <1>2, <1>4, <1>5, <2>1, BoardStays DEF SetUp
<1>9. PaletteInv'
  BY <1>1, <1>5, PaletteStays DEF palette, PaletteInv
<1> QED
  BY <1>6, <1>7, <1>8, <1>9

(* Steps that leave the driver's life and the mode alone.                  *)
LEMMA ModeStays ==
  ASSUME LcdInv, UNCHANGED <<fb, step, held, board, regs, slept>>, DOMAIN hw' = Hw5,
         hw'.lcdcon1 = hw.lcdcon1, hw'.saddr = hw.saddr, hw'.masked \in BOOLEAN,
         hw'.pal \in [PaletteRegs -> Int], palette_buffer' \in [PaletteRegs -> Int],
         asked' \in [PaletteRegs -> Int], palette_ready' \in BOOLEAN
  PROVE  LcdTypes' /\ Backed' /\ SetUp'
<1> USE DEF LcdInv
<1>1. LcdTypes'
  BY BoardStays DEF LcdTypes, Lives, Hw5
<1>2. Backed' /\ SetUp'
  BY BoardStays DEF Backed, SetUp
<1> QED
  BY <1>1, <1>2

LEMMA TrueColorKeeps ==
  ASSUME LcdInv, NEW i \in PaletteRegs, NEW c \in Colors, SetTrueColor(i, c)
  PROVE  LcdInv'
<1>1. UNCHANGED <<fb, step, held, leaked, board, regs, hw, palette_buffer, palette_ready, setting, asked, slept>>
  BY DEF SetTrueColor
<1>2. LcdTypes' /\ Backed' /\ SetUp'
  BY <1>1, ModeStays DEF LcdInv, LcdTypes, Hw5
<1>3. PaletteInv'
  BY <1>1, PaletteStays DEF LcdInv
<1> QED
  BY <1>2, <1>3 DEF LcdInv

LEMMA Rgb565Is == \A c \in Colors : Rgb565(c) \in Nat
<1> SUFFICES ASSUME NEW c \in Colors PROVE Rgb565(c) \in Nat
  OBVIOUS
<1>1. c.red \in Nat /\ c.green \in Nat /\ c.blue \in Nat
  BY LcdAssumption
<1>2. c.red \div 2048 \in Nat /\ c.green \div 1024 \in Nat /\ c.blue \div 2048 \in Nat
  BY <1>1
<1> QED
  BY <1>2 DEF Rgb565

LEMMA PseudoColorKeeps ==
  ASSUME LcdInv, NEW i \in PaletteRegs, NEW c \in Colors, SetPseudoColor(i, c)
  PROVE  LcdInv'
<1> USE DEF LcdInv
<1> DEFINE v == Rgb565(c)
<1>1. fb = "bound" /\ setting = None /\ setting' = <<i, v>>
      /\ UNCHANGED <<fb, step, held, leaked, board, regs, palette_buffer, palette_ready, asked, slept>>
  BY DEF SetPseudoColor, Ready
<1>2. v \in Nat
  BY Rgb565Is
<1>3. PICK val \in {v, hw.pal[i]} : hw' = [hw EXCEPT !.pal = [hw.pal EXCEPT ![i] = val]]
  BY DEF SetPseudoColor
<1> HIDE DEF v
<1> DEFINE pal == [hw.pal EXCEPT ![i] = val]
<1>4. pal \in [PaletteRegs -> Int] /\ \A j \in PaletteRegs : j # i => pal[j] = hw.pal[j]
  BY <1>2 DEF LcdTypes
<1>5. hw' = [hw EXCEPT !.pal = pal]
  BY <1>3
<1> HIDE DEF pal
<1>6. /\ DOMAIN hw' = Hw5 /\ hw'.lcdcon1 = hw.lcdcon1 /\ hw'.saddr = hw.saddr
      /\ hw'.masked = hw.masked /\ hw'.pal = pal
  BY <1>5 DEF LcdTypes, Hw5
<1>7. LcdTypes' /\ Backed' /\ SetUp'
  BY <1>1, <1>4, <1>6, ModeStays DEF LcdTypes
<1>8. setting' # None /\ setting'[1] = i /\ setting'[2] = v /\ setting' = <<setting'[1], setting'[2]>>
  BY <1>1 DEF None
<1>9. PaletteInv'
  BY <1>1, <1>2, <1>4, <1>6, <1>8 DEF PaletteInv, BeingSet
<1> QED
  BY <1>7, <1>9

LEMMA ScheduleKeeps ==
  ASSUME LcdInv, schedule_palette_update
  PROVE  LcdInv'
<1> USE DEF LcdInv
<1> DEFINE i == setting[1]  v == setting[2]
<1>1. setting # None /\ i \in PaletteRegs /\ v \in Nat
  BY DEF schedule_palette_update, PaletteInv
<1>2. /\ palette_buffer' = [palette_buffer EXCEPT ![i] = v] /\ asked' = [asked EXCEPT ![i] = v]
      /\ palette_ready' = TRUE /\ setting' = None
      /\ hw' = IF palette_ready THEN hw ELSE [hw EXCEPT !.masked = FALSE]
      /\ UNCHANGED <<fb, step, held, leaked, board, regs, slept>>
  BY DEF schedule_palette_update
<1>3. /\ DOMAIN hw' = Hw5 /\ hw'.lcdcon1 = hw.lcdcon1 /\ hw'.saddr = hw.saddr /\ hw'.pal = hw.pal
      /\ hw'.masked = IF palette_ready THEN hw.masked ELSE FALSE
  BY <1>2 DEF LcdTypes, Hw5
<1>4. hw'.masked \in BOOLEAN /\ palette_ready' \in BOOLEAN
  <2>1. hw'.masked = hw.masked \/ hw'.masked = FALSE
    BY <1>3
  <2> QED
    BY <1>2, <2>1, Zenon DEF LcdTypes
<1>5. BeingSet(i) /\ \A j \in PaletteRegs : j # i => ~BeingSet(j)
  BY <1>1 DEF BeingSet
<1>6. \A j \in PaletteRegs : ~BeingSet(j)'
  BY <1>2 DEF BeingSet
<1> HIDE DEF i, v
<1>7. /\ palette_buffer' \in [PaletteRegs -> Int] /\ asked' \in [PaletteRegs -> Int]
      /\ palette_buffer'[i] = v /\ asked'[i] = v /\ v # CLEAR
      /\ \A j \in PaletteRegs : j # i => palette_buffer'[j] = palette_buffer[j] /\ asked'[j] = asked[j]
  BY <1>1, <1>2 DEF LcdTypes, CLEAR
<1>8. LcdTypes' /\ Backed' /\ SetUp'
  <2>1. hw'.pal \in [PaletteRegs -> Int]
    BY <1>3 DEF LcdTypes
  <2> QED
    BY <1>2, <1>3, <1>4, <1>7, <2>1, ModeStays
<1>9. PaletteInv'
  <2>1. ~hw'.masked \/ slept'
    BY <1>2, <1>3 DEF PaletteInv
  <2>2. ASSUME NEW j \in PaletteRegs
        PROVE  /\ palette_buffer'[j] # CLEAR => palette_buffer'[j] = asked'[j] /\ palette_ready'
               /\ palette_buffer'[j] = CLEAR => hw'.pal[j] \in {asked'[j], 0}
    <3>1. CASE j = i
      BY <1>2, <1>7, <3>1
    <3>2. CASE j # i
      BY <1>2, <1>3, <1>5, <1>7, <3>2 DEF PaletteInv
    <3> QED
      BY <3>1, <3>2
  <2> QED
    BY <1>2, <2>1, <2>2 DEF PaletteInv
<1> QED
  BY <1>8, <1>9

LEMMA IrqKeeps ==
  ASSUME LcdInv, NEW taken \in SUBSET Waiting, lcd_fb_irq(taken)
  PROVE  LcdInv'
<1> USE DEF LcdInv
<1> DEFINE pal == [i \in PaletteRegs |-> IF i \in taken THEN palette_buffer[i] ELSE hw.pal[i]]
<1>1. /\ palette_ready /\ hw' = [hw EXCEPT !.pal = pal]
      /\ palette_buffer' = [i \in PaletteRegs |-> IF i \in taken THEN CLEAR ELSE palette_buffer[i]]
      /\ palette_ready' = (Waiting \ taken # {})
      /\ UNCHANGED <<fb, step, held, leaked, board, regs, setting, asked, slept>>
  BY DEF lcd_fb_irq, write_palette
<1>2. /\ pal \in [PaletteRegs -> Int] /\ palette_buffer' \in [PaletteRegs -> Int]
      /\ \A i \in PaletteRegs : /\ i \in taken => pal[i] = palette_buffer[i] /\ palette_buffer'[i] = CLEAR
                                /\ i \notin taken => pal[i] = hw.pal[i] /\ palette_buffer'[i] = palette_buffer[i]
  BY <1>1 DEF LcdTypes, CLEAR
<1> HIDE DEF pal
<1>3. /\ DOMAIN hw' = Hw5 /\ hw'.lcdcon1 = hw.lcdcon1 /\ hw'.saddr = hw.saddr
      /\ hw'.masked = hw.masked /\ hw'.pal = pal
  BY <1>1 DEF LcdTypes, Hw5
<1>4. palette_ready' \in BOOLEAN
  BY <1>1, Zenon
<1>5. LcdTypes' /\ Backed' /\ SetUp'
  BY <1>1, <1>2, <1>3, <1>4, ModeStays DEF LcdTypes
<1>6. ASSUME NEW i \in PaletteRegs
      PROVE  /\ palette_buffer'[i] # CLEAR => palette_buffer'[i] = asked'[i] /\ palette_ready'
             /\ palette_buffer'[i] = CLEAR /\ ~BeingSet(i)' => hw'.pal[i] \in {asked'[i], 0}
  <2>1. BeingSet(i)' <=> BeingSet(i)
    BY <1>1 DEF BeingSet
  <2>2. CASE i \in taken
    <3>1. palette_buffer[i] # CLEAR
      BY <2>2 DEF Waiting
    <3> QED
      BY <1>1, <1>2, <1>3, <2>2, <3>1 DEF PaletteInv
  <2>3. CASE i \notin taken
    <3>1. palette_buffer[i] # CLEAR => palette_ready'
      BY <1>1, <2>3 DEF Waiting
    <3> QED
      BY <1>1, <1>2, <1>3, <2>1, <2>3, <3>1 DEF PaletteInv
  <2> QED
    BY <2>2, <2>3
<1>7. PaletteInv'
  <2>1. ~hw'.masked \/ slept'
    BY <1>1, <1>3 DEF PaletteInv
  <2> QED
    BY <1>1, <1>6, <2>1 DEF PaletteInv
<1> QED
  BY <1>5, <1>7

LEMMA LcdStep == LcdInv /\ [LcdNext]_lcdVars => LcdInv'
<1> SUFFICES ASSUME LcdInv, [LcdNext]_lcdVars PROVE LcdInv'
  OBVIOUS
<1>1. CASE UNCHANGED lcdVars
  <2>1. UNCHANGED <<fb, step, held, board, regs, hw, palette, slept>>
    BY <1>1 DEF lcdVars
  <2>2. LcdTypes' /\ Backed' /\ SetUp'
    BY <2>1, ModeStays DEF LcdInv, LcdTypes, palette, Hw5
  <2> QED
    BY <2>1, <2>2, PaletteStays DEF LcdInv, palette
<1>2. CASE lcd_init \/ ProbeStep \/ ProbeFail \/ RemoveUnregister \/ RemoveDisable \/ RemoveMemory \/ RemoveRest
  BY <1>2, InitKeeps, ProbeKeeps, RemoveKeeps, DisableKeeps
<1>3. CASE lcd_fb_suspend \/ lcd_fb_resume \/ set_par \/ schedule_palette_update
  BY <1>3, SuspendKeeps, ModeKeeps, ScheduleKeeps
<1>4. ASSUME NEW mode, blank(mode) PROVE LcdInv'
  BY <1>4, BlankKeeps
<1>5. ASSUME NEW i \in PaletteRegs, NEW c \in Colors, SetTrueColor(i, c) \/ SetPseudoColor(i, c)
      PROVE  LcdInv'
  BY <1>5, TrueColorKeeps, PseudoColorKeeps
<1>6. ASSUME NEW taken \in SUBSET Waiting, lcd_fb_irq(taken) PROVE LcdInv'
  BY <1>6, IrqKeeps
<1> QED
  BY <1>1, <1>2, <1>3, <1>4, <1>5, <1>6 DEF LcdNext

LEMMA AlwaysLcd == LcdSpec => []LcdInv
BY LcdStarts, LcdStep, PTL DEF LcdSpec

(* While the controller fetches frames, everything it needs is held and    *)
(* the frames lie within the video memory, for every board, page size and  *)
(* display, whichever is the default, and whatever fails in probe          *)
(* (my2440fb_set_lcdaddr, my2440fb_map_video_memory, the labels of probe,  *)
(* remove, suspend).                                                       *)
THEOREM FetchesFromMemory == LcdSpec => []FramesFromMemory
<1>1. LcdInv => DisplayBacked
  BY DEF LcdInv, Backed, DisplayBacked
<1>2. ASSUME LcdInv PROVE AddressInBuffer
  <2> DEFINE size == regs.smem_len
             a == hw.saddr[2]
             pages == (size + PageSize - 1) \div PageSize
  <2> SUFFICES ASSUME Envid(hw.lcdcon1) PROVE 2 * a <= pages * PageSize
    BY DEF AddressInBuffer
  <2>1. OnBoard /\ size = Largest
    BY <1>2 DEF LcdInv, LcdTypes, Backed, SetUp
  <2>2. size \in Nat /\ 2 * ((Line * display.yres) \div 2) <= size
    BY <2>1, LargestIs, FrameFits
  <2>3. a = 0 \/ a = (Line * display.yres) \div 2
    BY <1>2 DEF LcdInv, LcdTypes
  <2>4. a \in Nat /\ 2 * a <= size
    BY <2>1, <2>2, <2>3, FrameFits
  <2> HIDE DEF size, a
  <2>5. size <= pages * PageSize /\ pages * PageSize \in Nat
    <3> DEFINE n == size + PageSize - 1
    <3>1. n \in Nat /\ PageSize \in Nat \ {0}
      BY <2>2, LcdAssumption
    <3> HIDE DEF n
    <3>2. n \div PageSize \in Nat /\ n < PageSize * ((n \div PageSize) + 1)
      BY <3>1
    <3> DEFINE q == n \div PageSize
    <3> HIDE DEF q
    <3>3. q \in Nat /\ n < PageSize * (q + 1)
      BY <3>2 DEF q
    <3>4. PageSize * (q + 1) = q * PageSize + PageSize /\ q * PageSize \in Nat
      BY <3>1, <3>3
    <3>5. size <= q * PageSize
      BY <2>2, <3>1, <3>3, <3>4 DEF n
    <3> QED
      BY <3>4, <3>5 DEF q, n
  <2> QED
    BY <2>2, <2>4, <2>5
<1> QED
  BY <1>1, <1>2, AlwaysLcd, PTL DEF FramesFromMemory

(* A palette entry that waits is noted, and one that does not wait has the *)
(* value last asked for, wherever the frame interrupt comes between the    *)
(* steps of setcolreg (schedule_palette_update, write_palette).            *)
THEOREM KeepsPalette == LcdSpec => []PaletteCurrent
<1>1. LcdInv => PaletteCurrent
  BY DEF LcdInv, PaletteInv, PaletteCurrent, NoEntryForgotten, EntryCurrent, Waiting, BeingSet
<1> QED
  BY <1>1, AlwaysLcd, PTL

(* Frames that are whole half words: the controller counts in those.       *)
EvenFrames ==
  \A b \in Boards : \A i \in DOMAIN b :
    2 * ((((b[i].xres * b[i].bpp) \div 8) * b[i].yres) \div 2) = ((b[i].xres * b[i].bpp) \div 8) * b[i].yres

(* The controller and the copies of its registers agree between            *)
(* operations, also after a suspend that took the power, on boards whose   *)
(* frames are whole half words (my2440fb_activate_var, lcd_fb_resume).     *)
THEOREM StaysProgrammed ==
  ASSUME EvenFrames
  PROVE  LcdSpec => []Programmed
<1>1. ASSUME LcdInv PROVE Programmed
  <2> SUFFICES ASSUME fb = "bound", regs.line_length # 0
               PROVE  /\ hw.lcdcon1 = regs.lcdcon1 /\ Cardinality(regs.lcdcon1.clkval) = 1
                      /\ 2 * hw.saddr[2] = regs.line_length * display.yres
    BY DEF Programmed
  <2>1. /\ hw.lcdcon1 = regs.lcdcon1 /\ regs.lcdcon1.clkval = {ClkDiv(display.type)}
        /\ hw.saddr[2] = (regs.line_length * display.yres) \div 2
        /\ regs.line_length = Line /\ OnBoard
    BY <1>1 DEF LcdInv, LcdTypes, SetUp
  <2>2. 2 * ((Line * display.yres) \div 2) = Line * display.yres
    BY <2>1 DEF EvenFrames, OnBoard, Line
  <2>3. Cardinality({ClkDiv(display.type)}) = 1
    BY FS_Singleton
  <2> QED
    BY <2>1, <2>2, <2>3
<1> QED
  BY <1>1, AlwaysLcd, PTL

-----------------------------------------------------------------------------
(* The sound latency test                                                  *)

LatInv ==
  /\ lpc \in {"options", "setparams", "again", "set_it", "write", "loop", "close", "exit"}
  /\ latency_min \in Nat /\ latency_min >= 4 /\ latency_max \in Int
  /\ buffer_size \in Int /\ period_size \in Int /\ block \in BOOLEAN /\ lok \in BOOLEAN
  /\ latency \in Nat /\ last_bufsize \in Nat /\ frames_in \in Int /\ frames_out \in Int
  /\ channels \in Nat /\ channels >= 1 /\ format.width \in Nat /\ format.bytes \in Nat /\ reach \in Int
  \* The search goes upwards from 0: a size that is tried has a frame.
  /\ lpc \in {"again", "set_it"} /\ ~(buffer_size > 0) => last_bufsize <= latency
  /\ lpc \in {"set_it", "write", "loop"} => latency >= 1
  /\ lpc = "set_it" => buffer_size > 0 \/ latency <= latency_max
  /\ lpc \in {"write", "loop"} /\ AsMalloced => latency <= latency_max
  \* The options are read before the buffer is there.
  /\ IF lpc = "options" THEN reach = 0 /\ malloced = 0 ELSE malloced = (latency_max * format.width) * 2
  /\ lpc = "loop" /\ lok => frames_in >= 0 /\ frames_out >= 2 * latency
  /\ CopyLoopRight

-----------------------------------------------------------------------------
(* The nearest supported value is one.                                     *)
LEMMA NearIs ==
  ASSUME NEW S, S \subseteq Nat, S # {}, NEW v \in Int
  PROVE  Near(S, v) \in S
<1>1. \A s \in S : s \in Nat /\ Far(s, v) \in Nat
  BY DEF Far
<1> DEFINE D == {Far(s, v) : s \in S}
<1>2. PICK d \in D : \A e \in D : d <= e
  <2>1. D \subseteq Nat /\ D # {}
    BY <1>1
  <2> HIDE DEF D
  <2> QED
    BY <2>1, LowestNat
<1>3. \A t \in S : d <= Far(t, v)
  BY <1>2
<1> DEFINE E == {s \in S : Far(s, v) = d}
<1>4. PICK s \in E : \A t \in E : s <= t
  <2>1. E \subseteq Nat /\ E # {}
    BY <1>2
  <2> HIDE DEF E
  <2> QED
    BY <2>1, LowestNat
<1>5. s \in S /\ Far(s, v) = d /\ d \in Nat
  BY <1>1, <1>4
<1>6. ASSUME NEW t \in S PROVE Far(s, v) < Far(t, v) \/ (Far(s, v) = Far(t, v) /\ s <= t)
  <2>1. CASE Far(t, v) = d
    BY <1>4, <1>5, <2>1
  <2>2. CASE Far(t, v) # d
    <3>1. Far(t, v) \in Nat /\ d <= Far(t, v)
      BY <1>1, <1>3
    <3>2. d < Far(t, v)
      BY <1>5, <2>2, <3>1
    <3> QED
      BY <1>5, <3>2
  <2> QED
    BY <2>1, <2>2
<1> HIDE DEF E, D
<1>7. \E x \in S : \A t \in S : Far(x, v) < Far(t, v) \/ (Far(x, v) = Far(t, v) /\ x <= t)
  BY <1>5, <1>6
<1> QED
  BY <1>7 DEF Near

LEMMA LargerIs ==
  ASSUME NEW a \in Int, NEW b \in Int
  PROVE  Larger(a, b) \in {a, b} /\ Larger(a, b) >= a /\ Larger(a, b) >= b
BY DEF Larger

(* The periods setparams_bufsize settles on are ones the card supports.    *)
LEMMA PeriodIs ==
  ASSUME LatInv, NEW Periods, Periods \subseteq Nat, Periods # {}
  PROVE  setparams_bufsize(Periods, latency).period \in Periods
<1> DEFINE size == Near(BufferSizes, 2 * latency)
           want == IF period_size > 0 THEN period_size ELSE size \div 2
<1>1. size \in BufferSizes /\ size \in Nat
  <2>1. 2 * latency \in Int /\ BufferSizes \subseteq Nat /\ BufferSizes # {}
    BY LatAssumption DEF LatInv
  <2> QED
    BY <2>1, NearIs
<1>2. want \in Int
  <2> HIDE DEF size
  <2>1. size \div 2 \in Int
    BY <1>1
  <2> QED
    BY <2>1 DEF LatInv
<1>3. setparams_bufsize(Periods, latency).period = Near(Periods, want)
  BY DEF setparams_bufsize
<1> HIDE DEF want
<1> QED
  BY <1>2, <1>3, NearIs

LEMMA ProductGrows ==
  ASSUME NEW a \in Int, NEW b \in Int, NEW w \in Nat, a <= b
  PROVE  a * w <= b * w
<1>1. b * w = a * w + (b - a) * w /\ (b - a) * w \in Nat
  OBVIOUS
<1>2. a * w \in Int /\ b * w \in Int
  OBVIOUS
<1> QED
  BY <1>1, <1>2

(* How far a read or a write of len frames gets, when frames are of one or *)
(* two channels and samples of two bytes or more.                          *)
LEMMA EndsFit ==
  ASSUME NEW c \in 1 .. 2, NEW w \in Nat, w >= 2, NEW max \in Int, NEW len \in Nat, 1 <= len, len <= max
  PROVE  len * (c * w) <= (max * w) * 2 /\ 4 * (len - 1) + c * w <= (max * w) * 2
<1> DEFINE m == max * w  n == len * w  p == (len - 1) * w
<1>1. m \in Int /\ n \in Int /\ p \in Int /\ n <= m /\ n = p + w
  BY ProductGrows
<1>2. 2 * (len - 1) <= p
  <2>1. 2 * (len - 1) <= w * (len - 1)
    BY ProductGrows
  <2> QED
    BY <2>1
<1>3. len * (c * w) = n \/ len * (c * w) = 2 * n
  BY c = 1 \/ c = 2
<1>4. n \in Nat
  OBVIOUS
<1>5. c * w = w \/ c * w = 2 * w
  BY c = 1 \/ c = 2
<1> HIDE DEF m, n, p
<1>6. len * (c * w) <= m * 2
  BY <1>1, <1>3, <1>4
<1>7. 4 * (len - 1) + c * w <= m * 2
  BY <1>1, <1>2, <1>5
<1> QED
  BY <1>6, <1>7 DEF m

(* While the program has got as far as copying, it is reading and writing  *)
(* as many frames as the buffer is for, if it is run as the buffer is for. *)
LEMMA ReachFits ==
  ASSUME LatInv, lpc \in {"write", "loop"}, AsMalloced, NEW len \in {1, latency}, Reaches(len)
  PROVE  reach' <= malloced
<1> USE DEF LatInv
<1>1. /\ channels \in 1 .. 2 /\ format.bytes = format.width /\ format.width \in Nat /\ format.width >= 2
      /\ len \in Nat /\ 1 <= len /\ len <= latency_max
  BY DEF AsMalloced
<1>2. malloced = (latency_max * format.width) * 2 /\ reach <= malloced
  BY DEF CopyLoopRight, BufferFits
<1> DEFINE w == format.width
<1>3. PICK e \in Ends(len) : reach' = Larger(reach, e)
  BY DEF Reaches
<1>4. e \in {len * (channels * w), 4 * (len - 1) + channels * w}
  BY <1>1 DEF Ends, FrameBytes
<1>5. w \in Nat /\ w >= 2
  BY <1>1
<1> HIDE DEF w
<1>6. len * (channels * w) <= (latency_max * w) * 2 /\ 4 * (len - 1) + channels * w <= (latency_max * w) * 2
  BY <1>1, <1>5, EndsFit
<1>7. e <= malloced
  BY <1>2, <1>4, <1>6 DEF w
<1> QED
  BY <1>2, <1>3, <1>7 DEF Larger

LEMMA ReachIs ==
  ASSUME LatInv, lpc \in {"write", "loop"}, NEW len \in {1, latency}, Reaches(len)
  PROVE  reach' \in Int
<1> USE DEF LatInv
<1>1. PICK e \in Ends(len) : reach' = Larger(reach, e)
  BY DEF Reaches
<1>2. FrameBytes \in Int /\ len \in Int
  BY DEF FrameBytes
<1>3. len * FrameBytes \in Int /\ 4 * (len - 1) + FrameBytes \in Int
  <2> HIDE DEF FrameBytes
  <2> QED
    BY <1>2
<1>4. e \in Int
  BY <1>3 DEF Ends
<1> QED
  BY <1>1, <1>4 DEF Larger

LEMMA LatStarts == LatInit => LatInv
<1> SUFFICES ASSUME LatInit PROVE LatInv
  OBVIOUS
<1>1. block \in BOOLEAN /\ lok \in BOOLEAN
  BY Zenon DEF LatInit
<1>2. lpc = "options" /\ reach = 0 /\ malloced = 0
  BY DEF LatInit
<1>3. CopyLoopRight
  BY <1>2 DEF CopyLoopRight, BufferFits, CapturedIsPlayed
<1>4. /\ latency_min = 4 /\ latency_max = 8 /\ buffer_size = 0 /\ period_size = 0
      /\ latency = 0 /\ last_bufsize = 0 /\ frames_in = 0 /\ frames_out = 0
  BY DEF LatInit
<1>5. channels \in Nat /\ channels >= 1 /\ format.width \in Nat /\ format.bytes \in Nat
  BY DEF LatInit, S16_LE
<1> QED
  BY <1>1, <1>2, <1>3, <1>4, <1>5 DEF LatInv

LEMMA OptionsKeep ==
  ASSUME LatInv,
         \/ OptionSizes \/ Start \/ Refused
         \/ (\E arg \in MinArgs : OptionMin(arg)) \/ (\E arg \in MaxArgs : OptionMax(arg))
  PROVE  LatInv'
<1> USE DEF LatInv
<1>1. UNCHANGED <<last_bufsize, frames_in, frames_out, lok, reach>>
  BY DEF OptionSizes, Start, Refused, OptionMin, OptionMax, Rest
<1>0. lpc' = "options" /\ UNCHANGED <<malloced, reach>> /\ lpc = "options" => CopyLoopRight'
  BY DEF CopyLoopRight, BufferFits, CapturedIsPlayed
<1>2. ASSUME NEW arg \in MinArgs, OptionMin(arg) PROVE LatInv'
  <2>1. arg \in Int /\ arg \div 2 \in Int
    BY LatAssumption
  <2>2. /\ latency_min' = Larger(arg \div 2, 4) /\ latency_max' = Larger(latency_max, latency_min')
        /\ lpc = "options" /\ UNCHANGED <<lpc, buffer_size, period_size, block, channels, format, malloced, latency>>
    BY <1>2 DEF OptionMin
  <2>3. latency_min' \in Int /\ latency_min' >= 4
    BY <2>1, <2>2, LargerIs
  <2>4. latency_max' \in Int
    BY <2>2, <2>3, LargerIs
  <2> QED
    BY <1>0, <1>1, <2>2, <2>3, <2>4
<1>3. ASSUME NEW arg \in MaxArgs, OptionMax(arg) PROVE LatInv'
  <2>1. arg \in Int /\ arg \div 2 \in Int
    BY LatAssumption
  <2>2. /\ latency_max' = Larger(latency_min, arg \div 2)
        /\ lpc = "options"
        /\ UNCHANGED <<lpc, latency_min, buffer_size, period_size, block, channels, format, malloced, latency>>
    BY <1>3 DEF OptionMax
  <2>3. latency_max' \in Int
    BY <2>1, <2>2, LargerIs
  <2> QED
    BY <1>0, <1>1, <2>2, <2>3
<1>4. CASE OptionSizes
  <2>1. buffer_size' \in Int /\ period_size' \in Int /\ block' \in BOOLEAN
    BY <1>4, LatAssumption DEF OptionSizes
  <2>2. lpc = "options" /\ UNCHANGED <<lpc, latency_min, latency_max, malloced, latency>>
    BY <1>4 DEF OptionSizes
  <2>3. channels' \in Nat /\ channels' >= 1
    <3>1. channels' = channels \/ \E arg \in ChannelArgs : channels' = IF arg \in 1 .. 1023 THEN arg ELSE 1
      BY <1>4 DEF OptionSizes
    <3>2. channels \in Nat /\ channels >= 1
      BY DEF LatInv
    <3>3. CASE channels' = channels
      BY <3>2, <3>3
    <3>4. ASSUME NEW arg \in ChannelArgs, channels' = IF arg \in 1 .. 1023 THEN arg ELSE 1
          PROVE  channels' \in Nat /\ channels' >= 1
      <4>1. channels' \in 1 .. 1023
        BY <3>4
      <4> QED
        BY <4>1
    <3> QED
      BY <3>1, <3>3, <3>4
  <2>4. format'.width \in Nat /\ format'.bytes \in Nat
    <3>1. format' = format \/ format' \in [width : Nat, bytes : Nat]
      BY <1>4, LatAssumption DEF OptionSizes
    <3> QED
      BY <3>1
  <2> QED
    BY <1>0, <1>1, <2>1, <2>2, <2>3, <2>4
<1>5. CASE Start
  <2>1. /\ lpc = "options" /\ lpc' = "setparams" /\ latency' = latency_min - 4 /\ UNCHANGED given
        /\ malloced' = (latency_max * format.width) * 2
    BY <1>5 DEF Start
  <2>2. BufferFits'
    <3> SUFFICES ASSUME AsMalloced PROVE reach <= (latency_max * format.width) * 2
      BY <1>1, <2>1 DEF BufferFits, AsMalloced, given
    <3>1. PICK s \in PlaybackPeriods : TRUE
      BY LatAssumption
    <3>2. s \in Nat /\ s <= latency_max
      BY LatAssumption DEF AsMalloced
    <3>3. latency_max \in Nat
      BY <3>2
    <3>4. latency_max * format.width \in Nat
      BY <3>3
    <3> QED
      BY <2>1, <3>4
  <2>3. CapturedIsPlayed'
    BY <2>1 DEF CapturedIsPlayed
  <2> QED
    BY <1>1, <2>1, <2>2, <2>3 DEF given, CopyLoopRight
<1>6. CASE Refused
  <2>1. lpc # "options" /\ lpc' = "exit" /\ UNCHANGED <<sizes, latency>>
    BY <1>6 DEF Refused
  <2>2. BufferFits'
    BY <1>1, <2>1 DEF CopyLoopRight, BufferFits, AsMalloced, sizes, given
  <2>3. CapturedIsPlayed'
    BY <2>1 DEF CapturedIsPlayed
  <2> QED
    BY <1>1, <2>1, <2>2, <2>3 DEF sizes, given, CopyLoopRight
<1> QED
  BY <1>2, <1>3, <1>4, <1>5, <1>6

LEMMA SearchKeeps ==
  ASSUME LatInv, setparams \/ again \/ set_it
  PROVE  LatInv'
<1> USE DEF LatInv
<1>1. /\ UNCHANGED <<latency_min, latency_max, buffer_size, period_size, block, channels, format, malloced>>
      /\ UNCHANGED <<frames_in, frames_out, lok, reach>>
  BY DEF setparams, again, set_it, sizes, given, Rest
<1>0. AsMalloced' <=> AsMalloced
  BY <1>1 DEF AsMalloced
<1>5. lpc \in {"setparams", "again", "set_it"} /\ lpc' \in {"again", "set_it", "close", "write"}
  BY DEF setparams, again, set_it
<1>6. CopyLoopRight'
  <2>1. BufferFits'
    BY <1>0, <1>1 DEF CopyLoopRight, BufferFits
  <2> QED
    BY <1>5, <2>1 DEF CopyLoopRight, CapturedIsPlayed
<1>2. CASE setparams
  <2>1. last_bufsize' = latency
        /\ \/ buffer_size > 0 /\ latency' = buffer_size /\ lpc' = "set_it"
           \/ ~(buffer_size > 0) /\ lpc' = "again" /\ latency' = latency
    BY <1>2 DEF setparams
  <2> QED
    BY <1>1, <1>5, <1>6, <2>1
<1>3. CASE again
  <2>1. CASE buffer_size > 0
    <3>1. lpc' = "close" /\ UNCHANGED <<latency, last_bufsize>>
      BY <1>3, <2>1 DEF again
    <3> QED
      BY <1>1, <1>5, <1>6, <3>1
  <2>2. CASE ~(buffer_size > 0)
    <3>1. /\ latency' = IF last_bufsize = latency THEN latency + 4 ELSE latency
          /\ last_bufsize' = latency'
          /\ lpc' = IF latency' > latency_max THEN "close" ELSE "set_it"
          /\ last_bufsize <= latency
      BY <1>3, <2>2 DEF again
    <3>2. latency' \in Nat /\ latency' >= 1 /\ last_bufsize' = latency'
      BY <3>1
    <3>3. lpc' \in {"close", "set_it"}
      BY <3>1
    <3>5. last_bufsize' \in Int /\ latency' \in Int
      BY <3>2
    <3>6. latency' <= latency_max' \/ lpc' = "close"
      BY <1>1, <3>1, <3>2
    <3>7. /\ lpc # "options" /\ lpc' # "options" /\ lpc' \notin {"write", "loop"}
          /\ lpc' = "set_it" => latency' <= latency_max'
          /\ last_bufsize' <= latency' /\ latency' \in Nat /\ last_bufsize' \in Nat /\ latency' >= 1
      BY <1>3, <3>2, <3>3, <3>5, <3>6 DEF again
    <3> QED
      BY <1>1, <1>6, <3>3, <3>7
  <2> QED
    BY <2>1, <2>2
<1>4. CASE set_it
  <2> DEFINE p == setparams_bufsize(PlaybackPeriods, latency).period
             c == setparams_bufsize(CapturePeriods, latency).period
  <2>1. p \in PlaybackPeriods /\ c \in CapturePeriods /\ p \in Nat /\ c \in Nat
    BY PeriodIs, LatAssumption
  <2>2. latency' = Larger(latency, Larger(p, c)) /\ lpc = "set_it" /\ lpc' \in {"again", "write"}
        /\ last_bufsize' = last_bufsize
    BY <1>4 DEF set_it, Rest
  <2> HIDE DEF p, c
  <2>3. Larger(p, c) \in {p, c} /\ Larger(p, c) \in Nat
    BY <2>1, LargerIs
  <2>4. latency' \in {latency, p, c} /\ latency' \in Nat /\ latency' >= latency
    BY <2>2, <2>3, LargerIs
  <2>5. AsMalloced => latency' <= latency_max
    BY <2>1, <2>2, <2>4 DEF AsMalloced
  <2> QED
    BY <1>0, <1>1, <1>5, <1>6, <2>2, <2>4, <2>5
<1> QED
  BY <1>2, <1>3, <1>4

LEMMA CopyKeeps ==
  ASSUME LatInv, WriteSilence \/ Copy \/ Report
  PROVE  LatInv'
<1> USE DEF LatInv
<1>1. /\ UNCHANGED <<latency_min, latency_max, buffer_size, period_size, block, channels, format, malloced>>
      /\ UNCHANGED <<latency, last_bufsize>> /\ (AsMalloced' <=> AsMalloced)
  BY DEF WriteSilence, Copy, Report, sizes, given, Rest, AsMalloced
<1>2. CASE WriteSilence
  <2>1. lpc = "write" /\ frames_in' = 0
        /\ \/ frames_out' = 2 * latency /\ lok' = TRUE /\ lpc' = "loop"
           \/ frames_out' \in {0, 2 * latency - 1} /\ lpc' = "close" /\ lok' = lok
    BY <1>2 DEF WriteSilence
  <2>2. lok' \in BOOLEAN
    BY <2>1, Zenon
  <2>3. Reaches(latency)
    BY <1>2 DEF WriteSilence
  <2>4. reach' \in Int /\ (AsMalloced => reach' <= malloced)
    BY <2>1, <2>3, ReachIs, ReachFits
  <2>5. CopyLoopRight'
    <3>1. BufferFits'
      BY <1>1, <2>4 DEF BufferFits
    <3>2. CapturedIsPlayed'
      BY <1>1, <2>1 DEF CapturedIsPlayed
    <3> QED
      BY <3>1, <3>2 DEF CopyLoopRight
  <2> QED
    BY <1>1, <2>1, <2>2, <2>4, <2>5
<1>3. CASE Copy
  <2>1. lpc = "loop" /\ lok /\ lpc' = "loop" /\ latency >= 1 /\ frames_in >= 0 /\ frames_out >= 2 * latency
    BY <1>3 DEF Copy
  <2>3. CASE \E tr \in Reads : frames_in' = frames_in + tr[1] /\ writebuf(tr[2]) /\ Reaches(tr[2])
    <3>1. PICK tr \in Reads : frames_in' = frames_in + tr[1] /\ writebuf(tr[2]) /\ Reaches(tr[2])
      BY <2>3
    <3>2. tr[1] \in Nat /\ tr[2] \in {1, latency} /\ tr[2] <= tr[1] /\ (~block => tr[2] = tr[1])
      BY <2>1 DEF Reads, Chunks
    <3>7. tr[2] \in Nat /\ tr[2] >= 1
      BY <2>1, <3>2
    <3>3. \/ frames_out' = frames_out + tr[2] /\ lok' = lok
          \/ frames_out' \in {frames_out, frames_out + tr[2] - 1} /\ lok' = FALSE
      BY <3>1 DEF writebuf
    <3>4. lok' \in BOOLEAN
      BY <3>3, Zenon
    <3>5. frames_in' \in Int /\ frames_out' \in Int
      BY <3>1, <3>2, <3>3, <3>7
    <3>8. reach' \in Int /\ BufferFits'
      BY <1>1, <2>1, <3>1, <3>2, ReachIs, ReachFits DEF BufferFits
    <3>9. lok' => frames_in' >= 1 /\ frames_out' >= 2 * latency + 1
      BY <2>1, <3>1, <3>2, <3>3, <3>7
    <3>6. CapturedIsPlayed'
      <4>1. frames_out - 2 * latency <= frames_in /\ (~block => frames_out - 2 * latency = frames_in)
        BY <2>1 DEF CopyLoopRight, CapturedIsPlayed
      <4>2. lok' => /\ frames_out' - 2 * latency <= frames_in'
                    /\ ~block => frames_out' - 2 * latency = frames_in'
        BY <3>1, <3>2, <3>3, <3>7, <4>1
      <4>3. lok' => frames_out' - 2 * latency # 0 /\ frames_in' # 0
        <5>1. \A x, y \in Int : x >= y + 1 => x - y # 0
          OBVIOUS
        <5>2. \A x \in Int : x >= 1 => x # 0
          OBVIOUS
        <5>3. 2 * latency \in Int
          OBVIOUS
        <5> QED
          BY <3>5, <3>9, <5>1, <5>2, <5>3, Zenon
      <4> QED
        BY <1>1, <4>2, <4>3 DEF CapturedIsPlayed
    <3> QED
      BY <1>1, <2>1, <3>4, <3>5, <3>6, <3>8, <3>9 DEF CopyLoopRight
  <2>4. CASE lok' = FALSE /\ UNCHANGED <<frames_out, reach>>
             /\ \E t \in IF block THEN {0, latency - 1} ELSE {0} : frames_in' = frames_in + t
    <3>1. frames_in' \in Int
      BY <2>4
    <3>2. CopyLoopRight'
      BY <1>1, <2>4 DEF CopyLoopRight, BufferFits, CapturedIsPlayed
    <3> QED
      BY <1>1, <2>1, <2>4, <3>1, <3>2
  <2> QED
    BY <1>3, <2>3, <2>4 DEF Copy
<1>4. CASE Report
  <2>1. lpc = "loop" /\ lpc' \in {"close", "setparams"} /\ UNCHANGED <<frames_in, frames_out, lok, reach>>
    BY <1>4 DEF Report, Rest
  <2>2. CopyLoopRight'
    BY <1>1, <2>1 DEF CopyLoopRight, BufferFits, CapturedIsPlayed
  <2> QED
    BY <1>1, <2>1, <2>2
<1> QED
  BY <1>2, <1>3, <1>4

(* The copy loop plays only what it captured, whatever the options ask for,*)
(* whatever sizes the card supports and however often the streams break;   *)
(* and it stays in its buffer if it is run as the buffer is malloced for:  *)
(* without -B, for two channels, with packed samples of two bytes or more, *)
(* on a card whose periods are no longer than latency_max (setparams,      *)
(* readbuf, writebuf).                                                     *)
THEOREM CopiesRight == LatSpec => []CopyLoopRight
<1>1. LatInv /\ [LatNext]_latVars => LatInv'
  <2> SUFFICES ASSUME LatInv, [LatNext]_latVars PROVE LatInv'
    OBVIOUS
  <2>1. CASE UNCHANGED latVars
    BY <2>1 DEF latVars, sizes, given, LatInv, AsMalloced, CopyLoopRight, BufferFits, CapturedIsPlayed
  <2> QED
    BY <2>1, OptionsKeep, SearchKeeps, CopyKeeps DEF LatNext, LatProgram
<1>2. LatInv => CopyLoopRight
  BY DEF LatInv
<1> QED
  BY <1>1, <1>2, LatStarts, PTL DEF LatSpec

-----------------------------------------------------------------------------
(* The mmap example                                                        *)

Half == Width \div 2
MapInv ==
  /\ mpc \in {"start", "parse", "map", "write", "success", "failure"}
  /\ mpc \in {"parse", "map", "write", "success"} =>
       /\ st_size \in FileSizes /\ arg_offset \in Offsets
       /\ arg_length \in {<<n>> : n \in Lengths} \cup {NoArg}
  /\ mpc \in {"map", "write"} => arg_offset < st_size /\ mlength = Clamped
  /\ mpc = "write" => arg_offset >= 0 /\ Mapped # 0 /\ Mapped < Half
  /\ SuccessShowsAsked

-----------------------------------------------------------------------------
LEMMA Halves == Half \in Nat /\ Half >= 1 /\ Width = 2 * Half /\ PageBytes \in 1 .. Half
BY MapAssumption DEF Half

LEMMA Quotient ==
  ASSUME NEW q \in Int, NEW r \in Int, NEW w \in Nat, 0 <= r, r < w
  PROVE  (q * w + r) % w = r /\ (q * w + r) \div w = q
OBVIOUS

LEMMA Remainder ==
  ASSUME NEW a \in Int
  PROVE  /\ 0 <= a /\ a < Width => a % Width = a
         /\ Width <= a /\ a < 2 * Width => a % Width = a - Width
         /\ a < 0 /\ -Width <= a => a % Width = a + Width
<1>1. Width \in Nat /\ Width > 0
  BY MapAssumption
<1>2. 0 <= a /\ a < Width => a % Width = a
  BY <1>1
<1>3. Width <= a /\ a < 2 * Width => a % Width = a - Width
  BY <1>1
<1>4. a < 0 /\ -Width <= a => a % Width = a + Width
  BY <1>1
<1> QED
  BY <1>2, <1>3, <1>4

LEMMA Numbers ==
  ASSUME MapInv, mpc \in {"parse", "map", "write", "success"}
  PROVE  st_size \in Int /\ arg_offset \in Int /\ Clamped \in Int
<1>1. st_size \in FileSizes /\ arg_offset \in Offsets /\ arg_length \in {<<n>> : n \in Lengths} \cup {NoArg}
  BY DEF MapInv
<1>2. st_size \in Int /\ arg_offset \in Int
  <2>1. st_size \in 0 .. Half - 1 /\ arg_offset \in -Half .. Half - 1
    BY <1>1, MapAssumption DEF Half
  <2> QED
    BY <2>1
<1>3. arg_length = NoArg \/ arg_length[1] \in Int
  <2> SUFFICES ASSUME NEW n \in Lengths, arg_length = <<n>> PROVE arg_length[1] \in Int
    BY <1>1
  <2>1. n \in -Half .. Half - 1
    BY MapAssumption DEF Half
  <2> QED
    BY <2>1
<1>4. arg_length # NoArg => arg_length[1] % Width \in Int
  BY <1>3, MapAssumption
<1> QED
  BY <1>2, <1>4 DEF Clamped

(* What the length becomes: what was asked for, or, when a negative length *)
(* wraps before the sum does, nearly all of size_t.                        *)
LEMMA ClampedIs ==
  ASSUME NEW n \in Lengths, arg_length = <<n>>, st_size \in FileSizes, arg_offset \in Offsets,
         0 <= arg_offset, arg_offset < st_size
  PROVE  /\ n >= 0 => Clamped = Smaller(n, st_size - arg_offset)
         /\ n < 0 => Clamped = st_size - arg_offset \/ Clamped = n + Width
<1> DEFINE length == n % Width
<1>1. /\ n \in Int /\ -Half <= n /\ n < Half /\ st_size \in Int /\ st_size < Half
      /\ arg_offset \in Int /\ Half \in Nat /\ Half >= 1 /\ Width = 2 * Half
  <2>1. n \in -Half .. Half - 1 /\ st_size \in 0 .. Half - 1 /\ arg_offset \in -Half .. Half - 1
    BY MapAssumption DEF Half
  <2> QED
    BY <2>1, Halves
<1>2. Clamped = IF (arg_offset + length) % Width > st_size THEN st_size - arg_offset ELSE length
  <2>1. arg_length # NoArg /\ arg_length[1] = n
    BY DEF NoArg
  <2> QED
    BY <2>1 DEF Clamped
<1>3. ASSUME n >= 0 PROVE Clamped = Smaller(n, st_size - arg_offset)
  <2>1. length = n
    BY <1>1, <1>3, Remainder
  <2>2. (arg_offset + n) % Width = arg_offset + n
    <3>1. arg_offset + n \in Int /\ 0 <= arg_offset + n /\ arg_offset + n < Width
      BY <1>1, <1>3
    <3> QED
      BY <3>1, Remainder
  <2>3. Clamped = IF arg_offset + n > st_size THEN st_size - arg_offset ELSE n
    BY <1>2, <2>1, <2>2
  <2> QED
    BY <1>1, <2>3 DEF Smaller
<1>4. ASSUME n < 0 PROVE Clamped = st_size - arg_offset \/ Clamped = n + Width
  <2>1. length = n + Width
    BY <1>1, <1>4, Remainder
  <2> QED
    BY <1>2, <2>1
<1> QED
  BY <1>3, <1>4

(* A length that wrapped is not written whole: what is mapped is what the  *)
(* offset has past the start of its page, less what the length lacks, and  *)
(* a page holds it; or mmap refuses it.                                    *)
LEMMA WrapsShort ==
  ASSUME NEW n \in Int, -Half <= n, n < 0, mlength = n + Width, arg_offset \in Nat,
         Mapped < Half
  PROVE  /\ (pa_offset + ((Mapped + PageBytes - 1) \div PageBytes) * PageBytes) - arg_offset < mlength
         /\ Mapped = n + (arg_offset % PageBytes)
<1> DEFINE r == arg_offset % PageBytes  m == n + Width + r
<1>1. PageBytes \in Nat /\ PageBytes >= 1 /\ PageBytes <= Half /\ Half \in Nat /\ Width = 2 * Half
  BY Halves
<1>2. r \in Nat /\ r < PageBytes /\ pa_offset = arg_offset - r
  BY <1>1 DEF pa_offset
<1> HIDE DEF r
<1>3. Mapped = m % Width
  <2>1. mlength + arg_offset - pa_offset = m
    BY <1>1, <1>2
  <2> QED
    BY <2>1 DEF Mapped
<1>4. m \in Int /\ m >= Width - Half /\ m < 2 * Width
  BY <1>1, <1>2
<1> HIDE DEF m
<1>5. m >= Width
  <2> SUFFICES ASSUME m < Width PROVE FALSE
    BY <1>1, <1>4
  <2>1. Mapped = m
    BY <1>1, <1>3, <1>4, Remainder
  <2> QED
    BY <1>1, <1>4, <2>1
<1>6. Mapped = n + r
  <2>1. Mapped = m - Width
    BY <1>1, <1>3, <1>4, <1>5, Remainder
  <2> QED
    BY <1>1, <1>2, <2>1 DEF m
<1>7. n + r >= 0
  BY <1>1, <1>2, <1>5 DEF m
<1> DEFINE k == Mapped + PageBytes - 1  pages == (k \div PageBytes) * PageBytes
<1>8. k \in Nat /\ k < 2 * PageBytes
  BY <1>1, <1>2, <1>6, <1>7
<1> HIDE DEF k
<1>9. k \div PageBytes \in {0, 1}
  BY <1>1, <1>8
<1>10. pages \in Nat /\ pages <= PageBytes
  BY <1>1, <1>9
<1> HIDE DEF pages
<1>11. (pa_offset + pages) - arg_offset <= PageBytes - r
  BY <1>1, <1>2, <1>10
<1>12. PageBytes - r < mlength
  BY <1>1, <1>2, <1>7
<1> QED
  <2>1. (pa_offset + pages) - arg_offset < mlength
    BY <1>1, <1>2, <1>10, <1>11, <1>12
  <2>2. (pa_offset + ((Mapped + PageBytes - 1) \div PageBytes) * PageBytes) - arg_offset < mlength
    BY <2>1 DEF pages, k
  <2>3. Mapped = n + (arg_offset % PageBytes)
    BY <1>6 DEF r
  <2> QED
    BY <2>2, <2>3

(* What is mapped reaches past the offset.                                 *)
LEMMA MapsSome ==
  ASSUME arg_offset \in Nat, mlength \in Int, Mapped # 0
  PROVE  LET pages == ((Mapped + PageBytes - 1) \div PageBytes) * PageBytes
         IN  (pa_offset + pages) - arg_offset \in Nat
<1> DEFINE r == arg_offset % PageBytes  k == Mapped + PageBytes - 1  q == k \div PageBytes
<1>1. PageBytes \in Nat /\ PageBytes >= 1 /\ Width \in Nat /\ Width >= 1
  BY Halves
<1>2. r \in Nat /\ r < PageBytes /\ pa_offset = arg_offset - r
  BY <1>1 DEF pa_offset
<1> HIDE DEF r
<1>3. mlength + arg_offset - pa_offset \in Int
  BY <1>1, <1>2
<1>4. Mapped \in Nat /\ Mapped >= 1
  BY <1>1, <1>3 DEF Mapped
<1>5. k \in Nat /\ k >= PageBytes
  BY <1>1, <1>4
<1> HIDE DEF k
<1>6. q \in Nat /\ q >= 1
  BY <1>1, <1>5
<1> HIDE DEF q
<1>7. q * PageBytes \in Nat /\ q * PageBytes >= PageBytes
  <2>1. q * PageBytes = (q - 1) * PageBytes + PageBytes /\ (q - 1) * PageBytes \in Nat
    BY <1>1, <1>6
  <2> QED
    BY <1>1, <1>6, <2>1
<1> DEFINE p == q * PageBytes
<1>8. p \in Nat /\ p >= PageBytes
  BY <1>7
<1> HIDE DEF p
<1>9. (pa_offset + p) - arg_offset \in Nat
  BY <1>1, <1>2, <1>8
<1> QED
  BY <1>9 DEF p, q, k

LEMMA WritesAsked ==
  ASSUME MapInv, MapWrite
  PROVE  MapInv'
<1> USE DEF MapInv
<1> DEFINE pages == ((Mapped + PageBytes - 1) \div PageBytes) * PageBytes
           end == pa_offset + pages
           wrote == Smaller(mlength, end - arg_offset)
           rest == st_size - arg_offset
<1>1. /\ mpc = "write" /\ UNCHANGED <<st_size, arg_offset, arg_length, mlength>>
      /\ \E s \in {-1, wrote, wrote \div 2} :
           /\ shown' = IF s = -1 THEN {} ELSE {<<arg_offset, arg_offset + s>>}
           /\ mpc' = IF s % Width = mlength THEN "success" ELSE "failure"
  BY DEF MapWrite
<1>2. /\ st_size \in FileSizes /\ arg_offset \in Offsets /\ 0 <= arg_offset /\ arg_offset < st_size
      /\ arg_length \in {<<n>> : n \in Lengths} \cup {NoArg} /\ mlength = Clamped
      /\ Mapped # 0 /\ Mapped < Half
  BY <1>1
<1>3. st_size \in Nat /\ st_size < Half /\ arg_offset \in Nat /\ rest \in Nat /\ rest < Half
  <2>1. st_size \in 0 .. Half - 1 /\ arg_offset \in -Half .. Half - 1
    BY <1>2, MapAssumption DEF Half
  <2> QED
    BY <1>2, <2>1, Halves
<1> DEFINE wanted == IF arg_length = NoArg THEN rest
                    ELSE IF arg_length[1] < 0 THEN rest ELSE Smaller(arg_length[1], rest)
           wraps == /\ mlength # wanted /\ mlength \in Int /\ end - arg_offset < mlength
                    /\ \E n \in Int : /\ -Half <= n /\ n < 0 /\ arg_length = <<n>>
                                      /\ mlength = n + Width /\ Mapped = n + (arg_offset % PageBytes)
\* The length is what was asked for, or has wrapped.
<1>4. (mlength = wanted /\ mlength \in 0 .. Half) \/ wraps
  <2>1. CASE arg_length = NoArg
    BY <1>2, <1>3, <2>1, Halves DEF Clamped
  <2>2. CASE arg_length # NoArg
    <3>1. PICK n \in Lengths : arg_length = <<n>>
      BY <1>2, <2>2
    <3>2. arg_length[1] = n /\ n \in Int /\ -Half <= n
      <4>1. n \in -Half .. Half - 1
        BY MapAssumption DEF Half
      <4> QED
        BY <3>1, <4>1, Halves
    <3>3. CASE n >= 0
      <4>1. mlength = Smaller(n, rest)
        BY <1>2, <3>1, <3>3, ClampedIs
      <4>2. mlength = wanted
        BY <2>2, <3>2, <3>3, <4>1
      <4>3. mlength \in 0 .. Half
        BY <1>3, <3>2, <3>3, <4>1, Halves DEF Smaller
      <4> QED
        BY <4>2, <4>3
    <3>4. CASE n < 0
      <4>1. mlength = rest \/ mlength = n + Width
        BY <1>2, <3>1, <3>4, ClampedIs
      <4>2. wanted = rest
        BY <2>2, <3>2, <3>4
      <4>3. CASE mlength = rest
        BY <1>3, <4>2, <4>3, Halves
      <4>4. CASE mlength = n + Width /\ mlength # rest
        <5>1. end - arg_offset < mlength /\ Mapped = n + (arg_offset % PageBytes)
          BY <1>2, <1>3, <3>2, <3>4, <4>4, WrapsShort
        <5>2. mlength \in Int
          BY <3>2, <4>4, Halves
        <5> HIDE DEF end, wanted
        <5> QED
          BY <3>1, <3>2, <3>4, <4>2, <4>4, <5>1, <5>2
      <4> QED
        BY <4>1, <4>3, <4>4
    <3> QED
      BY <3>2, <3>3, <3>4
  <2> QED
    BY <2>1, <2>2
<1>5. mlength \in Nat /\ mlength < Width
  <2>1. CASE wraps
    BY <2>1, Halves
  <2>2. CASE mlength \in 0 .. Half
    BY <2>2, Halves
  <2> HIDE DEF wraps, wanted
  <2> QED
    BY <1>4, <2>1, <2>2
<1>6. end - arg_offset \in Nat
  BY <1>2, <1>3, <1>5, MapsSome
<1> DEFINE room == end - arg_offset
<1>7. room \in Nat /\ wrote = Smaller(mlength, room) /\ (wraps => room < mlength)
  BY <1>6
<1> HIDE DEF room
<1>8. wrote \in Nat /\ wrote <= mlength /\ (wraps => wrote < mlength)
  <2> HIDE DEF wraps, wrote
  <2> QED
    BY <1>5, <1>7 DEF Smaller
<1> HIDE DEF wrote, wanted
\* What write returns is compared modulo the width.
<1>9. ASSUME mpc' = "success"
      PROVE  \/ shown' = {<<arg_offset, arg_offset + wanted>>}
             \/ shown' = {} /\ arg_length = <<-1>> /\ arg_offset % PageBytes >= 2
  <2>1. PICK s \in {-1, wrote, wrote \div 2} :
           shown' = (IF s = -1 THEN {} ELSE {<<arg_offset, arg_offset + s>>}) /\ s % Width = mlength
    BY <1>1, <1>9
  <2>2. CASE s = -1
    <3>1. mlength = Width - 1 /\ shown' = {}
      <4>1. (-1) % Width = -1 + Width
        <5>1. -1 \in Int /\ -1 < 0 /\ -Width <= -1
          BY Halves
        <5> QED
          BY <5>1, Remainder
      <4> QED
        BY <2>1, <2>2, <4>1, Halves
    <3>2. CASE wraps
      <4> HIDE DEF end
      <4>1. PICK n \in Int : arg_length = <<n>> /\ mlength = n + Width /\ Mapped = n + (arg_offset % PageBytes)
        BY <3>2
      <4>2. n = -1
        BY <3>1, <4>1, Halves
      <4>3. arg_offset % PageBytes \in Nat
        BY <1>3, Halves
      <4>4. arg_offset % PageBytes >= 2
        <5>1. Mapped >= 0
          <6>1. mlength + arg_offset - pa_offset \in Int
            BY <1>3, <1>5, Halves DEF pa_offset
          <6> QED
            BY <6>1, Halves DEF Mapped
        <5>2. Mapped = -1 + (arg_offset % PageBytes)
          BY <4>1, <4>2
        <5>3. Mapped # 0
          BY <1>2
        <5> HIDE DEF Mapped
        <5> DEFINE r == arg_offset % PageBytes
        <5>4. r \in Nat /\ Mapped = -1 + r
          BY <4>3, <5>2
        <5> HIDE DEF r
        <5>5. r >= 2
          BY <5>1, <5>3, <5>4
        <5> QED
          BY <5>5 DEF r
      <4> QED
        BY <3>1, <4>1, <4>2, <4>4
    <3>3. CASE mlength = wanted /\ mlength \in 0 .. Half
      <4>1. Width - 1 <= Half /\ Half = 1
        BY <3>1, <3>3, Halves
      <4>2. FALSE
        BY <1>2, <1>3, <3>1, <3>3, <4>1, Halves
      <4> QED
        BY <4>2
    <3> QED
      BY <1>4, <3>2, <3>3
  <2>3. CASE s # -1
    <3>1. s \in Nat /\ s <= wrote
      BY <1>8, <2>1, <2>3
    <3>2. s % Width = s
      <4>1. s \in Int /\ 0 <= s /\ s < Width
        BY <1>5, <1>8, <3>1, Halves
      <4> QED
        BY <4>1, Remainder
    <3>3. s = mlength /\ ~wraps
      BY <1>5, <1>8, <2>1, <3>1, <3>2
    <3> QED
      BY <1>4, <2>1, <2>3, <3>3
  <2> QED
    BY <2>2, <2>3
<1>10. mpc' \in {"success", "failure"}
  BY <1>1
<1>11. SuccessShowsAsked'
  BY <1>1, <1>9 DEF SuccessShowsAsked, wanted
<1> QED
  BY <1>1, <1>2, <1>10, <1>11

(* The program succeeds only when it has shown what was asked for - or     *)
(* nothing, if the length was -1, the offset not at the start of a page    *)
(* and write failed - for every width of size_t, page size and file size   *)
(* that off_t counts (mmap_test.c).                                        *)
THEOREM ShowsAsked == MapSpec => []SuccessShowsAsked
<1>1. MapInit => MapInv
  BY DEF MapInit, MapInv, SuccessShowsAsked
<1>2. MapInv /\ [MapNext]_mapVars => MapInv'
  <2> SUFFICES ASSUME MapInv, [MapNext]_mapVars PROVE MapInv'
    OBVIOUS
  <2> USE DEF MapInv
  <2>1. CASE UNCHANGED mapVars
    BY <2>1 DEF mapVars, SuccessShowsAsked, Clamped, Mapped, pa_offset
  <2>2. CASE MapArgs
    BY <2>2 DEF MapArgs, SuccessShowsAsked
  <2>3. CASE MapParse
    <3>1. /\ mpc = "parse" /\ UNCHANGED <<st_size, arg_offset, arg_length>>
          /\ mpc' = "failure" \/ (mpc' = "map" /\ arg_offset < st_size /\ mlength' = Clamped)
      <4>1. mpc = "parse" /\ st_size \in Int /\ arg_offset \in Int
        BY <2>3, Numbers DEF MapParse
      <4> QED
        BY <2>3, <4>1 DEF MapParse, MapFails
    <3>2. Clamped' = Clamped
      BY <3>1 DEF Clamped
    <3> QED
      BY <3>1, <3>2 DEF SuccessShowsAsked
  <2>4. CASE MapFile
    <3>1. /\ mpc = "map" /\ UNCHANGED <<st_size, arg_offset, arg_length, mlength>>
          /\ \/ mpc' = "failure"
             \/ mpc' = "write" /\ ~(arg_offset < 0 \/ Mapped = 0 \/ Mapped >= Half)
      BY <2>4 DEF MapFile, MapFails, Half
    <3>2. Clamped' = Clamped /\ Mapped' = Mapped
      BY <3>1 DEF Clamped, Mapped, pa_offset
    <3>3. arg_offset \in Int /\ Mapped \in Int
      <4>1. st_size \in Int /\ arg_offset \in Int /\ Clamped \in Int
        BY <3>1, Numbers
      <4>2. pa_offset \in Int
        BY <4>1, Halves DEF pa_offset
      <4> QED
        BY <3>1, <4>1, <4>2, Halves DEF Mapped
    <3>4. /\ mpc = "map" /\ (mpc' = "failure" \/ mpc' = "write")
          /\ mpc' = "write" => arg_offset >= 0 /\ Mapped # 0 /\ Mapped < Half
      BY <3>1, <3>3, Halves
    <3>5. SuccessShowsAsked'
      BY <3>4 DEF SuccessShowsAsked
    <3>6. Half' = Half
      BY DEF Half
    <3> HIDE DEF MapInv
    <3>7. MapInv'
      BY <3>1, <3>2, <3>4, <3>5, <3>6 DEF MapInv
    <3> QED
      BY <3>7
  <2> QED
    BY <2>1, <2>2, <2>3, <2>4, WritesAsked DEF MapNext
<1>3. MapInv => SuccessShowsAsked
  BY DEF MapInv
<1> QED
  BY <1>1, <1>2, <1>3, PTL DEF MapSpec
=============================================================================
