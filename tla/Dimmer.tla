-------------------------------- MODULE Dimmer --------------------------------
(***************************************************************************)
(* The firmware of a three colour LED dimmer (stm8_pwm/main.c): one key    *)
(* steps the brightness, the other the colour, and set_color loads the     *)
(* three compare registers of the PWM timer from the duty tables.  Which   *)
(* key is down when is up to the user.                                     *)
(***************************************************************************)
EXTENDS Integers, Sequences

CONSTANT Beyond \* bound: what may lie behind a duty table

VARIABLES
  scan,                \* the key looked at next
  brightness1, color1,
  ccr                  \* TIM2_CCR3, 2 and 1: red, blue and green

dimVars == <<scan, brightness1, color1, ccr>>

Duties == <<0, 8, 14, 21, 29, 33, 50>> \* duty_table_r, _g and _b
(* The tables have seven entries, the guard of three_color lets eight      *)
(* indices pass.                                                           *)
Duty(i) == IF i < Len(Duties) THEN {Duties[i + 1]} ELSE Beyond

three_color(red, blue, green) ==
  IF red > 7 \/ blue > 7 \/ green > 7 THEN UNCHANGED ccr
  ELSE \E r \in Duty(red), b \in Duty(blue), g \in Duty(green) : ccr' = <<r, b, g>>

(* Which of red, blue and green a colour lights.                           *)
Lit(color) ==
  CASE color = 1 -> <<1, 0, 0>> [] color = 2 -> <<0, 1, 0>> [] color = 3 -> <<0, 0, 1>>
    [] color = 4 -> <<0, 1, 1>> [] color = 5 -> <<1, 1, 0>> [] color = 6 -> <<1, 1, 1>>
    [] color = 7 -> <<1, 0, 1>>

set_color(color, b) ==
  LET lit == Lit(color) IN three_color(b * lit[1], b * lit[2], b * lit[3])

DimInit ==
  /\ scan = "start" /\ brightness1 = 1 /\ color1 = 1
  /\ ccr = <<4, 4, 4>>

FirstColor ==
  /\ scan = "start" /\ scan' = "bright"
  /\ set_color(color1, brightness1) /\ UNCHANGED <<brightness1, color1>>

(* Seeded bug: the key goes one step further.                              *)
BrightKey_far ==
  /\ scan = "bright" /\ scan' = "color" /\ UNCHANGED color1
  /\ \/ UNCHANGED <<brightness1, ccr>>
     \/ /\ brightness1' = IF brightness1 + 1 > 8 THEN 0 ELSE brightness1 + 1
        /\ set_color(color1, brightness1')

(* The second test of a key looks at the sample of the first, so one low   *)
(* sample is a press, and a key that is held steps again and again.        *)
BrightKey ==
  /\ scan = "bright" /\ scan' = "color" /\ UNCHANGED color1
  /\ \/ UNCHANGED <<brightness1, ccr>>
     \/ /\ brightness1' = IF brightness1 + 1 > 7 THEN 0 ELSE brightness1 + 1
        /\ set_color(color1, brightness1')

ColorKey ==
  /\ scan = "color" /\ scan' = "bright" /\ UNCHANGED brightness1
  /\ \/ UNCHANGED <<color1, ccr>>
     \/ /\ color1' = IF color1 + 1 > 7 THEN 1 ELSE color1 + 1
        /\ set_color(color1', brightness1)

DimNext == FirstColor \/ BrightKey \/ ColorKey
DimSpec == DimInit /\ [][DimNext]_dimVars

-----------------------------------------------------------------------------
(* Properties                                                              *)

(* After every key the LED shows the colour and brightness the firmware    *)
(* remembers: the colour's channels burn as the tables have it for the     *)
(* brightness, whatever key changed last, and the others are dark.  At     *)
(* brightness 7, which the keys reach and three_color lets pass, the       *)
(* channels that burn do so with what lies behind the tables, and still no *)
(* others do; further the keys do not go (three_color, set_color).         *)
DutyShown ==
  scan # "start" =>
    /\ brightness1 <= Len(Duties)
    /\ \A i \in 1 .. 3 :
         IF Lit(color1)[i] = 0 THEN ccr[i] = Duties[1] ELSE ccr[i] \in Duty(brightness1)
=============================================================================
