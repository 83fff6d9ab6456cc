------------------------------ MODULE MCProgress ------------------------------
(* Programs for TLC that must get somewhere: pty, the LCD driver, the      *)
(* latency test, popen, coprocesses and the work queue; with them the      *)
(* dimmer and the file map.  They share nothing: a behaviour is one of one *)
(* of them, the others stay as they start.                                 *)
EXTENDS Pty, Lcd, Latency, Dimmer, FileMap, Popen, Coproc, WorkQueue, TLC

VARIABLE running

Either == {TRUE, FALSE}

Display(t, b, x, y, f) ==
  [type |-> t, bpp |-> b, xres |-> x, yres |-> y, pixclock |-> 7, frm565 |-> f]
TheBoards ==
  { <<Display("TFT", 8, 8, 3, FALSE), Display("TFT", 16, 8, 6, TRUE)>>,
    <<Display("STN4", 1, 8, 2, FALSE), Display("STN4", 12, 8, 2, FALSE)>> }
TheColors == { [red |-> 65535, green |-> 64000, blue |-> 33000],
               [red |-> 2048, green |-> 65535, blue |-> 0] }
TheFormats == {[width |-> 1, bytes |-> 1], [width |-> 3, bytes |-> 4]}
TheOffsets == {-3, 0, 1, 3, 5, 6, 8}
TheLengths == {-5, -2, -1, 0, 1, 3, 9}

devices == <<lcdVars, latVars, dimVars, mapVars>>
kids == <<popenVars, coVars, workVars>>
all == <<ptyVars, devices, kids, running>>

AnyBoard == CHOOSE b \in Boards : TRUE
Init ==
  /\ PtyInit /\ LcdInit /\ LatInit /\ DimInit /\ MapInit /\ PopenInit /\ CoInit /\ WorkInit
  /\ running \in {"pty", "lcd", "latency", "dimmer", "filemap", "popen", "coproc", "work"}
  /\ running # "pty" => interactive = TRUE /\ ignoreeof = TRUE
  /\ running # "lcd" => displays = AnyBoard /\ display = AnyBoard[1]

PtyOnly == running = "pty" /\ UNCHANGED <<devices, kids, running>>
LcdOnly == running = "lcd" /\ UNCHANGED <<ptyVars, latVars, dimVars, mapVars, kids, running>>
LatOnly == running = "latency" /\ UNCHANGED <<ptyVars, lcdVars, dimVars, mapVars, kids, running>>
DimOnly == running = "dimmer" /\ UNCHANGED <<ptyVars, lcdVars, latVars, mapVars, kids, running>>
MapOnly == running = "filemap" /\ UNCHANGED <<ptyVars, lcdVars, latVars, dimVars, kids, running>>
PopenOnly == running = "popen" /\ UNCHANGED <<ptyVars, devices, coVars, workVars, running>>
CoOnly == running = "coproc" /\ UNCHANGED <<ptyVars, devices, popenVars, workVars, running>>
WorkOnly == running = "work" /\ UNCHANGED <<ptyVars, devices, popenVars, coVars, running>>

PtyStep == PtyOnly /\ PtyNext
LcdStep == LcdOnly /\ LcdNext
LatStep == LatOnly /\ LatNext
DimStep == DimOnly /\ DimNext
MapStep == MapOnly /\ MapNext
PopenStep == PopenOnly /\ PopenNext
CoStep == CoOnly /\ CoNext
WorkStep == WorkOnly /\ WorkNext
Next == PtyStep \/ LcdStep \/ LatStep \/ DimStep \/ MapStep \/ PopenStep \/ CoStep \/ WorkStep

(* Frames keep coming and the controller is not always busy.  What is      *)
(* scheduled goes on by itself.  A command ends when it must and need not  *)
(* before; a coprocess, at the end of its input.  A signal need not come,  *)
(* nor a request to die.                                                   *)
Fairness ==
  /\ WF_ptyVars(PtyOnly /\ ParentStep) /\ WF_ptyVars(PtyOnly /\ Deliver)
  /\ WF_ptyVars(PtyOnly /\ Copier) /\ WF_ptyVars(PtyOnly /\ CopierKilled)
  /\ \A i \in PaletteRegs : WF_lcdVars(LcdOnly /\ EntryTaken(i))
  /\ WF_latVars(LatOnly /\ LatProgram)
  /\ WF_popenVars(PopenOnly /\ waitpid)
  /\ \A k \in Kids : /\ WF_popenVars(PopenOnly /\ popen_child(k))
                     /\ WF_popenVars(PopenOnly /\ MustEnd(k) /\ CommandEnds(k))
  /\ WF_coVars(CoOnly /\ ParentGoes) /\ WF_coVars(CoOnly /\ ChildGoes)
  /\ WF_workVars(WorkOnly /\ worker) /\ \A w \in Works : WF_workVars(WorkOnly /\ submit(w))
Spec == Init /\ [][Next]_all /\ Fairness
=============================================================================
