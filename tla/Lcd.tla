--------------------------------- MODULE Lcd ---------------------------------
(***************************************************************************)
(* The frame buffer driver of the S3C2440's LCD controller                 *)
(* (excerpts/s3c2440_LCD_driver.c): probe and remove with what they hold,  *)
(* the copies of the controller's registers, suspend and resume, and the   *)
(* palette, which the frame interrupt fills from palette_buffer.  The      *)
(* kernel calls the driver's operations one at a time; the interrupt comes *)
(* between any two steps that do not mask it.                              *)
(***************************************************************************)
EXTENDS Integers, Sequences, FiniteSets

CONSTANTS
  Boards,      \* sets of displays a board may describe, as sequences
  PaletteRegs, \* bound: palette registers in use, of the 256
  Colors,      \* bound: colours asked for, [red, green, blue] of 16 bits
  PageSize,
  Hclk,        \* clk_get_rate
  Pow2, Pow5   \* 2^12 and 5^12, the factors of 10^12, to scale

ASSUME LcdAssumption ==
  /\ \A b \in Boards : Len(b) \in Nat \ {0} /\ DOMAIN b = 1 .. Len(b)
  /\ \A b \in Boards : \A i \in DOMAIN b : b[i].bpp \in Nat /\ b[i].xres \in Nat /\ b[i].yres \in Nat
  /\ \A c \in Colors : c.red \in Nat /\ c.green \in Nat /\ c.blue \in Nat
  /\ PageSize \in Nat \ {0}

VARIABLES
  fb,             \* where the driver is in its life
  step,           \* the next step of probe
  held,           \* what a bound driver holds
  leaked,         \* what failed probes have left behind
  displays,       \* mach_info->displays
  display,        \* its default_display
  regs,           \* fbvar->regs.lcdcon1 and fbinfo->fix
  hw,             \* the controller's registers
  palette_buffer, palette_ready,
  setting,        \* the entry between setcolreg's two steps, or none
  asked,          \* the value last given to schedule_palette_update
  pseudo_pal,
  slept           \* power went while entries waited (history)

board == <<displays, display>>
palette == <<palette_buffer, palette_ready, setting, asked, pseudo_pal>>
lcdVars == <<fb, step, held, leaked, board, regs, hw, palette, slept>>

CLEAR == -1    \* PALETTE_BUFF_CLEAR
None == <<>>
MaxOf(S) == CHOOSE x \in S : \A y \in S : y <= x
SmemLen(d) == (d.xres * d.yres * d.bpp) \div 8

(* What probe acquires, in order; irqno and res are only looked up.        *)
Acquired == <<"fbinfo", "irqno", "res", "mem", "base", "clock", "irq", "video", "registered">>
Lookups == {"irqno", "res"}

(* The labels at the end of probe stand in the order of acquisition, and   *)
(* each falls through to the next.                                         *)
FreedFrom(failed) ==
  CASE failed \in {"irqno", "res", "mem"} -> {}
    [] failed = "base" -> {"mem", "base", "clock", "irq", "fbinfo", "video"}
    [] failed = "clock" -> {"base", "clock", "irq", "fbinfo", "video"}
    [] failed = "fbinfo" -> {"irq", "fbinfo", "video"}
    [] failed = "irq" -> {"clock", "irq", "fbinfo", "video"}
    [] failed = "video" -> {"fbinfo", "video"}
    [] failed = "registered" -> {"video"}

-----------------------------------------------------------------------------
(* Registers                                                               *)

Reset == [lcdcon1 |-> None, saddr |-> <<0, 0>>, tpal |-> FALSE, masked |-> TRUE,
          pal |-> [i \in PaletteRegs |-> 0]]
Envid(con) == con # None /\ con.envid

(* The fields of a pixel: offset and length of red, green and blue.        *)
Grey(bpp) == << <<0, bpp>>, <<0, bpp>>, <<0, bpp>> >>
TrueFields(d) ==
  CASE d.bpp = 12 -> << <<8, 4>>, <<4, 4>>, <<0, 4>> >>
    [] d.bpp = 16 /\ d.frm565 -> << <<11, 5>>, <<5, 6>>, <<0, 5>> >>
    [] d.bpp = 16 /\ ~d.frm565 -> << <<11, 5>>, <<6, 5>>, <<1, 5>> >>
    [] d.bpp = 32 -> << <<16, 8>>, <<8, 8>>, <<0, 8>> >>
Fields(d) ==
  CASE d.bpp \in {1, 2, 4} -> Grey(d.bpp)
    [] d.bpp = 8 /\ d.type # "TFT" -> << <<5, 3>>, <<2, 3>>, <<0, 2>> >>
    [] d.bpp = 8 /\ d.type = "TFT" -> Grey(8)
    [] d.bpp \notin {1, 2, 4, 8} -> TrueFields(d)

check_var(r) ==
  [r EXCEPT !.lcdcon1 = [type |-> display.type, bpp |-> {}, clkval |-> {}, envid |-> FALSE],
            !.fields = Fields(display)]

calc_pixclk(pixclk) == ((Hclk * pixclk) \div Pow2) \div Pow5

(* config_tft_lcd_regs and config_stn_lcd_regs: the bits of an invalid     *)
(* depth are left out.                                                     *)
TftModes == {1, 2, 4, 8, 16, 32}
StnModes == {1, 2, 4, 8, 12}

ClkDiv(type) ==
  LET half == calc_pixclk(display.pixclock) \div 2
  IN  IF type = "TFT" THEN MaxOf({half - 1, 0}) ELSE MaxOf({half, 2})

Configured(con) ==
  LET modes == IF con.type = "TFT" THEN TftModes ELSE StnModes
  IN  [con EXCEPT !.bpp = @ \cup ({display.bpp} \cap modes),
                  !.clkval = @ \cup {ClkDiv(con.type)},
                  !.envid = TRUE]

set_lcdaddr(line_length) == <<0, (line_length * display.yres) \div 2>>

(* Seeded bug: the frame address is left to what power-off made of it.     *)
activate_var_cold(r, h) ==
  LET con == Configured(r.lcdcon1)
  IN  /\ regs' = [r EXCEPT !.lcdcon1 = con]
      /\ hw' = [h EXCEPT !.lcdcon1 = con]

(* my2440fb_activate_var, on the copies and on the controller.             *)
activate_var(r, h) ==
  LET con == Configured(r.lcdcon1)
  IN  /\ regs' = [r EXCEPT !.lcdcon1 = con]
      /\ hw' = [h EXCEPT !.lcdcon1 = con, !.saddr = set_lcdaddr(r.line_length)]

lcd_enable(r, on) == [r EXCEPT !.lcdcon1.envid = on]

Visual(bpp) ==
  CASE bpp \in {12, 16, 32} -> "truecolor" [] bpp = 1 -> "mono" [] OTHER -> "pseudocolor"

-----------------------------------------------------------------------------
(* probe and remove                                                        *)

LcdInit ==
  /\ fb = "absent" /\ step = 1 /\ held = {} /\ leaked = {}
  /\ \E b \in Boards : displays = b /\ \E i \in DOMAIN b : display = b[i]
  /\ regs = [lcdcon1 |-> None, line_length |-> 0, smem_len |-> 0, visual |-> "unset", fields |-> None]
  /\ hw = Reset
  /\ palette_buffer = [i \in PaletteRegs |-> CLEAR] /\ palette_ready = FALSE
  /\ setting = None /\ asked = [i \in PaletteRegs |-> 0]
  /\ pseudo_pal = [i \in PaletteRegs |-> None] /\ slept = FALSE

lcd_init ==
  /\ fb \in {"absent", "failed"} /\ fb' = "probing" /\ step' = 1
  /\ UNCHANGED <<held, leaked, board, regs, hw, palette, slept>>

(* Another owner keeps what is exclusive.                                  *)
Available(r) == r \in {"mem", "irq"} => r \notin leaked

Prepared ==
  check_var([regs EXCEPT !.line_length = 0, !.visual = "unset",
                         !.smem_len = MaxOf({SmemLen(displays[i]) : i \in DOMAIN displays})])
(* Filling fb_info and init_registers come before the video memory.        *)
Prepare ==
  IF Acquired[step] = "video"
  THEN /\ regs' = Prepared
       /\ hw' = [hw EXCEPT !.tpal = FALSE]
       /\ palette_buffer' = [i \in PaletteRegs |-> CLEAR] /\ palette_ready' = FALSE
       /\ asked' = hw.pal /\ UNCHANGED setting
       /\ pseudo_pal' = [i \in PaletteRegs |-> None]
  ELSE UNCHANGED <<regs, hw, palette>>

ProbeStep ==
  /\ fb = "probing" /\ Available(Acquired[step])
  /\ held' = held \cup ({Acquired[step]} \ Lookups)
  /\ IF step < Len(Acquired) THEN step' = step + 1 /\ UNCHANGED fb
     ELSE fb' = "bound" /\ step' = 1
  /\ Prepare
  /\ UNCHANGED <<leaked, board, slept>>

(* Without an fb_info the error path reads through a null pointer; the     *)
(* paths that release it read it afterwards.                               *)
ProbeFail ==
  /\ fb = "probing" /\ Prepare
  /\ \/ /\ Acquired[step] # "fbinfo" /\ fb' = "failed"
        /\ leaked' = leaked \cup (held \ FreedFrom(Acquired[step]))
     \/ /\ "fbinfo" \in FreedFrom(Acquired[step])
        /\ fb' = "oops" /\ UNCHANGED leaked
  /\ held' = {} /\ step' = 1
  /\ UNCHANGED <<board, slept>>

RemoveUnregister ==
  /\ fb = "bound" /\ setting = None /\ fb' = "unregistered"
  /\ held' = held \ {"registered"}
  /\ UNCHANGED <<step, leaked, board, regs, hw, palette, slept>>

RemoveDisable ==
  /\ fb = "unregistered" /\ fb' = "disabled"
  /\ regs' = lcd_enable(regs, FALSE) /\ hw' = [hw EXCEPT !.lcdcon1 = regs'.lcdcon1]
  /\ UNCHANGED <<step, held, leaked, board, palette, slept>>

(* Seeded bug: the memory goes while the controller is still on.           *)
RemoveMemory_first ==
  /\ fb \in {"unregistered", "disabled"} /\ fb' = "released"
  /\ held' = held \ {"video", "fbinfo"}
  /\ UNCHANGED <<step, leaked, board, regs, hw, palette, slept>>

(* unmap_video_memory and framebuffer_release                              *)
RemoveMemory ==
  /\ fb = "disabled" /\ fb' = "released"
  /\ held' = held \ {"video", "fbinfo"}
  /\ UNCHANGED <<step, leaked, board, regs, hw, palette, slept>>

(* free_irq, the clock and the mapping: all found through the fbvar that   *)
(* has just been released.                                                 *)
RemoveRest ==
  /\ fb = "released"
  /\ \/ fb' = "absent" /\ held' = held \ {"irq", "clock", "base", "mem"}
     \/ fb' = "oops" /\ held' = {}
  /\ UNCHANGED <<step, leaked, board, regs, hw, palette, slept>>
-----------------------------------------------------------------------------
(* Suspend and resume.  The controller's registers lose their contents     *)
(* when the power goes.                                                    *)

lcd_fb_suspend ==
  /\ fb = "bound" /\ setting = None /\ fb' = "suspended"
  /\ regs' = lcd_enable(regs, FALSE)
  /\ held' = held \ {"clock"}
  /\ \E powered \in BOOLEAN :
       /\ hw' = IF powered THEN [hw EXCEPT !.lcdcon1 = regs'.lcdcon1] ELSE Reset
       /\ slept' = (slept \/ (~powered /\ palette_ready))
  /\ UNCHANGED <<step, leaked, board, palette>>

lcd_fb_resume ==
  /\ fb = "suspended" /\ fb' = "bound"
  /\ held' = held \cup {"clock"}
  /\ activate_var(regs, [hw EXCEPT !.tpal = FALSE]) \* blank(FB_BLANK_UNBLANK): on, tpal 0
  /\ UNCHANGED <<step, leaked, board, palette, slept>>

-----------------------------------------------------------------------------
(* my2440fb_ops                                                            *)

Ready == fb = "bound" /\ setting = None

set_par ==
  /\ Ready
  /\ activate_var([regs EXCEPT !.visual = Visual(display.bpp),
                               !.line_length = (display.xres * display.bpp) \div 8], hw)
  /\ UNCHANGED <<fb, step, held, leaked, board, palette, slept>>

blank(mode) ==
  /\ Ready
  /\ regs' = lcd_enable(regs, mode # "powerdown")
  /\ hw' = [hw EXCEPT !.lcdcon1 = regs'.lcdcon1, !.tpal = (mode # "unblank")]
  /\ UNCHANGED <<fb, step, held, leaked, board, palette, slept>>

chan_to_field(chan, f) == ((chan % 2^16) \div 2^(16 - f[2])) * 2^(f[1])

SetTrueColor(i, c) ==
  /\ Ready /\ regs.visual = "truecolor" /\ i < 16
  /\ pseudo_pal' = [pseudo_pal EXCEPT ![i] =
       [color |-> c,
        pixel |-> chan_to_field(c.red, regs.fields[1]) + chan_to_field(c.green, regs.fields[2])
                    + chan_to_field(c.blue, regs.fields[3])]]
  /\ UNCHANGED <<fb, step, held, leaked, board, regs, hw, palette_buffer, palette_ready, setting, asked, slept>>

Rgb565(c) == (c.red \div 2048) * 2048 + (c.green \div 1024) * 32 + c.blue \div 2048

(* The write to the palette gets through unless the controller is busy     *)
(* reading it.                                                             *)
SetPseudoColor(i, c) ==
  /\ Ready /\ regs.visual = "pseudocolor"
  /\ \E val \in {Rgb565(c), hw.pal[i]} : hw' = [hw EXCEPT !.pal[i] = val]
  /\ setting' = <<i, Rgb565(c)>>
  /\ UNCHANGED <<fb, step, held, leaked, board, regs, palette_buffer, palette_ready, asked, pseudo_pal, slept>>

(* Seeded bug: an entry is dropped when others wait.                       *)
schedule_palette_update_full ==
  /\ setting # None
  /\ palette_buffer' = IF palette_ready THEN palette_buffer
                       ELSE [palette_buffer EXCEPT ![setting[1]] = setting[2]]
  /\ palette_ready' = TRUE
  /\ hw' = IF palette_ready THEN hw ELSE [hw EXCEPT !.masked = FALSE]
  /\ asked' = [asked EXCEPT ![setting[1]] = setting[2]] /\ setting' = None
  /\ UNCHANGED <<fb, step, held, leaked, board, regs, pseudo_pal, slept>>

schedule_palette_update ==
  /\ setting # None
  /\ palette_buffer' = [palette_buffer EXCEPT ![setting[1]] = setting[2]]
  /\ palette_ready' = TRUE
  /\ hw' = IF palette_ready THEN hw ELSE [hw EXCEPT !.masked = FALSE]
  /\ asked' = [asked EXCEPT ![setting[1]] = setting[2]] /\ setting' = None
  /\ UNCHANGED <<fb, step, held, leaked, board, regs, pseudo_pal, slept>>

-----------------------------------------------------------------------------
(* The frame interrupt                                                     *)

Waiting == {i \in PaletteRegs : palette_buffer[i] # CLEAR}
FrameSync == "irq" \in held /\ "clock" \in held /\ ~hw.masked /\ Envid(hw.lcdcon1)

(* Seeded bug: what did not read back is not tried again.                  *)
write_palette_once(taken) ==
  /\ hw' = [hw EXCEPT !.pal = [i \in PaletteRegs |-> IF i \in taken THEN palette_buffer[i] ELSE @[i]]]
  /\ palette_buffer' = [i \in PaletteRegs |-> IF i \in taken THEN CLEAR ELSE palette_buffer[i]]
  /\ palette_ready' = FALSE

(* write_palette: an entry that does not read back stays for the next      *)
(* frame.                                                                  *)
write_palette(taken) ==
  /\ hw' = [hw EXCEPT !.pal = [i \in PaletteRegs |-> IF i \in taken THEN palette_buffer[i] ELSE @[i]]]
  /\ palette_buffer' = [i \in PaletteRegs |-> IF i \in taken THEN CLEAR ELSE palette_buffer[i]]
  /\ palette_ready' = (Waiting \ taken # {})

lcd_fb_irq(taken) ==
  /\ FrameSync /\ palette_ready
  /\ write_palette(taken)
  /\ UNCHANGED <<fb, step, held, leaked, board, regs, setting, asked, pseudo_pal, slept>>

(* A frame in which entry i gets through: the controller is not always     *)
(* busy when the handler writes it.                                        *)
EntryTaken(i) == \E taken \in SUBSET Waiting : i \in taken /\ lcd_fb_irq(taken)

LcdNext ==
  \/ lcd_init \/ ProbeStep \/ ProbeFail
  \/ RemoveUnregister \/ RemoveDisable \/ RemoveMemory \/ RemoveRest
  \/ lcd_fb_suspend \/ lcd_fb_resume
  \/ set_par \/ \E mode \in {"unblank", "normal", "powerdown"} : blank(mode)
  \/ \E i \in PaletteRegs, c \in Colors : SetTrueColor(i, c) \/ SetPseudoColor(i, c)
  \/ schedule_palette_update
  \/ \E taken \in SUBSET Waiting : lcd_fb_irq(taken)

LcdSpec == LcdInit /\ [][LcdNext]_lcdVars

-----------------------------------------------------------------------------
(* Properties                                                              *)

(* Between operations the controller and the driver's copies of its        *)
(* registers agree, also when suspend took the power: resume programs the  *)
(* mode, a single divider and the frame addresses again.                   *)
Programmed ==
  (fb = "bound" /\ regs.line_length # 0) =>
     /\ hw.lcdcon1 = regs.lcdcon1
     /\ Cardinality(regs.lcdcon1.clkval) = 1
     /\ 2 * hw.saddr[2] = regs.line_length * display.yres

(* While the controller fetches frames, the memory it reads, its clock and *)
(* the structure its interrupt handler uses are there: remove stops it     *)
(* before it releases anything, suspend before it stops the clock.         *)
DisplayBacked ==
  Envid(hw.lcdcon1) => {"video", "fbinfo", "clock", "base"} \subseteq held

(* The frames lie within the video memory, whichever of the board's        *)
(* displays is the default (smem_len is that of the largest).              *)
AddressInBuffer ==
  LET pages == (regs.smem_len + PageSize - 1) \div PageSize
  IN  Envid(hw.lcdcon1) => 2 * hw.saddr[2] <= pages * PageSize

FramesFromMemory == DisplayBacked /\ AddressInBuffer

(* A palette entry that waits is noted in palette_ready, so the next frame *)
(* interrupt looks at it, and the interrupt is not masked, unless suspend  *)
(* took the power with entries waiting: nobody unmasks it then.            *)
NoEntryForgotten ==
  fb \in {"bound", "unregistered"} /\ Waiting # {} => palette_ready /\ (~hw.masked \/ slept)

(* An entry that no longer waits has the value last asked for: the handler *)
(* and setcolreg may write an entry in either order.                       *)
EntryCurrent ==
  \A i \in PaletteRegs :
    fb = "bound" /\ setting = None /\ palette_buffer[i] = CLEAR => hw.pal[i] \in {asked[i], 0}

PaletteCurrent == NoEntryForgotten /\ EntryCurrent

(* Every entry is loaded as long as frames come: those the handler could   *)
(* not write stay for the next frame.                                      *)
PaletteLoaded ==
  \A i \in PaletteRegs :
    palette_buffer[i] # CLEAR ~> palette_buffer[i] = CLEAR \/ ~FrameSync
=============================================================================
