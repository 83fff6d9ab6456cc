\* pty, the LCD driver, the latency test, popen, coprocesses, the work queue, dimmer and file map.
CONSTANTS
  Boards <- TheBoards  PaletteRegs = {0, 1}  Colors <- TheColors
  PageSize = 16  Hclk = 100  Pow2 = 4  Pow5 = 5
  MinArgs = {0, 12}  MaxArgs = {0}  BufferArgs = {6}  PeriodArgs = {4}
  ChannelArgs = {0, 3}  Formats <- TheFormats
  PlaybackPeriods = {4, 6, 8}  CapturePeriods = {6, 8}  BufferSizes = {8, 12, 16}
  LoopLimit = 3
  Beyond = {0, 200}
  FileSizes = {0, 1, 7, 9}  Offsets <- TheOffsets  Lengths <- TheLengths
  PageBytes = 4  Width = 64
  Interactive <- Either  IgnoreEof <- Either  MaxIn = 2  MaxOut = 3  Cap = 1
  Kids = {1, 2, 3}  MaxCopied = 2
  Works = {"w1", "w2", "w3"}
SPECIFICATION Spec
CHECK_DEADLOCK FALSE
INVARIANTS
  InputCopied OutputCopied
  FramesFromMemory Programmed PaletteCurrent CopyLoopRight DutyShown SuccessShowsAsked
PROPERTIES AllEnd PaletteLoaded SearchEnds PcloseEnds CoprocEnds WorkDone
