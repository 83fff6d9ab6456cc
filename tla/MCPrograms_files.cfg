\* The file server alone: who receives what was asked for.
CONSTANTS
  c1 = c1  c2 = c2  c3 = c3  c4 = c4
  Callers = {c1, c2, c3, c4}  Pid <- ThePid  Uid <- TheUid  ServUser = "ann"  MaxListens = 2  MaxTicks = 1
  MAXLINE = 4  MAXARGC = 5  NWords = {0, 1, 3}  MsgLens = {0, 2, 3, 5}  MaxLines = 3
  player = player  band = band
  Drivers = {"plain", "platform"}  Programs = {player, band, "tester"}
  Players = {player, band}  Testers = {"tester"}  Pitches = {440, 880}
  MaxRuns = 1  MaxNotes = 1  MaxLoads = 2  MaxOpen = 2
  Files <- TheFiles  Wanted = "hayes"  Classes = {"9600"}  AskedClass = {"9600", "9601"}
  Phone <- ThePhone  Sounds = {"a", "b"}  MaxBytes = 5  InBuf = 6  MaxDepth = 4
  Loops = 3
  N = 2  Word = 5  BufSize = 12  MaxRounds = 4
  ATEXIT_SIZE = 2  Funcs = {"f", "g"}  MaxFuncs = 4  Garbage = {0, 1}
  ann = ann  bob = bob  Guests = {ann, bob}  MaxSent = 2
SPECIFICATION FileSpec
CHECK_DEADLOCK FALSE
INVARIANT AskerServed
