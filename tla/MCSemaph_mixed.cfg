\* Creators, an opener and a process that calls sem_rm; signals may come first.
CONSTANTS
  p1 = p1  p2 = p2  p3 = p3
  Procs <- Three  Creators <- Three  Openers <- OnlyOne  Removers <- OnlyOne
  InitVal = 1  BIGCOUNT = 3  Amounts <- WaitAndSignal
  HoldMin <- SignalFirst  HoldMax = 1  MaxId = 2
SPECIFICATION FairSpec
CHECK_DEADLOCK FALSE
PROPERTY LockReleased
