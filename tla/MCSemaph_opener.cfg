\* A creator that closes while another process opens the set.
CONSTANTS
  p1 = p1  p2 = p2  p3 = p3
  Procs <- Two  Creators <- Two  Openers <- OnlyOne  Removers <- NoProcs
  InitVal = 1  BIGCOUNT = 3  Amounts <- WaitAndSignal
  HoldMin = 0  HoldMax = 1  MaxId = 2
SPECIFICATION Spec
CHECK_DEADLOCK FALSE
PROPERTY RemovedUnused
