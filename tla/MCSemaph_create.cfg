\* Three processes that create, use and close; any of them may die.
CONSTANTS
  p1 = p1  p2 = p2  p3 = p3
  Procs <- Three  Creators <- Three  Openers <- NoProcs  Removers <- NoProcs
  InitVal = 1  BIGCOUNT = 3  Amounts <- WaitAndSignal
  HoldMin = 0  HoldMax = 1  MaxId = 3
SPECIFICATION Spec
SYMMETRY ProcSymmetry
CHECK_DEADLOCK FALSE
INVARIANTS LockHeldByOne CountMatchesUsers InitialisedUnused NeverOverdrawn
PROPERTIES RemovedUnused ImplementsShared
