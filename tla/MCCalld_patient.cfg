\* Two clients that wait for their answers and both want the first line.
CONSTANTS
  c1 = c1  c2 = c2  c3 = c3  NoClient = NoClient
  Clients <- Two  Impatient <- NoClients  Want <- WantMixed
  Systems <- Mixed  Lines <- BothLines  HeapDone <- CleanHeap
  Killed = TRUE  MaxPid = 3
SPECIFICATION Spec
CHECK_DEADLOCK FALSE
INVARIANTS DeviceExclusive DialedIsLocked LocksOwned ClientsTracked
  AnswerMatches
PROPERTY AnsweredOnce
