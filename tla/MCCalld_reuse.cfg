\* The first client may hang up while its child dials: its entry of client[] is
\* used again before the child has exited.
CONSTANTS
  c1 = c1  c2 = c2  c3 = c3  NoClient = NoClient
  Clients <- Three  Impatient <- FirstOnly  Want <- WantUnknown
  Systems <- OneLine  Lines <- BothLines  HeapDone <- CleanHeap
  Killed = FALSE  MaxPid = 2
SPECIFICATION FairSpec
CHECK_DEADLOCK FALSE
INVARIANT HandlerReturns
PROPERTY HangUpNoticed
