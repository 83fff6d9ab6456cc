\* A client that hangs up while its child dials.
CONSTANTS
  c1 = c1  c2 = c2  c3 = c3  NoClient = NoClient
  Clients <- Two  Impatient <- Two  Want <- WantSame
  Systems <- TwoLines  Lines <- BothLines  HeapDone <- CleanHeap
  Killed = FALSE  MaxPid = 4
SPECIFICATION Spec
CHECK_DEADLOCK FALSE
INVARIANT DeviceExclusive
