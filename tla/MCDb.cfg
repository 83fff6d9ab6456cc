\* Two processes, two keys that share a chain and one that does not.
CONSTANTS
  p1 = p1  p2 = p2  k1 = k1  k2 = k2  k3 = k3
  short = short  other = other  long = long  empty = empty
  Procs = {p1, p2}  Keys = {k1, k2, k3}  Datas = {short, other, long, empty}
  Hash <- TheHash  DatLen <- TheDatLen  DATLEN_MIN = 2  DATLEN_MAX = 3
  Flags <- TheFlags  MaxCalls = 3
  NoProc = NoProc  Absent = Absent  Pending = Pending  None = None
SPECIFICATION DbSpec
SYMMETRY Symmetry
CHECK_DEADLOCK FALSE
INVARIANT RecordsOwned
PROPERTY StoreIsAtomic
