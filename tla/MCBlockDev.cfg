SPECIFICATION FairSpec
CONSTANTS
  Procs = {s1, s2}
  NoProc = NoProc
  Blank = 0
  None = None
  Sector = {0, 1, 2, 3, 4, 5, 6}
  N = 3
  MaxLen = 3
  Requests <- MCRequests
INVARIANTS Resources InCapacity
PROPERTIES AtomicRequests RequestsEnd
CHECK_DEADLOCK FALSE
