\* One thread calling brk with an address inside a page.
CONSTANTS
  t1 = t1
  t2 = t2
  Threads <- MCThreads1
  PageSize = 4
  AddrSpace = 64
  MaxPages = 16
  InitPages = 2
  BrkAddrs = {14}
  MmapLens = {}
  MaxCalls = 1
  None = None
SPECIFICATION Spec
INVARIANT BrkReservesAddress
\* A guest makes at most MaxCalls calls; after them nothing is enabled.
CHECK_DEADLOCK FALSE
