\* Two threads calling brk for growing addresses.
CONSTANTS
  t1 = t1
  t2 = t2
  Threads <- MCThreads
  PageSize = 4
  AddrSpace = 64
  MaxPages = 16
  InitPages = 2
  BrkAddrs = {8, 16, 24}
  MmapLens = {}
  MaxCalls = 3
  None = None
SPECIFICATION Spec
PROPERTY BrkMonotonic
\* A guest makes at most MaxCalls calls; after them nothing is enabled.
CHECK_DEADLOCK FALSE
