\* Two threads calling brk near the maximum.
CONSTANTS
  t1 = t1
  t2 = t2
  Threads <- MCThreads
  PageSize = 4
  AddrSpace = 64
  MaxPages = 6
  InitPages = 2
  BrkAddrs = {16, 20}
  MmapLens = {}
  MaxCalls = 2
  None = None
SPECIFICATION Spec
INVARIANT BrkReachesTarget
\* A guest makes at most MaxCalls calls; after them nothing is enabled.
CHECK_DEADLOCK FALSE
