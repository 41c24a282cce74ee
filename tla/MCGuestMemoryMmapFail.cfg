\* One thread calling mmap beyond the memory's maximum.
CONSTANTS
  t1 = t1
  t2 = t2
  Threads <- MCThreads1
  PageSize = 4
  AddrSpace = 64
  MaxPages = 3
  InitPages = 2
  BrkAddrs = {}
  MmapLens = {8}
  MaxCalls = 1
  None = None
SPECIFICATION Spec
INVARIANT MmapResultValid
\* A guest makes at most MaxCalls calls; after them nothing is enabled.
CHECK_DEADLOCK FALSE
