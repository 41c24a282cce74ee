\* Two threads mixing mmap, munmap and brk up to a 6-page maximum.
CONSTANTS
  t1 = t1
  t2 = t2
  Threads <- MCThreads
  PageSize = 4
  AddrSpace = 64
  MaxPages = 6
  InitPages = 2
  BrkAddrs = {8, 14, 20}
  MmapLens = {5, 8}
  MaxCalls = 4
  None = None
SPECIFICATION Spec
INVARIANT MmapGrantValid
\* A guest makes at most MaxCalls calls; after them nothing is enabled.
CHECK_DEADLOCK FALSE
