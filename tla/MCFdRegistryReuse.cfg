\* A worker running a second invocation after a first one.
CONSTANTS
  w1 = w1
  w2 = w2
  g1 = g1
  g2 = g2
  g3 = g3
  hosts = hosts
  passwd = passwd
  Workers <- MCWorkers
  Guests <- MCGuests
  MaxFd = 4
  HostFds <- MCHostFds
  Paths <- MCPaths
  Whitelist <- MCWhitelist
  None = None
SPECIFICATION Spec
INVARIANT FdIsolation
\* Every invocation runs once: the system stops when all have run.
CHECK_DEADLOCK FALSE
