\* A second distributed fork by the same guest, all chained calls succeeding.
CONSTANTS
  p1 = p1
  p2 = p2
  h1 = h1
  h2 = h2
  Parents <- MCParents1
  Procs <- MCProcs
  Home <- MCHome1
  MaxThreads <- MCMaxThreads
  MaxForks = 2
  DeviceArgs <- MCDeviceArgs
  ArgCounts = {1}
  Leftover = {0, 1}
  None = None
SPECIFICATION Spec
INVARIANT TrapOnlyOnErrors
