\* Two parent calls on two processes forking at the same time.
CONSTANTS
  p1 = p1
  p2 = p2
  h1 = h1
  h2 = h2
  Parents <- MCParents2
  Procs <- MCProcs
  Home <- MCHome
  MaxThreads <- MCMaxThreads
  MaxForks = 1
  DeviceArgs <- MCDeviceArgs
  ArgCounts = {1}
  Leftover = {0, 1}
  None = None
SPECIFICATION Spec
INVARIANT DistReductionCorrect
