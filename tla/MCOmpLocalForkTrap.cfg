\* __kmpc_reduce_nowait with the in-memory state mode: every member throws.
CONSTANTS
  MaxThreads <- MCMaxThreads
  MaxForks <- MCMaxForks
  ReduceCall = "reduce_nowait"
  StateMode = "inmemory"
  None = None
SPECIFICATION Spec
PROPERTY RegionRefinement
PROPERTY Termination
