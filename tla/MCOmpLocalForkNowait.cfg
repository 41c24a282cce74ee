\* __kmpc_reduce_nowait with redis state in a local (one-device) region.
CONSTANTS
  MaxThreads <- MCMaxThreads
  MaxForks <- MCMaxForks
  ReduceCall = "reduce_nowait"
  StateMode = "redis"
  None = None
SPECIFICATION Spec
INVARIANT ReductionCorrect
