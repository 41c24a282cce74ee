\* Blocking __kmpc_reduce, redis state: the team primitives end to end.
CONSTANTS
  MaxThreads <- MCMaxThreads
  MaxForks <- MCMaxForks
  ReduceCall = "reduce"
  StateMode = "redis"
  None = None
SPECIFICATION Spec
INVARIANT TypeOK
INVARIANT CriticalExclusion
INVARIANT BarrierPublishes
INVARIANT ReductionCorrect
PROPERTY Termination
PROPERTY RegionRefinement
