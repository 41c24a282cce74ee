\* An MPI worker node: startMpiThread has run, and shutdown() does not join
\* the MPI listener.
CONSTANTS
  NThreads = 1
  Listeners <- MCMpiListeners
  None = None
SPECIFICATION Spec
INVARIANT NothingOutlivesShutdown
CHECK_DEADLOCK FALSE
