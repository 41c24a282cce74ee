\* Two tokens, so the pool thread blocks once both workers run; the global
\* queue, sharing and state listeners.  The program ends after shutdown(),
\* so a final state is expected.
CONSTANTS
  NThreads = 2
  Listeners <- MCListeners
  None = None
SPECIFICATION Spec
INVARIANT NothingOutlivesShutdown
PROPERTY ShutdownCompletes
CHECK_DEADLOCK FALSE
