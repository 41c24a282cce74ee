\* Teams of 1 to 3 members over small loops of every direction and step,
\* both schedules, chunk sizes 0 (taken as 1) and 2, and an unsupported
\* schedule (35).  Every member calls once, so the system stops.
CONSTANTS
  Width = 8
  MaxTeam = 3
  Lowers <- MCLowers
  Uppers <- MCUppers
  Incrs <- MCIncrs
  Chunks = {0, 2}
  Schedules = {33, 34, 35}
SPECIFICATION Spec
INVARIANT PartitionExact
INVARIANT LastIterExact
INVARIANT BalancedShares
CHECK_DEADLOCK FALSE
