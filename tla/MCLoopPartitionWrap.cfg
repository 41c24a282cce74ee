\* A loop whose upper - lower exceeds the int range (Width 6: -32 .. 31),
\* stepping by 2, on teams of up to 3: the (int) cast of the trip count wraps.
CONSTANTS
  Width = 6
  MaxTeam = 3
  Lowers <- MCWrapLowers
  Uppers = {30}
  Incrs = {2}
  Chunks = {0}
  Schedules = {34}
SPECIFICATION Spec
INVARIANT PartitionExact
CHECK_DEADLOCK FALSE
