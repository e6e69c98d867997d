SPECIFICATION Spec
CONSTANTS
  Reads = {1, 2}
  Writes = {2}
  MaxTag = 3
  MaxSessions = 1
  Resets = {TRUE, FALSE}
INVARIANT PassedReadsAreWhole
CHECK_DEADLOCK FALSE
