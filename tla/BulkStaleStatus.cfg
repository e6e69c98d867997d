SPECIFICATION Spec
CONSTANTS
  Reads = {1, 2}
  Writes = {2}
  MaxTag = 4
  MaxSessions = 2
  Resets = {TRUE, FALSE}
INVARIANT StatusIsThisCommands
CHECK_DEADLOCK FALSE
