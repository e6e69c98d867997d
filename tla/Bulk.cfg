SPECIFICATION Spec
CONSTANTS
  Reads = {1, 2}
  Writes = {2}
  MaxTag = 5
  MaxSessions = 3
  Resets = {TRUE, FALSE}
INVARIANTS
  TypeInv
  StatusIsOwn
  DataIsOwn
  InStep
CHECK_DEADLOCK FALSE
