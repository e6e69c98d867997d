SPECIFICATION Spec
CONSTANTS
  Drivers = {"guest", "native"}
  Lengths = {1, 2}
  MaxTag = 5
  MaxSessions = 2
INVARIANTS
  TypeInv
  StatusIsOwn
  DataIsOwn
PROPERTY NeverBackInStep
CHECK_DEADLOCK FALSE
