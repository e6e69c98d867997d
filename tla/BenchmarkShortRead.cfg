SPECIFICATION Spec
CONSTANTS
  Drivers = {"guest", "native"}
  Lengths = {1, 2}
  MaxTag = 5
  MaxSessions = 2
INVARIANT PassedReadsAreWhole
CHECK_DEADLOCK FALSE
