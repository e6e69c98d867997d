SPECIFICATION FairSpec
CONSTANTS
  Transfers = {t1, t2}
  Slots = {s1, s2}
  Kinds <- TwoKinds
  Reports <- FewReports
  Faults <- LiveFaults
  None = None
PROPERTIES
  AwaitTerminates
  CancelledIsFreed
CHECK_DEADLOCK FALSE
