SPECIFICATION FairSpec
CONSTANTS
  Transfers = {t1}
  Slots = {s1}
  Kinds <- TimedKinds
  Reports <- FewReports
  Faults <- CloseFault
  None = None
PROPERTY AwaitTerminates
CHECK_DEADLOCK FALSE
