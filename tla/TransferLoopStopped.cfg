SPECIFICATION FairSpec
CONSTANTS
  Transfers = {t1}
  Slots = {s1}
  Kinds <- TimedKinds
  Reports <- FewReports
  Faults <- LoopFault
  None = None
PROPERTY AwaitTerminates
CHECK_DEADLOCK FALSE
