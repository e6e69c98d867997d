SPECIFICATION Spec
CONSTANTS
  Transfers = {t1}
  Slots = {s1}
  Kinds <- TimedKinds
  Reports <- FewReports
  Faults <- NoFaults
  None = None
INVARIANT CancelSeesLiveTransfer
CHECK_DEADLOCK FALSE
