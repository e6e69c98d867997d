SPECIFICATION Spec
CONSTANTS
  Transfers = {t1}
  Slots = {s1}
  Kinds <- TimedKinds
  Reports <- FewReports
  Faults <- LiveFaults
  None = None
INVARIANT BufferAllocated
CHECK_DEADLOCK FALSE
