SPECIFICATION Spec
CONSTANTS
  Transfers = {t1, t2}
  Slots = {s1, s2}
  Kinds <- TimedKinds
  Reports <- FewReports
  Faults <- NoFaults
  None = None
INVARIANT HandleNamesItsTransfer
CHECK_DEADLOCK FALSE
