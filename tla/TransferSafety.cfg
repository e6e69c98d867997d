SPECIFICATION Spec
CONSTANTS
  Transfers = {t1, t2}
  Slots = {s1, s2}
  Kinds <- TwoKinds
  Reports <- FewReports
  Faults <- AllFaults
  None = None
INVARIANTS
  TypeInv
  BufferOutlivesTransfer
  NoCancelAfterAnswer
  AnswerIsReported
PROPERTIES
  SubmittedOnce
  KeepsPromise
CHECK_DEADLOCK FALSE
