SPECIFICATION Spec
CONSTANTS
  BlockSize = 2
  LastBlock = 5
  CacheSize = 3
  Usize = 10
  Word = 20
  TransferUnit = 5
  Marks = {90}
  Usages <- MCUsages
INVARIANTS
  TypeInv
  ReadsAreTrue
  KeepsWrites
PROPERTY FlushIsDurable
CHECK_DEADLOCK FALSE
