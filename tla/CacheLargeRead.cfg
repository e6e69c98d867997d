SPECIFICATION Spec
CONSTANTS
  BlockSize = 2
  LastBlock = 2
  CacheSize = 1
  Usize = 16
  Word = 32
  TransferUnit = 8
  Marks = {90}
  Usages <- LargeReads
INVARIANT ReadsAreExact
CHECK_DEADLOCK FALSE
