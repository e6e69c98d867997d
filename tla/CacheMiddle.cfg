SPECIFICATION Spec
CONSTANTS
  BlockSize = 2
  LastBlock = 3
  CacheSize = 3
  Usize = 16
  Word = 32
  TransferUnit = 8
  Marks = {90}
  Usages <- WideReadsOnly
INVARIANT ReadsAreExact
CHECK_DEADLOCK FALSE
