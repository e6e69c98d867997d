SPECIFICATION Spec
CONSTANTS
  BlockSize = 2
  LastBlock = 5
  CacheSize = 2
  Usize = 8
  Word = 16
  TransferUnit = 8
  Marks = {90}
  Usages <- FarAway
INVARIANT ReadsAreExact
CHECK_DEADLOCK FALSE
