SPECIFICATION Spec
CONSTANTS
  BlockSize = 2
  LastBlock = 2
  CacheSize = 1
  Usize = 16
  Word = 32
  TransferUnit = 8
  Marks = {90}
  Usages <- SingleBlocks
INVARIANT LosesNothing
CHECK_DEADLOCK FALSE
