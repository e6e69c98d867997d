SPECIFICATION Spec
CONSTANTS
  BlockSize = 2
  LastBlock = 2
  CacheSize = 2
  Usize = 16
  Word = 32
  TransferUnit = 8
  Marks = {90}
  Usages <- SingleBlocks
PROPERTY FlushPersists
CHECK_DEADLOCK FALSE
