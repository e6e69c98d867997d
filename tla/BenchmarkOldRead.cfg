SPECIFICATION Spec
CONSTANTS
  BlockLength = 2
  LastLba = 6
  TransferUnit = 3
  Word = 32
  MaxFaults = 1
  Programs <- AllPrograms
  Partitions <- MCPartitions
  Items <- MCItems
  ClusterLength = 2
  BufferLength = 3
  Warmup = 2
  SectorLength = 1
  Usize = 8
  Iterations = 13
  Rounds = 2
PROPERTY OldReadEnds
CHECK_DEADLOCK FALSE
