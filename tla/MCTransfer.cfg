SPECIFICATION FairSpec
CONSTANTS
  NRec = 4
  Size = 3
  Num = 2
  SendSize = 3
  MasterNum = 2
  NetSize = 3
  MaxBreaks = 2
  NULL = NULL
  Body <- MCBody
  Class <- MCClass
INVARIANTS Bounded FramesIntactIfClean ChunkExclusiveIfClean
PROPERTIES Delivered NoneMissedIfClean SessionEnds
CHECK_DEADLOCK FALSE
