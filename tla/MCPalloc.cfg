SPECIFICATION Spec
CONSTANTS
  Align = 2
  InitSize = 1
  MemSize = 35
  ChunkSize = 12
  MaxIdx = 6
  FactorNum = 3
  FactorDen = 2
  Requests = {1, 3, 4, 5, 11}
  MaxLive = 4
INVARIANTS PoolPartition ClassIsBest SlabsFollowPeak
