\* A volume of three blocks, batches of at most two, a mark of two.
SPECIFICATION FairSpec
CONSTANTS
  d1 = d1
  d2 = d2
  Absent = Absent
  Data <- MCData
  Requests <- MCRequests
  TotalBlocks = 3
  MaxBlocksPerRpc = 2
  HighWaterConfig = 2
INVARIANTS
  TypeOK
  BatchInDirty
  IInv
  BatchIsLowestChunk
  AckedWriteBelowHighWater
PROPERTIES
  NeverDropped
  ImplementsDevice
  Answered
