\* Three blocks, chunks of at most two, two attempts, a frontend that drops
\* what its client abandons.
SPECIFICATION FairSpec
CONSTANTS
  d1 = d1
  d2 = d2
  Absent = Absent
  Data <- MCData
  TotalBlocks = 3
  MaxWritesPerRpc = 2
  MaxAttemptsConfig = 2
  MaxLate = 0
INVARIANTS
  IInv
  FailedClientDropped
  AcknowledgedChunksStored
  LastWriteWins
PROPERTIES
  ImplementsTransport
  CallReturns
