\* One block is enough: a write that timed out lands after a newer one.
SPECIFICATION LateSpec
CONSTANTS
  d1 = d1
  d2 = d2
  Absent = Absent
  Data <- MCData
  TotalBlocks = 1
  MaxWritesPerRpc = 1
  MaxAttemptsConfig = 2
  MaxLate = 1
INVARIANTS
  LastWriteWins
