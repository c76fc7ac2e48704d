\* Three RPCs of two batches, five attempts, back-off 2, 3, 3, 3 (capped from
\* the second delay on, an overflow at the fourth), jitter of half.
SPECIFICATION FairSpec
CONSTANTS
  ConnectTimeout = 1
  RpcTimeout = 2
  MaxAttempts = 5
  InitialBackoff = 2
  MaxBackoff = 3
  JitterPercent = 50
  DurationMax = 10
  Deadline = 9
  RetryInterval = 2
  RpcsPerBatch = 2
  MaxDirtyRpcs = 3
INVARIANTS
  TypeOK
  IInv
  FlushBounded
PROPERTIES
  FlushReturns
