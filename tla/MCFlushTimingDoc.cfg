\* The same instance, for what DESIGN.md says of the deadline.
SPECIFICATION Spec
CONSTANTS
  ConnectTimeout = 1
  RpcTimeout = 2
  MaxAttempts = 5
  InitialBackoff = 2
  MaxBackoff = 3
  JitterPercent = 50
  DurationMax = 10
  Deadline = 9
  RetryInterval = 2
  RpcsPerBatch = 2
  MaxDirtyRpcs = 3
INVARIANT
  FailsByDeadline
