\* A read between the signal and the end of the NBD thread.
SPECIFICATION Spec
CONSTANTS
  d1 = d1
  d2 = d2
  h1 = h1
  h2 = h2
  Absent = Absent
  Data <- MCData
  Requests <- MCFewRequests
  Handles = {h1}
  Faults = {}
  TotalBlocks = 1
INVARIANTS
  ErrorRepliesAreBare
