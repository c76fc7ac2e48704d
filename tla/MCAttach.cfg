\* One block and two requests of the kernel at a time; the engine may panic,
\* and the signal handlers may fail.
SPECIFICATION Spec
CONSTANTS
  d1 = d1
  d2 = d2
  h1 = h1
  h2 = h2
  Absent = Absent
  Data <- MCData
  Requests <- MCRequests
  Handles <- MCHandles
  Faults = {"panic", "handler"}
  TotalBlocks = 1
INVARIANTS
  IInv
  AckedWritesVisible
  FlushAckMeansStored
  FinalFlushIsFinal
  SuccessIsAfterDisconnect
SYMMETRY MCSymmetry
