\* One content only: what is waited for does not depend on it.
SPECIFICATION FairSpec
CONSTANTS
  d1 = d1
  d2 = d2
  h1 = h1
  h2 = h2
  Absent = Absent
  Data = {d1}
  Requests <- MCFewRequests
  Handles = {h1, h2}
  Faults = {"panic", "handler"}
  TotalBlocks = 1
PROPERTIES
  DetachCompletes
  EveryRequestEnds
