\* Three requests, two under way at a time, payloads of one or two units.
SPECIFICATION Spec
CONSTANTS
  h1 = h1
  h2 = h2
  Handles <- MCHandles
  MaxLength = 2
  MaxFrames = 3
INVARIANTS
  IInv
  RepliesAreInStep
  NoOkBehindText
  ErrorMeansCut
  CleanEndAnswersAll
SYMMETRY MCSymmetry
