\* Two commands; sizes zero, two, three and one above i64::MAX.
SPECIFICATION Spec
CONSTANTS
  c1 = c1
  c2 = c2
  r1 = r1
  Commands <- MCCommands
  Explicit <- MCExplicit
  Sizes = {0, 2, 3, 5}
  BlockSizes = {0, 1, 3}
  I64Max = 3
  I32Max = 2
  ServerBlock = 2
INVARIANTS
  IInv
  CreatedIsAsAsked
  CreatedOnce
  SuccessMeansExists
  VolumeWasAskedFor
PROPERTIES
  CommandEnds
