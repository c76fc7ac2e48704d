\* Four bits for 64, three for 32: a request may reach past every bound.
SPECIFICATION Spec
CONSTANTS
  U64Max = 15
  U32Max = 7
  I64Max = 12
  I32Max = 5
  MinSigned <- MCMinSigned
INVARIANTS
  TypeOK
  ChecksAgree
  AcceptedIsExact
  RefusedForCause
