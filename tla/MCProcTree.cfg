\* Every failure of every creation, beside others' entries of the same names.
SPECIFICATION Spec
CONSTANTS
  NULL = NULL
  OtherPaths <- Colliding
INVARIANTS
  TypeOK
  LeavesNothing
  MemFilledBeforeShown
PROPERTIES
  RemovesOwn
  OrderlyExit
