\* Three drivers, four numbers, three of them dynamic.
SPECIFICATION Spec
CONSTANTS
  Numbers = {1, 2, 3, 4}
  Dynamic = {1, 2, 3}
  StaticMajor = 4
CHECK_DEADLOCK FALSE
INVARIANTS
  TypeOK
  ExitTakesOwn
  NothingStranded
  ProcShowsDynamicMajor
