\* Three quanta of two bytes: a node of two of them, and one of the next node.
SPECIFICATION Spec
CONSTANTS
  Files = {f1, f2}
  QuantumSize = 2
  QsetSize = 2
  Capacity = 6
  Starts = {2, 5}
  Counts = {0, 2}
  Bytes = {0, 1}
  ZERO = 0
  JUNK = JUNK
  NULL = NULL
  ERROR = ERROR
SYMMETRY Symmetry
INVARIANTS
  TypeOK
PROPERTIES
  ReadsAllocateNothing
  IsFlatDevice
