\* Three slots and two values: every way to fill, drain and wrap around.
SPECIFICATION Spec
CONSTANTS
  BUFFER_SIZE = 3
  Values = {1, 2}
INVARIANTS
  TypeOK
  IndicesAgree
PROPERTIES
  IsFifo
