\* insmod and rmmod alone, on a container as kmalloc() returns it.
SPECIFICATION Spec
CONSTANTS
  Threads = {}
  Loader = loader
  Addr = {a1}
  NULL = NULL
  WILD = WILD
  QuantumSize = 1
  QsetSize = 1
  Positions = {0}
  Counts = {1}
  IntMax = 8
  Garbage <- Fresh
  MaxRegions = 1
INVARIANTS
  SafeFromTheStart
