\* Liveness, without symmetry.
SPECIFICATION FairSpec
CONSTANTS
  Threads = {t1, t2}
  Loader = loader
  Addr = {a1}
  NULL = NULL
  WILD = WILD
  QuantumSize = 1
  QsetSize = 1
  Positions = {0, 1}
  Counts = {1}
  IntMax = 8
  Garbage <- Fresh
  MaxRegions = 1
PROPERTIES
  CallReturns
