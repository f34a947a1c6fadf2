\* Two tasks, two nodes, quanta of two bytes: calls that cross quanta and nodes.
SPECIFICATION Spec
CONSTANTS
  Threads = {t1, t2}
  Loader = loader
  Addr = {a1, a2}
  NULL = NULL
  WILD = WILD
  QuantumSize = 2
  QsetSize = 1
  Positions = {1, 2}
  Counts = {3}
  IntMax = 8
  Garbage <- Raw
  MaxRegions = 1
SYMMETRY Symmetry
INVARIANTS
  TypeOK
  IInv
  SectionExclusive
  WaitersServed
  FreedNeedsOverlap
  SafeOnceFormatted
  SizeBacked
  NothingLeaked
  ReadsBelowSize
  InBounds
