\* Every interleaving of the init function and two tasks.
SPECIFICATION Spec
CONSTANTS
  Threads = {t1, t2}
  LKM_DEBUGFS_CONTENT_LEN = 3
  Hello = 2
  Letters = {a, b}
  Counts = {2, 4}
INVARIANTS
  TypeOK
  ReadsSettled
  NothingDangles
SYMMETRY Symmetry
