\* Two tasks that open at the same time.
SPECIFICATION Spec
CONSTANTS
  Threads = {t1, t2}
  Length = 1
  Lengths = {1}
  MaxDrift = 0
INVARIANTS
  OneOpenFile
