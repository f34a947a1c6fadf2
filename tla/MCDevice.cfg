\* Two tasks: every interleaving of opens, releases and reads.
SPECIFICATION FairSpec
CONSTANTS
  Threads = {t1, t2}
  Length = 2
  Lengths = {0, 1, 3}
  MaxDrift = 1
INVARIANTS
  TypeOK
  SingleOpen
  CountsFiles
  InMessage
PROPERTIES
  InOrder
  CallReturns
