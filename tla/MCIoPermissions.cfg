\* Both programs, with all arguments, on every kernel; they come to an end.
SPECIFICATION FairSpec
CHECK_DEADLOCK FALSE
INVARIANTS
  TypeOK
  SleepyNeverReads
  GrantedMayRead
  NeverZero
PROPERTIES
  Ends
