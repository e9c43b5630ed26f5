SPECIFICATION Spec
CONSTANTS
  MAXNITEMS = 3
  MAXNTHREADS = 3
  Items <- MCItems
  Threads = {0, 2, 4}
INVARIANTS
  TypeOK
  NoError
  ReadyAccounting
  NoLostWakeup
PROPERTIES
  Implements
  Termination
\* without producers the consumer sleeps for ever
CHECK_DEADLOCK FALSE
