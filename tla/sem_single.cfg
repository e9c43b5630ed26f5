SPECIFICATION Spec
CONSTANTS
  NBUFF = 2
  MAXNTHREADS = 3
  Items <- MCItems
  Threads = {0, 2, 4}
INVARIANTS
  TypeOK
  TokenAccounting
PROPERTIES
  Implements
  Termination
\* without producers the consumer waits for ever
CHECK_DEADLOCK FALSE
