SPECIFICATION Spec
CONSTANTS
  NBUFF = 2
  MAXNTHREADS = 2
  Items <- MCItems
  Threads = {0, 1, 3}
  Stale = {}
INVARIANTS
  TypeOK
  TokenAccounting
  NoOverwrite
  CountsAddUp
PROPERTIES
  Implements
  Termination
\* with no producer the consumers block, with no consumer the producers do
CHECK_DEADLOCK FALSE
