SPECIFICATION Spec
CONSTANTS
  NBUFF = 2
  MAXNTHREADS = 1
  Items <- MCItems
  Threads = {1}
  Stale = {"mutex", "nempty", "nstored"}
INVARIANT NoOverwrite
CHECK_DEADLOCK FALSE
