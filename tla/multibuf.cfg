SPECIFICATION CopySpec
CONSTANTS
  NBUFF = 3
  Lengths <- MCLengths
INVARIANTS
  CopyTypeOK
  NoSharedBuffer
  OutputIsFile
PROPERTY Termination
\* the program exits
CHECK_DEADLOCK FALSE
