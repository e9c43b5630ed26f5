SPECIFICATION Spec
CONSTANTS
  p1 = p1
  p2 = p2
  None = None
  Procs <- Two
  NLoop = 3
  Numbers <- MCNumbers
  Garbage <- MCGarbage
INVARIANTS
  TypeOK
  LockedExact
  FinalRange
PROPERTY Ends
\* every process has ended
CHECK_DEADLOCK FALSE
