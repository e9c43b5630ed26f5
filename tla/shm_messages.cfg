SPECIFICATION Spec
CONSTANTS
  c1 = c1
  c2 = c2
  NMESG = 2
  Clients <- Two
  NLoop = 3
INVARIANTS
  TypeOK
  TokenAccounting
  NumbersAddUp
  SingleClientInOrder
PROPERTY Drained
\* the server waits for ever when the clients have ended
CHECK_DEADLOCK FALSE
