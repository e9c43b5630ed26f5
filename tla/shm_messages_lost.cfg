SPECIFICATION Spec
CONSTANTS
  c1 = c1
  c2 = c2
  NMESG = 2
  Clients <- Two
  NLoop = 1
INVARIANT DeliveredOrCounted
\* the server waits for ever when the clients have ended
CHECK_DEADLOCK FALSE
