SPECIFICATION Spec
CONSTANTS
  c1 = c1
  c2 = c2
  c3 = c3
  Clients <- MCClients
  QMax = 2
  Files <- MCFiles
  MaxRuns = 1
INVARIANT ParentLoops
\* the server waits for ever when the clients have ended
CHECK_DEADLOCK FALSE
