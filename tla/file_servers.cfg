SPECIFICATION Spec
CONSTANTS
  c1 = c1
  c2 = c2
  server = server
  Clients <- MCClients
  Server <- server
  Lines <- MCLines
  Capacity = 2
  MaxRuns = 2
INVARIANTS
  TypeOK
  OwnAnswer
  ServerStays
PROPERTY Ends
\* every process has ended, or waits for one that is not there
CHECK_DEADLOCK FALSE
