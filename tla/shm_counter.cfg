SPECIFICATION CounterSpec
CONSTANTS
  c1 = c1
  c2 = c2
  s1 = s1
  s2 = s2
  NoObject = NoObject
  Clients <- TwoClients
  Servers <- TwoServers
  ShmLoop = 2
INVARIANTS
  CounterTypeOK
  CountExact
PROPERTY ClientsEnd
\* every process has ended, or waits for the semaphore of one that crashed
CHECK_DEADLOCK FALSE
