SPECIFICATION FairSpec
CONSTANTS
  c1 = c1
  c2 = c2
  c3 = c3
  Clients = {c1, c2, c3}
  NoClient = NoClient
  ShmClients = {c2}
  MaxPid = 3
  MaxOid = 4
  Faults = {"quit", "early"}
PROPERTIES
  DeadAreReaped
  ShutDownCompletes
CHECK_DEADLOCK FALSE
