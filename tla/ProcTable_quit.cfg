SPECIFICATION Spec
CONSTANTS
  c1 = c1
  c2 = c2
  c3 = c3
  Clients = {c1, c2, c3}
  NoClient = NoClient
  ShmClients = {}
  MaxPid = 3
  MaxOid = 4
  Faults = {"quit"}
SYMMETRY TcpSymmetry
PROPERTY NoSilentDrop
CHECK_DEADLOCK FALSE
