SPECIFICATION Spec
CONSTANTS
  c1 = c1
  c2 = c2
  c3 = c3
  Clients = {c1, c2, c3}
  NoClient = NoClient
  ShmClients = {}
  MaxPid = 3
  MaxOid = 5
  Faults = {}
SYMMETRY TcpSymmetry
INVARIANTS
  PidsAndOidsMatch
  SlotsAreConnections
  FocusIsAProgram
  ClonesShowPrograms
  McpKnowsThePrograms
  NeverCrashes
PROPERTIES
  NoSilentDrop
  OneDropPerStep
CHECK_DEADLOCK FALSE
