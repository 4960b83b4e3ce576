SPECIFICATION SuiteSpec
CONSTANTS
  MAX_LINES = 2
  MAX_CHARS = 2
  Chars = {1}
  Digits = {2}
  Files = {f1, f2}
  MaxJobs = 2
  MaxErrs = 2
  MaxPushes = 3
  MaxLoads = 3
  MAX_REQ = 1
  TIMEOUT = 1
  MaxCalls = 3
  MaxOid = 8
  MaxInputs = 2
  MaxStarts = 2
INVARIANTS McpAgrees TerminalShows TexturesShowTheLast NumbersAreGiven 
PROPERTIES TreeStands HashHasAll WidgetsAreShown MeshIsShown
CHECK_DEADLOCK FALSE
