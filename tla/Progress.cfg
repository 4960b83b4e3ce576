SPECIFICATION ProgressSpec
CONSTANTS
  Clients = {c1, c2}
  BUF = 1
  MAX_REQ = 1
  TIMEOUT = 1
  MaxCalls = 2
  Files = {f1, f2}
  MaxJobs = 2
  MaxErrs = 2
PROPERTIES SocketsGoOn ProgramsGoOn
CHECK_DEADLOCK FALSE
