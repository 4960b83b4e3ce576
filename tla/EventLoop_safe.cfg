SPECIFICATION Spec
CONSTANTS
  k1 = k1
  k2 = k2
  Kinds = {k1, k2}
  S_INIT = S_INIT
  QUIT = QUIT
  MaxEvents = 3
  MaxCalls = 3
  MaxTries = 2
  Uses = {}
INVARIANTS NoNesting LockMatches InOrder
CHECK_DEADLOCK FALSE
