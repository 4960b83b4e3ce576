SPECIFICATION FairSpec
CONSTANTS
  k1 = k1
  k2 = k2
  Kinds = {k1}
  S_INIT = S_INIT
  QUIT = QUIT
  MaxEvents = 2
  MaxCalls = 3
  MaxTries = 2
  Uses = {"new", "poll", "set", "quit", "bye"}
PROPERTIES NothingAfterQuit Processed QuitEnds
CHECK_DEADLOCK FALSE
