SPECIFICATION SuiteSpec
CONSTANTS
  Size = 5
  Hdr = 2
  MaxLen = 4
  MaxSent = 7
  Uses = {}
  c1 = c1
  c2 = c2
INVARIANTS KeysServed ServerLeavesNothing
PROPERTIES RingIsAPipe TransportsEnd
CHECK_DEADLOCK FALSE
