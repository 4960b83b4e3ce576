SPECIFICATION SuiteSpec
CONSTANTS
    Lens = {1, 2, 3}
    Starts = {0, 1}
    Indices = {0, 1}
    MaxCalls = 2
    MF_LEN = 14
    NumWidth = 2
    MaxChan = 3
    Uses = {}
    Given <- Objects
INVARIANTS ListIsCurrent SizesAreCurrent
PROPERTY ImplementsStacks
CHECK_DEADLOCK FALSE
