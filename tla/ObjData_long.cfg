SPECIFICATION Spec
CONSTANTS
    Lens = {1, 10}
    Starts = {0, 1}
    Indices = {0, 1}
    MaxCalls = 1
    MF_LEN = 18
    NumWidth = 4
    MaxChan = 3
    Uses = {}
    Given <- Objects
PROPERTY ImplementsStacks
CHECK_DEADLOCK FALSE
