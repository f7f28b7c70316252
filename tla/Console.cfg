SPECIFICATION Spec
CONSTANTS
    Proc = {1, 2}
    INPUT_BUF = 2
    Wrap = 4
    ReadSizes = {1, 2}
    MaxTyped = 4
    MaxCalls = 3
    Killable = {2}
    Start = 3
INVARIANTS ReadersWoken
PROPERTIES LinesKept Served
CHECK_DEADLOCK FALSE
