SPECIFICATION LiveSpec
CONSTANTS
    p1 = p1
    p2 = p2
    Procs = {p1, p2}
    Blocks = {b1, b2, b3, b4}
    d1 = d1
    d2 = d2
    Data = {d1}
    LOGSIZE = 4
    MAXOPBLOCKS = 2
    OpBlocks = 1
    NLOG = 4
    MaxCrashes = 1
    c1 = c1
    Handler = Handler
    Echo = Echo
    None = None
CHECK_DEADLOCK FALSE
INVARIANT NoPanic
PROPERTIES
    SleeperWoken
    OrphansReaped
    DevicesServe
