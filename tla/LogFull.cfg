SPECIFICATION Spec
CONSTANTS
    Procs = {p1, p2, p3}
    Blocks = {b1, b2, b3, b4, b5}
    Data = {d1}
    None = None
    LOGSIZE = 6
    MAXOPBLOCKS = 2
    OpBlocks = 2
    NLOG = 6
    MaxCrashes = 0
SYMMETRY Symmetry
INVARIANTS NoPanic
