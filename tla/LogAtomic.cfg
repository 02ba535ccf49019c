SPECIFICATION Spec
CONSTANTS
    Procs = {p1, p2}
    Blocks = {b1, b2, b3}
    Data = {d1, d2}
    None = None
    LOGSIZE = 4
    MAXOPBLOCKS = 2
    OpBlocks = 2
    NLOG = 5
    MaxCrashes = 2
SYMMETRY Symmetry
INVARIANTS
    SleeperHasWaker
PROPERTIES
    AtomicSpec
    WriteAhead
