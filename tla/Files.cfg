SPECIFICATION FsSpec
CONSTANTS
    Procs = {p1, p2}
    Blocks = {k1, k2, k3}
    Vals = {u1, u2}
    NBUF = 2
    Nests <- UnderIndirect
    k1 = k1
    k2 = k2
    k3 = k3
    p1 = p1
    p2 = p2
    None = None
SYMMETRY Symmetry
CHECK_DEADLOCK FALSE
INVARIANTS
    NoLostWakeup
    NoDangling
    LinksExact
    BlocksOwned
    ContentsRight
    LogFits
PROPERTIES
    CacheIsStore
    BuffersSuffice
