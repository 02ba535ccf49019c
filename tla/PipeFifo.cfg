SPECIFICATION Spec
CONSTANTS
    Readers = {r1, r2}
    Writers = {w1, w2}
    Bytes = {a, b}
    PIPESIZE = 2
    WIDTH = 4
    MaxCount = 2
    None = None
CHECK_DEADLOCK FALSE
SYMMETRY Symmetry
INVARIANTS
    NoUseAfterFree
    NotStuck
PROPERTIES
    FifoSpec
    EofMeansClosed
