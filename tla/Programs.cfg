SPECIFICATION ProgSpec
CONSTANTS
    Procs = {q1, q2}
    Inodes = {1}
    Pipes = {2}
    NFILE = 3
    NOFILE = 2
CHECK_DEADLOCK FALSE
INVARIANTS
    ObjectsExact
    PagesExact
    MemoryRight
    CopyRight
    NamesRight
    ImageRight
    GrepRight
    ParserRight
