\* Two requests leave too few of the eight descriptors for a third, and the
\* 16-bit indices wrap within three calls.
SPECIFICATION DevSpec
CONSTANTS
    Procs = {p1, p2, p3}
    Vals = {v1, v2}
    NUM = 8
    WIDTH = 65536
    START = 65534
    MaxCalls = 3
    p1 = p1
    p2 = p2
    p3 = p3
    v1 = v1
    v2 = v2
    u1 = u1
    u2 = u2
    a = a
    e1 = e1
    e2 = e2
    Handler = Handler
    Echo = Echo
    NL = NL
    CtrlD = CtrlD
    Tick = Tick
    None = None
SYMMETRY Symmetry
CHECK_DEADLOCK FALSE
INVARIANT TrapsReturn
PROPERTIES
    DiskServesCalls
    ConsoleIsLineEditor
    UartIsFifo
