SPECIFICATION Spec
CONSTANTS
    NPROC = 3
    CPUs = {c1, c2}
    None = None
    MaxPid = 3
    KillPids = {2}
INVARIANT KillInterruptsSleep
