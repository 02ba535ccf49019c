SPECIFICATION Spec
CONSTANTS
    NPROC = 3
    CPUs = {c1}
    None = None
    MaxPid = 3
    KillPids = {0}
INVARIANT KillsProcesses
