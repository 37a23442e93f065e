SPECIFICATION Spec
CONSTANTS
    NPROC = 3
    Cpu = {c1}
    NoCpu = NoCpu
    Chan = {ch}
    Builds = {FALSE}
    KillPids = {}
    NicePids = {2}
    NicePrios = {5}
    MaxPid = 4
INVARIANTS
    OrphansToInit
