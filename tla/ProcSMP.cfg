SPECIFICATION Spec
CONSTANTS
    NPROC = 3
    Cpu = {c1, c2}
    NoCpu = NoCpu
    Chan = {}
    Builds = {TRUE, FALSE}
    KillPids = {2}
    NicePids = {2}
    NicePrios = {4, 6}
    MaxPid = 4
SYMMETRY CpuSymmetry
INVARIANTS
    OneCpuPerProcess
    
    NoLostChildExit
    OrphansToInit
PROPERTIES
    ReapedByParent
