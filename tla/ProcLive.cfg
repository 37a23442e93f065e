SPECIFICATION FairSpec
CONSTANTS
    NPROC = 3
    Cpu = {c1}
    NoCpu = NoCpu
    Chan = {ch}
    Builds = {TRUE, FALSE}
    KillPids = {2}
    NicePids = {}
    NicePrios = {}
    MaxPid = 4
PROPERTIES
    
    WaitReturns
