SPECIFICATION SleepSpec
CONSTANTS
    Proc = {p1, p2, p3}
    None = None
    Reader = {r1}
    Writer = {w1, w2}
    Val = {0, 1}
    InitVal = 0
    PIPESIZE = 2
    UINT = 4
    MaxCall = 2
    Killable = {r1, w1}
    Sleeper = {1, 2}
    TICKS = 8
    Naps = {0, 1, 3}
    MaxLag = 2
CHECK_DEADLOCK FALSE
INVARIANTS
    MutualExclusion
    NobodySleepsOn
PROPERTIES
    FifoChannel
    SleepsLongEnough
    SleepersReturn
