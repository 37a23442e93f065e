SPECIFICATION Spec
CONSTANTS
    Proc = {p1, p2, p3}
    Block = {b1, b2, b3}
    Val = {0}
    InitVal = 0
    LOGSIZE = 3
    NLOG = 3
    MAXOPBLOCKS = 1
    OpBlocks = 1
SYMMETRY LogSymmetry
INVARIANTS
    LogFits
