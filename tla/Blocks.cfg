SPECIFICATION BlocksSpec
CONSTANTS
    Proc = {p1, p2}
    None = None
    Buf = {b1, b2, b3}
    Block = {k1, k2, k3, k4}
    Val = {0, 1}
    InitVal = 0
    MaxPin = 1
    Results = {"ok"}
    Others = {p3, p4}
    LOGSIZE = 4
    NLOG = 4
    MAXOPBLOCKS = 2
    OpBlocks = 1
SYMMETRY BlocksSymmetry
VIEW BlocksView
INVARIANTS
    OneBufferPerBlock
    
    RequestPending
    NoStrandedCaller
PROPERTIES
    OnlyHolderChanges
    AtomicOperations
