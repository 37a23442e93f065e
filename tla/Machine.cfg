SPECIFICATION MachineSpec
CONSTANTS
    Cpu = {c1, c2}
    NoCpu = NoCpu
    NLOCK = 2
    Irq = {32, 33, 39}
    MaxNest = 2
    MaxDown = 4
    Reader = {1, 2}
    INPUT_BUF = 3
    UINT = 6
    Requests = {1, 2}
    COLS = 2
    ROWS = 2
    Proc = {1, 2, 3}
    initproc = 1
    Page = {1, 2, 3, 4, 5, 6, 7, 8, 9, 10, 11, 12, 13, 14, 15, 16}
    ArgSizes = {1, 3}
VIEW MachineView
INVARIANTS
    NoSelfDeadlock
    InterruptsRestored
    ModifiersAreRight
    PagesAccounted
    SpacesAreWhole
PROPERTIES
    TrapsAreInvisible
    InputIsLines
