SPECIFICATION Spec
CONSTANTS
    Proc = {p1, p2}
    Name = {a, b}
    Inum = {i1, i2, i3}
    NoInum = NoInum
    NoName = NoName
    NoProc = NoProc
    NINODE = 2
SYMMETRY FileSysSymmetry
INVARIANTS
    CountsAreRight
    FilesAllocated
    NoLockCycle
PROPERTIES
    FreeOnlyUnused
