SPECIFICATION Spec
CONSTANTS
    Proc = {p1, p2}
    Name = {a, b}
    Inum = {i1, i2}
    NoInum = NoInum
    NoName = NoName
    NoProc = NoProc
    NINODE = 2
SYMMETRY FileSysSymmetry
INVARIANTS
    NamedAllocated
