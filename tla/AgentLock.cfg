SPECIFICATION Spec
CONSTANTS
    a1 = a1
    a2 = a2
    i1 = i1
    i2 = i2
    i3 = i3
    i4 = i4
    i5 = i5
    Acquirers = {a1, a2}
    Fallbacks = {d1}
    Sweepers = {s1}
    Inodes = {i1, i2, i3, i4, i5}
    NoInode = NoInode
    NoClient = NoClient
    MaxRetries = 2
SYMMETRY Symmetry
INVARIANTS TypeOK OneHolder HolderHasThePath
