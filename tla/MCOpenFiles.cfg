SPECIFICATION Spec
CONSTANTS
    p1 = p1
    p2 = p2
    a = a
    b = b
    Proc = {p1, p2}
    First = p1
    Name = {a, b}
    MaxInode = 2
    InodesPerBlock = 4
    InodeAreaStart = 2
    OpenFile <- MCOpenFile
    None = None
    Std = Std
    InitFds <- MCInitFds
    Flags <- MCFlags
    Bufs <- MCBufs
    ReadLens <- MCReadLens
    MaxSize = 1
    MaxDirents = 2
    MaxFds = 2
SYMMETRY MCSymmetry
INVARIANTS ReferencesAllocated
PROPERTIES ImplementsLinks
