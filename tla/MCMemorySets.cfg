SPECIFICATION Spec
CONSTANTS
    p1 = p1
    p2 = p2
    Proc <- TwoProc
    First = p1
    None = None
    Frame <- TwoFrame
    Grant <- MCGrant
    PAGE_SIZE = 2
    StackPages = 1
    TRAP_CONTEXT = 5
    Zero = 0
    Data = {0, 1}
    Programs <- TwoPrograms
    InitProgram <- TwoSmall
    Addrs <- TwoAddrs
    Lens <- TwoLens
    Ports <- TwoPorts
    Sizes <- TwoSizes
VIEW MCView
INVARIANTS
    TypeOK
    MapsMatch
    FramesPartitioned
    
    ReleasesAreValid
PROPERTIES
    ImplementsPrivateMemory
