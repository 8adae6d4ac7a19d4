SPECIFICATION Spec
CONSTANTS
    p1 = p1
    p2 = p2
    Proc <- OneProc
    First = p1
    None = None
    Frame <- OneFrame
    Grant <- MCGrant
    PAGE_SIZE = 2
    StackPages = 1
    TRAP_CONTEXT = 6
    Zero = 0
    Data = {0}
    Programs <- OnePrograms
    InitProgram <- OneSmall
    Addrs <- NoAddrs
    Lens <- OneLens
    Ports <- OnePorts
    Sizes <- OneSizes
VIEW MCView
INVARIANTS
    HeapBottomIsHeap
