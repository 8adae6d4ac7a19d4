SPECIFICATION HSpec
CONSTANTS
    i1 = i1
    d1 = d1
    d2 = d2
    d3 = d3
    e1 = e1
    e2 = e2
    e3 = e3
    e4 = e4
    NoBlock = NoBlock
    Zero = 0
    BLOCK_CACHE_SIZE = 3
    Block <- MCBlock
    Entry <- MCEntry
    Area <- MCArea
    Value <- MCValue
SYMMETRY MCSymmetry
INVARIANTS
    CacheConsistent
    PinnedStayCached
    NeverRunsOut
    DiskIsRecent
PROPERTIES
    ImplementsStore
