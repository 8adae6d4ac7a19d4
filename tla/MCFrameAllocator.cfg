SPECIFICATION Spec
CONSTANTS
    t1 = t1
    t2 = t2
    t3 = t3
    t4 = t4
    t5 = t5
    t6 = t6
    Tracker <- MCTracker
    None = None
    L = 3
    R = 8
SYMMETRY MCSymmetry
INVARIANTS
    FramesAccounted
    NeverPanics
PROPERTIES
    ImplementsPool
