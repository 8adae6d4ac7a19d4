SPECIFICATION FairSpec
CONSTANTS
    INITPROC = init
    p1 = p1
    p2 = p2
    None = None
    Tcb <- MCTcb
    ExitCodes <- MCExitCodes
    WaitPids <- MCWaitPids
    Pids <- MCPids
INVARIANTS
    TypeOK
    SchedulerConsistent
    TreeConsistent
    Rooted
    NoAssertionFails
    IdsPartitioned
    KstackFollowsPid
    NeverIdle
PROPERTIES
    ExitReportedOnce
    ImplementsTree
    ReadyRuns
    OrphansReaped
