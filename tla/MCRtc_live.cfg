CONSTANTS
    Procs = {p1, p2}
    FDS = 1
    MAX_PROC_NUM = 2
    USER_MAX_POW = 2
    SYS_MAX_POW = 2
    MSK_5 = 3
    RegInodes <- LowAndHigh
    COUNT_MAX = 2
    COUNTER_MAX = 1
    NULL = NULL
SPECIFICATION FairSpec
INVARIANT NoPhantomTick
PROPERTY ReadReturns
