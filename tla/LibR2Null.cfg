SPECIFICATION R2Spec
CONSTANTS
    Threads = {t1, t2}
    MaxCalls = 1
INVARIANT NoNullCall
CHECK_DEADLOCK FALSE
