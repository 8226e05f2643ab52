SPECIFICATION TtySpec
CONSTANTS
    MayBeClosed = {}
    ExitCodes = {0, 1, 2, 127, 255}
    Signals = {9, 15}
    TtyFaults = {}
INVARIANTS CallerLearnsFailure
CHECK_DEADLOCK FALSE
