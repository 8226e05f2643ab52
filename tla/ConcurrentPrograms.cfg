SPECIFICATION Spec
CONSTANTS
    Threads = {t1, t2, t3}
    MaxCalls = 2
    Sizes <- MainSizes
    TEST_TIMES = 3
    MaxFailures = 2
    BOOT_TEST_TIMES = 6
    BootFaults = {"thread", "display", "current", "asset", "swap", "flinger"}
    MaxLines = 2
    sRepeatTimes = 2
    MaxRedirects = 2
    MaxRepeats = 2
INVARIANTS
    NullOnlyAtStart
    EchoIsOwn
    NothingLeftBehind
    ShiftIsBounded
PROPERTIES
    SleepsOnlyInKernel PingPongEnds Returns MeasuresOwnPage Finishes
CHECK_DEADLOCK FALSE
