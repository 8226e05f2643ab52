SPECIFICATION FairSpec
CONSTANTS
    WORKER_NUM = 4
    HANDLE_UNIT = 2
    BATCH_MAX = 3
    Threads = {1, 2, 5}
    Opcodes = {"SOCKET", "FUTEX_WAIT", "FUTEX_WAKE", "PIPE"}
    Faults = {}
    NULL = NULL
INVARIANTS
    NoHeadOfLineBlocking
    NothingLost
PROPERTIES
    ImplementsFairService
