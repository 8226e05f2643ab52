SPECIFICATION FairSpec
CONSTANTS
    WORKER_NUM = 3
    HANDLE_UNIT = 2
    BATCH_MAX = 2
    Threads = {1, 4}
    Opcodes = {"FUTEX_WAIT", "FUTEX_WAKE"}
    Faults = {}
    NULL = NULL
INVARIANTS
    NoDeadlock
