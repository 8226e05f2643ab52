SPECIFICATION FairSpec
CONSTANTS
    WORKER_NUM = 3
    HANDLE_UNIT = 2
    BATCH_MAX = 3
    Threads = {1, 2}
    Opcodes = {"SOCKET", "BINDER_WRITE_READ", "POLL", "FUTEX_WAIT", "FUTEX_WAKE", "CLOSE", "PIPE", "ALIEN_MMAP2", "REGISTER_HELPER", "UNKNOWN"}
    Faults = {"init","ioctl","malformed","send","nomem"}
    NULL = NULL
CHECK_DEADLOCK FALSE
INVARIANTS
    TypeOK
    NoSpuriousCommand
    ReplyToAsker
    Accounted
PROPERTIES
    ImplementsService
    Answered
