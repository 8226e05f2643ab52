SPECIFICATION HandlerSpec
CONSTANTS
    PAYLOAD_WORDS = 4
    PAYLOAD_ADDR = 3
    Modulus = 5
    WORD = 2
    TXN = 2
    REFS = 1
    SEG = 1
    READ_BUFFER_SIZE = 12
    MARSHALER_BUF_SIZE = 18
    MAX_SEGMENT_NUM = 3
    VM_START = 20
    BINDER_VM_SIZE = 8
    SIZE_MOD = 64
    Commands <- MCCommands
    MAX_COMMANDS = 3
CHECK_DEADLOCK FALSE
INVARIANTS
    PatchedOnce
    NoOverrun
    AllOrNothing
    Decodable
    ErrorsJustified
PROPERTIES
    Terminates
