SPECIFICATION Spec
CONSTANTS
    MayBeClosed = {0, 1, 2}
    ExitCodes = {0, 1, 2, 127, 255}
    Signals = {9, 15}
    TtyFaults = {"usage", "open", "dup2", "fork", "setsid", "ctty", "execv"}
    BufSize = 3
    IntLimit = 8
    Unit = 2
    MaxStream = 9
    ROWS = 25
    SqliteFaults = {"open", "exec", "prepare", "step", "reset", "commit"}
    period = 32768
    Others = {0, 7, 10, 100, 999999999, 1000000000, 2147483647}
    DIGITS = 10
    BUF = 512
INVARIANTS
    ProgramOwnsTty
    LogIsReceived
    TimeMeansRows
    SpellsTheNumber
CHECK_DEADLOCK FALSE
