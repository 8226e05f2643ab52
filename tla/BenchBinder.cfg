SPECIFICATION FairSpec
CONSTANTS
    BufferRoom = 2
    MaxInterrupts = 2
    MaxFailedWrites = 1
    MaxLoopErrors = 1
    Rounds = 2
    TEST_TIMES = 2
INVARIANTS ReplyIsOwn BuffersReturned NoCallFails ReportsMeasurePong
CHECK_DEADLOCK FALSE
PROPERTIES ChildFinishes
