SPECIFICATION Spec
CONSTANTS
    U32 = 64
    OBJ = 8
    MAX_STRING = 20
    MaxData = {3, 18, 36}
    MaxOffs = {1, 2}
    Words = {5}
    Lengths = {0, 1, 2, 5, 20}
    Pointers = {0, 9, 13}
    Owned = {13}
    MAX_ITEMS = 4
CHECK_DEADLOCK FALSE
INVARIANTS
    InBounds
    NeverShifted
    RoundTrip
    OverflowDetected
