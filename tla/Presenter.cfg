SPECIFICATION FairSpec
CONSTANTS
    NumberOfSlides = 5
    Broken = {2}
    Undecodable = {3}
    UnknownFormat = {4}
    Faults = {"open", "thread", "screen", "socket", "poll"}
CHECK_DEADLOCK FALSE
INVARIANTS
    SlideInRange
    ScreenIsCurrent
PROPERTIES
    ActionPerformed
