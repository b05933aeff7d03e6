CONSTANTS
    MaxPages = 3
    ArraySize = 3
    MaxEvents = 1
    Faults <- ShortRelease
SPECIFICATION BalloonSpec
INVARIANTS
    BalloonedOutExact
CHECK_DEADLOCK FALSE
