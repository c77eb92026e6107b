SPECIFICATION Spec
CONSTANTS
    MaxAge = 1
    MaxCount = 2
    Window = 2
    Faults = {}
    MaxId = 5
    MaxClock = 2
    MaxMishaps = 0
INVARIANTS AnchorPrecedesTheOldest
CHECK_DEADLOCK FALSE
