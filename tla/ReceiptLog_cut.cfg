SPECIFICATION Spec
CONSTANTS
    MaxAge = 1
    MaxCount = 2
    Window = 2
    Faults = {"short", "cut"}
    MaxId = 3
    MaxClock = 0
    MaxMishaps = 3
INVARIANTS AckedOnFile
CHECK_DEADLOCK FALSE
