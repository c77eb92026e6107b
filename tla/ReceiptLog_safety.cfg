SPECIFICATION MendedSpec
CONSTANTS
    MaxAge = 1
    MaxCount = 2
    Window = 2
    Faults = {"short", "sync", "clock", "hold"}
    MaxId = 5
    MaxClock = 2
    MaxMishaps = 2
INVARIANTS StoreIsConsistent AckedOnFile ChainWhole TrimsAddUp
PROPERTIES KeepsWhatThePolicyKeeps ImplementsLedger
CHECK_DEADLOCK FALSE
