SPECIFICATION MCSpec
CONSTANTS
    MaxAge = 1
    MaxCount = 1
    Window = 2
    Faults = {"short", "sync", "cut", "clock", "hold", "rescan"}
    MaxId = 5
    MaxClock = 1
    MaxMishaps = 2
    Inodes = {i1, i2}
    ReceiptBytes = 2
    TrimBytes = 1
    BlockRecords = 2
    MaxUnits = 6
    MaxTrims = 2
    MaxIndexMishaps = 3
    Stamps = {0, 1}
    Limit = 2
    ChunkRecords = 1
    MaxRecords = 4
    MaxReadMishaps = 1
    Refiling = FALSE
    None = None
INVARIANTS OpeningIsAWalk WalkIsTheFile
PROPERTIES WalkEnds EveryPutAnswered
CHECK_DEADLOCK FALSE
