SPECIFICATION Spec
CONSTANTS
    D1 = D1
    D2 = D2
    E1 = E1
    E2 = E2
    SP = SP
    LF = LF
    CR = CR
    X = X
    M = M
    MaxChunks = 4
    Times = {1, 2}
    k1 = k1
    k2 = k2
    d1 = d1
    d2 = d2
    h1 = h1
    None = None
    MaxRecords = 3
    MaxSize = 4
    At = 3
    PacksRequired = 2
    MaxPacks = 3
    MaxInventory = 5
    Final = 3
    MaxTime = 2
    Interval = 1
    Required = 1
    MaxFaults = 2
INVARIANTS
    ReceiptReads
    MarkStandsAlone
    PackIsARun
    RemovesWhatItNames
    ExportIsTheRun
    EpochIsWhole
    NothingSmoothedOver
    MetIsHeld
CHECK_DEADLOCK FALSE
