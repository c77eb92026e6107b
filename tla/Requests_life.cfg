SPECIFICATION Spec
CONSTANTS
    Request = {r1, r2}
    None = None
    MaxText = 2
    MaxStamp = 2
    Callers = {c1, c2}
    MaxPieces = 2
    MarkPieces = 2
    Keep = 1
    Burst = 2
    Calls = {d1, d2}
    Kinds = {"create", "stream"}
    Streaming = d2
    Mode = "strict"
    MaxEpoch = 1
    Pinned = {0, 1}
    Composite = {0}
    MaxCached = 1
INVARIANTS
    WatchedIsServed
    AdmittedOnFile
    ReceiptMeansWhole
    DigestCoversTheBody
    OvershootIsInFlight
    HandsBackWhatItChecked
    RefusedForACause
PROPERTIES
    ReloadsEnd
    EveryRequestEnds
    SettlesOnceRead
CHECK_DEADLOCK FALSE
