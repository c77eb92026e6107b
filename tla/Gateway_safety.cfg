SPECIFICATION MCSpec
SYMMETRY Twins
CONSTANTS
    p1 = p1
    p2 = p2
    p3 = p3
    here = here
    there = there
    None = None
    Proc = {p1, p2, p3}
    Host = {here, there}
    HostOf <- MCHostOf
    Burst = 1
    Unit = 3
    Gain = 2
    Second = 1
    MaxKeys = 2
    Key = {k1, k2, k3}
    RateClock = 2
    Peer = {a1}
    Cred = {c1, c2, c3}
    Bearer = {c3}
    AllowBearer = "on"
    Revoked = {c2}
    Stranger = c0
    Nonce = {n1, n2}
    Tolerance = 1
    Window = 3
    MaxEntries = 1
    MaxPeers = 1
    AdmitClock = 3
    Creds = {c1, c2}
    LastDay = 2
    Days = 1
    MaxLines = 2
    Slots = 9
    MaxRecords = 3
    MaxFaults = 1
    ShortAppends = TRUE
    Attempts = 2
    Procs = {q1, q2}
    Epochs = {1, 2, 3}
    SealKeys = {s1, s2}
    Latest = 2
    MaxEdits = 1
    MaxIssued = 1
    StepsBack = TRUE
    Instants = {10, 12}
    Bounds = {1}
    PerSecond = 2
    MaxRefresh = 1
    Band = 3
    Wall = 10
    Readers = {r1, r2}
    LastUnit = 5
INVARIANTS
    ForkNeedsSeizure
    GrantsAreEarned
    HintSuffices
    BusyKeyKept
    SpentOnce
    LinesAreKept
    ErasedIsGone
    HistoryIsWhole
    EarlierReceiptsVerify
PROPERTIES
    HandsBackItsOwn
    GuessesTouchNothing
    StampIsEarned
CHECK_DEADLOCK FALSE
