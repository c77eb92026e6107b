SPECIFICATION Spec
CONSTANTS
    d1 = d1
    d2 = d2
    Challenges = {d1, d2}
    Calls = {d1, d2}
    Kinds = {"create"}
    Mode = "receipt"
    MaxEpoch = 0
    Pinned = {0}
    Composite = {}
    MaxCached = 2
INVARIANT ErrorIsItsOwn
CHECK_DEADLOCK FALSE
