SPECIFICATION Spec
CONSTANTS
    Procs = {p1, p2}
    Epochs = {1, 2}
    Keys = {k1}
    Latest = 2
    MaxEdits = 0
    MaxIssued = 1
    StepsBack = FALSE
    None = None
INVARIANTS ReceiptsOutliveARotation
CHECK_DEADLOCK FALSE
