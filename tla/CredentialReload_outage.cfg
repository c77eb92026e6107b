SPECIFICATION FairSpec
CONSTANTS
    Request = {r1, r2}
    None = None
    MaxText = 2
    MaxStamp = 2
PROPERTIES KeepsAnswering
