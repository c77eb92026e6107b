SPECIFICATION FairSpec
CONSTANTS
  Callers = {c1}
  MaxPieces = 2
  MarkPieces = 0
  Keep = 1
  Burst = 1
PROPERTIES
  LeavingEndsTheRequest
