CONSTANTS
  None = None
  Garbage = Garbage
  MaxCalls = 2
  MaxGets = 2
  MaxEdits = 1
  MaxMoves = 2
  MaxInstalls = 1
  MaxFaults = 1
SPECIFICATION FairSpec
PROPERTY PrecheckStops
CHECK_DEADLOCK FALSE
