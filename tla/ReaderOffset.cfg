SPECIFICATION Spec
CHECK_DEADLOCK FALSE
CONSTANTS
  None = None
  Requests <- MCFarAhead
  Lengths <- MCGrowing
  BLOCKSIZE = 2
  MaxAttempts = 2
  MaxFaults = 0
INVARIANTS OffsetIsCurrent
