SPECIFICATION FairSpec
CONSTANTS
  t1 = t1
  t2 = t2
  h1 = h1
  h2 = h2
  old = old
  new = new
  None = None
  Threads <- MCThreads
  Handles <- MCHandles
  Pieces <- MCOnePiece
  Initial <- MCNoPiece
  MaxAttempts = 2
  MaxFaults = 1
PROPERTIES Answered
