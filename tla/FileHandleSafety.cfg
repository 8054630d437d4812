SPECIFICATION Spec
CONSTANTS
  t1 = t1
  t2 = t2
  h1 = h1
  h2 = h2
  old = old
  new = new
  None = None
  Threads <- MCThreads
  Handles <- MCHandles
  Pieces <- MCPieces
  Initial <- MCInitial
  MaxAttempts = 2
  MaxFaults = 2
SYMMETRY MCSymmetry
INVARIANTS TypeOK NoSilentLoss NoUnreportedLoss
PROPERTIES  FsyncCovers ImplementsDurableFile
