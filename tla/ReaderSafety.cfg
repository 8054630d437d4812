SPECIFICATION FairSpec
CHECK_DEADLOCK FALSE
CONSTANTS
  None = None
  Requests <- MCRequests
  Lengths <- MCLengths
  BLOCKSIZE = 2
  MaxAttempts = 2
  MaxFaults = 3
INVARIANTS TypeOK BuffersTrue NoStreamLeak
PROPERTIES ImplementsFileReads ReadReturns
