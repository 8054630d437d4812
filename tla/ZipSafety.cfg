SPECIFICATION FairSpec
CONSTANTS
  t1 = t1
  t2 = t2
  r1 = r1
  r2 = r2
  None = None
  Threads <- MCThreads
  Roots <- MCRoots
  Archives <- MCArchives
  Length = 3
  MaxReadSize = 2
  MaxFaults = 1
CHECK_DEADLOCK FALSE
INVARIANTS TypeOK TreeRight ReadersKnown MemberInOrder
PROPERTIES ReadOnce ImplementsArchiveDirectory Answered
