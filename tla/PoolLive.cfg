SPECIFICATION FairSpec
CONSTANTS
  t1 = t1
  t2 = t2
  t3 = t3
  r1 = r1
  r2 = r2
  r3 = r3
  r4 = r4
  None = None
  Threads <- MCTwoThreads
  Readers <- MCThreeReaders
  Requests <- MCRequests
  Length <- MCLength
  MaxReaders = 1
  MaxFaults = 1
PROPERTIES CloseReleasesAll 
