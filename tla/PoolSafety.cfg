SPECIFICATION Spec
CONSTANTS
  t1 = t1
  t2 = t2
  t3 = t3
  r1 = r1
  r2 = r2
  r3 = r3
  r4 = r4
  None = None
  Threads <- MCThreads
  Readers <- MCReaders
  Requests <- MCRequests
  Length <- MCLength
  MaxReaders = 2
  MaxFaults = 1
SYMMETRY MCSymmetry
INVARIANTS TypeOK ExclusiveUse PoolSound PoolBounded NoLeak
PROPERTIES ImplementsReaderAt
