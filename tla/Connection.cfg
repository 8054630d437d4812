SPECIFICATION FairSpec
CONSTANTS
  t1 = t1
  t2 = t2
  c1 = c1
  c2 = c2
  c3 = c3
  c4 = c4
  None = None
  Threads <- MCThreads
  Clients <- MCClients
  MaxAttempts = 2
  MaxFaults = 2
INVARIANTS TypeOK NoUseAfterClose LeaksOnlyByFaults
PROPERTIES RetriesMaskFaults OperationReturns
