SPECIFICATION Spec
CONSTANTS
  t1 = t1
  t2 = t2
  Threads <- MCThreads
  Lifetime = 2
  MaxTime = 3
  MaxVersion = 4
  MaxFaults = 0
INVARIANTS PathIsOwn
