SPECIFICATION Spec
CONSTANTS
  t1 = t1
  t2 = t2
  Threads <- MCThreads
  Lifetime = 1
  MaxTime = 3
  MaxVersion = 4
  MaxFaults = 1
SYMMETRY MCSymmetry
INVARIANTS TypeOK ModeKept
PROPERTIES StalenessBounded FlushVisible
