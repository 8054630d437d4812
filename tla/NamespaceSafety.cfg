SPECIFICATION Spec
CONSTANTS
  t1 = t1
  t2 = t2
  x1 = x1
  x2 = x2
  x3 = x3
  x4 = x4
  d1 = d1
  d2 = d2
  f = f
  g = g
  h = h
  None = None
  Threads <- MCThreads
  Dirs <- MCDirs
  Names <- MCNames
  Paths <- MCPaths
  Nodes <- MCNodes
  Allowed <- MCAllowed
  MaxAttempts = 2
  MaxFaults = 1
SYMMETRY MCSymmetry
INVARIANTS TypeOK EntriesNamed CacheSound SuccessIsReal
