SPECIFICATION Spec
CONSTANTS
  t1 = t1
  t2 = t2
  x1 = x1
  x2 = x2
  x3 = x3
  x4 = x4
  d1 = d1
  d2 = d2
  f = f
  g = g
  h = h
  None = None
  Threads <- MCOneThread
  Dirs <- MCDirs
  Names <- MCNames
  Paths <- MCTwoPaths
  Nodes <- MCNodes
  Allowed <- MCAllowed
  MaxAttempts = 2
  MaxFaults = 0
SYMMETRY MCSymmetry
INVARIANTS NodePathsRight
