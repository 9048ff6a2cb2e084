SPECIFICATION Spec
CONSTANTS
  a = a
  b = b
  c = c
  d = d
  me = me
  h = h
  NullId = NullId
  Ids <- IdsWindow
  Index <- IndexWindow
  Hosts <- MCHosts
  NBuckets = 3
  K = 2
  DoubtAge = 0
  MaxFailed = 3
  BootTime = 1
  MaxClock = 2
SYMMETRY SymmetryWindow
INVARIANTS
  ClosestKnown
