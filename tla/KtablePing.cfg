SPECIFICATION BucketsSpec
CONSTANTS
  a = a
  b = b
  c = c
  d = d
  me = me
  p = p
  q = q
  r = r
  s = s
  h = h
  NullId = NullId
  Ids <- IdsPing
  Index <- IndexPing
  Hosts <- MCHosts
  NBuckets = 3
  K = 1
  DoubtAge = 0
  MaxFailed = 3
  BootTime = 1
  MaxClock = 2
SYMMETRY SymmetryBuckets
INVARIANTS
  BucketSound
  TableSound
PROPERTIES
  BucketKeeps
  BucketsWork
