SPECIFICATION Spec
CONSTANTS
  a = a
  b = b
  c = c
  d = d
  h = h
  NullId = NullId
  Ids <- MCIds
  Hosts <- MCHosts
  K = 2
  DoubtAge = 1
  MaxFailed = 3
  BootTime = 2
  MaxClock = 5
SYMMETRY Symmetry
PROPERTIES
  ReplacedByGood
