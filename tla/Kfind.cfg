SPECIFICATION FairSpec
CONSTANTS
  Ids <- MCIds
  NoId = 0
  Hosts <- MCHosts
  Starts <- MCStarts
  Packets <- MCPackets
  MaxReplies = 2
  K = 2
  Concurrent = 2
INVARIANTS
  AskedOnce
  RequestsCounted
  ClosestFound
PROPERTIES
  AnswersCount
  AlwaysEnds
CHECK_DEADLOCK FALSE
