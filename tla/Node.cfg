SPECIFICATION NodeSpec
CONSTANTS
  a = a
  b = b
  c = c
  k = k
  l = l
  nh = nh
  NullId = NullId
  Pingd = pingd
  Lookups = {k, l}
  TidSpan = 8
  MaxShips = 4
  MaxQueue = 2
  MaxRestarts = 0
  LongIds = FALSE
  Parts = {"requests", "restarts", "pingd", "sockets", "faults", "start", "peers", "queries", "distances", "values", "texts"}
  PingReplies = 2
  PingClock = 3
  Boots = {0, 1}
  Routers = {router}
  Session = {saved}
INVARIANTS
  NumbersSound
  PeersOnce
  RefreshInBucket
  Decodes
PROPERTIES
  ImplementsMail
  PingdSound
  QueriesSound
  SocketsSound
  StartSound
CHECK_DEADLOCK FALSE
