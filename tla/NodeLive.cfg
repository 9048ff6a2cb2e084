SPECIFICATION NodeFairSpec
CONSTANTS
  a = a
  b = b
  c = c
  k = k
  l = l
  nh = nh
  NullId = NullId
  Pingd = pingd
  Lookups = {k, l}
  TidSpan = 8
  MaxShips = 4
  MaxQueue = 2
  MaxRestarts = 0
  LongIds = FALSE
  Parts = {"pingd", "sockets", "start", "peers"}
  PingReplies = 1
  PingClock = 2
  Boots = {1}
  Routers = {}
  Session = {}
PROPERTIES
  PingdServes
  ClientsServed
  Refreshes
CHECK_DEADLOCK FALSE
