SPECIFICATION BtgetFairSpec
CONSTANTS
  f1 = f1
  f2 = f2
  pa = pa
  pb = pb
  me = me
  h1 = h1
  h2 = h2
  NoId = NoId
  NULL = NULL
  FILESETSIZE = 3
  Paths = {f1, f2}
  Options = {1, 2}
  Fds = {3, 4, 5, 6}
  Parts = {"files", "completes", "table", "client", "reader", "uploader", "tracker1", "tracker2", "tracker live", "values", "texts", "maker"}
INVARIANTS
  PollSound
  SameText
  PiecesOfStream
PROPERTIES
  RingSound
  StreamSound
  TrackerSound
  DownloadEnds
CHECK_DEADLOCK FALSE
