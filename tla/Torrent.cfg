SPECIFICATION TorrentSpec
CONSTANTS
  pa = pa
  pb = pb
  pc = pc
  pd = pd
  pe = pe
  r1 = r1
  r2 = r2
  r3 = r3
  Zero = Zero
  Peers = {pa, pb}
  Pieces <- MCPieces
  NBlocks = 2
  OnDisk = {}
  Messages = {"CHOKE", "UNCHOKE", "BITFIELD", "PIECE", "CLOSE", "GONE"}
  QLens = {2}
  QUEUESIZE = 3
  DOWNLOADS = 1
  ManyInterested = 1
  FewIncomplete = 0
  ManySeeds = 0
  Share = 1
  Loyal = {}
  MaxCount = 2
  MaxWire = 3
  Parts = {"downloads", "shares", "wanted", "calls", "uploads", "chooses", "queue", "ragged", "aligned", "sets", "ranges"}
SYMMETRY Symmetry
INVARIANTS
  PeersSound
PROPERTIES
  UploadsSound
  IsAQueue
  FilesReadBack
  SetsRight
CHECK_DEADLOCK FALSE
