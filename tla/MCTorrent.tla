------------------------------ MODULE MCTorrent ------------------------------
(***************************************************************************)
(* One torrent for TLC, and what it is written to.  The parts are gone     *)
(* through one after the other, as those of the node in MCNode: the        *)
(* initial state chooses the one that moves, the others rest.  The roles   *)
(* the remotes play make the parts of Swarm; its constants in the          *)
(* configuration are those of "downloads".                                 *)
(***************************************************************************)
EXTENDS Swarm

CONSTANTS
  pa, pb, pc, pd, pe,  \* remotes: two, and three for the choice of favorites
  r1, r2, r3, Zero,    \* requests, none
  Parts                \* the parts that are gone through

VARIABLES
  part,
  xDl, xPeer,          \* of the three remotes
  qReq, qHead, qTail, qResult,
  gDisk, gFs, gRunning, gHarms,
  oSets

xvars == <<xDl, xPeer>>
qvars == <<qReq, qHead, qTail, qResult>>
gvars == <<gDisk, gFs, gRunning, gHarms>>
tvars == <<part, vars, xvars, qvars, gvars, oSets>>

MCPieces == {0, 1}

-----------------------------------------------------------------------------
(* They share one piece, and send bad data. *)
Shares == INSTANCE Swarm WITH
  Peers <- {pa, pb}, Pieces <- {0}, NBlocks <- 2, OnDisk <- {},
  Messages <- {"CHOKE", "UNCHOKE", "BITFIELD", "PIECE", "CLOSE", "BAD"}, QLens <- {3},
  MaxWire <- 4

(* Many of them want blocks of ours. *)
Wanted == INSTANCE Swarm WITH
  Peers <- {pa, pb}, Pieces <- {0, 1}, NBlocks <- 2, OnDisk <- {},
  Messages <- {"CHOKE", "UNCHOKE", "INTERESTED", "NOTINTERESTED", "BITFIELD", "PIECE"}, QLens <- {1}

(* They call us, and connect while pieces are finished. *)
Calls == INSTANCE Swarm WITH
  Peers <- {pa, pb}, Pieces <- {0}, NBlocks <- 1, OnDisk <- {},
  Messages <- {"CALL", "CHOKE", "UNCHOKE", "HAVE", "PIECE", "CLOSE"}

(* They ask us for blocks. *)
Uploads == INSTANCE Swarm WITH
  Peers <- {pa, pb}, Pieces <- {0, 1}, NBlocks <- 2, OnDisk <- {0},
  Messages <- {"CALL", "INTERESTED", "NOTINTERESTED", "REQUEST", "CANCEL", "HAVE", "CLOSE", "GONE"}

(* Three of them for two places. *)
Chooses == INSTANCE Swarm WITH
  Peers <- {pc, pd, pe}, Pieces <- {0, 1}, NBlocks <- 2, OnDisk <- {0}, DOWNLOADS <- 2,
  Messages <- {"INTERESTED", "REQUEST"}, MaxCount <- 3,
  dl <- xDl, peer <- xPeer

(* A ring of five slots. *)
Queue == INSTANCE ReqQueue WITH
  Requests <- {r1, r2, r3}, TooLong <- {r3}, QUEUESIZE <- 5,
  req <- qReq, head <- qHead, tail <- qTail, result <- qResult

(* A file that ends inside a piece, an empty one, one longer than a piece   *)
(* that ends with one, a last piece that is short.                          *)
Ragged == INSTANCE Fileset WITH
  Lens <- <<1, 0, 3, 1>>, PieceLen <- 2, Harms <- {"delete", "cut", "spoil"}, MaxHarms <- 1,
  disk <- gDisk, fs <- gFs, running <- gRunning, harms <- gHarms

(* Files that end with pieces. *)
Aligned == INSTANCE Fileset WITH
  Lens <- <<2, 4>>, PieceLen <- 2, Harms <- {"delete", "cut"}, MaxHarms <- 2,
  disk <- gDisk, fs <- gFs, running <- gRunning, harms <- gHarms

(* Bytes of two bits: three sets of two bytes, one of up to three.          *)
Sets == INSTANCE Bitset WITH
  BYTE <- 2, Names <- {"requested", "peer", "interested"}, Sizes <- {3}, sets <- oSets

Ranges == INSTANCE Bitset WITH BYTE <- 2, Names <- {"peer"}, Sizes <- {4, 5}, sets <- oSets

ASSUME TorrentAssumption ==
  /\ SwarmAssumption /\ Shares!SwarmAssumption /\ Wanted!SwarmAssumption /\ Calls!SwarmAssumption
  /\ Uploads!SwarmAssumption /\ Chooses!SwarmAssumption
  /\ Queue!ReqQueueAssumption /\ Ragged!FilesetAssumption /\ Aligned!FilesetAssumption
  /\ Sets!BitsetAssumption /\ Ranges!BitsetAssumption

-----------------------------------------------------------------------------
TorrentInit ==
  /\ part \in Parts
  /\ CASE part = "uploads" -> Uploads!Init
       [] part \in {"shares", "calls"} -> Shares!Init
       [] OTHER -> Init
  /\ Chooses!Init
  /\ Queue!Init
  /\ IF part = "aligned" THEN Aligned!Init ELSE Ragged!Init
  /\ IF part = "ranges" THEN Ranges!Init ELSE Sets!Init

(* Part p makes the step A, the others rest. *)
Steps(p, A) ==
  /\ part = p /\ A /\ UNCHANGED part
  /\ IF p \in {"downloads", "shares", "wanted", "calls", "uploads"} THEN TRUE ELSE UNCHANGED vars
  /\ IF p = "chooses" THEN TRUE ELSE UNCHANGED xvars
  /\ IF p = "queue" THEN TRUE ELSE UNCHANGED qvars
  /\ IF p \in {"ragged", "aligned"} THEN TRUE ELSE UNCHANGED gvars
  /\ IF p \in {"sets", "ranges"} THEN TRUE ELSE UNCHANGED oSets

TorrentNext ==
  \/ Steps("downloads", Next)
  \/ Steps("shares", Shares!Next)
  \/ Steps("wanted", Wanted!Next)
  \/ Steps("calls", Calls!Next)
  \/ Steps("uploads", Uploads!Next)
  \/ Steps("chooses", Chooses!Next)
  \/ Steps("queue", Queue!Next)
  \/ Steps("ragged", Ragged!Next)
  \/ Steps("aligned", Aligned!Next)
  \/ Steps("sets", Sets!Next)
  \/ Steps("ranges", Ranges!Next)

TorrentSpec == TorrentInit /\ [][TorrentNext]_tvars

(* Remotes are alike, in each part and between those that have them.        *)
Symmetry == Permutations({pa, pb}) \cup Permutations({pc, pd, pe})

-----------------------------------------------------------------------------
(* No more than DOWNLOADS remotes are served; and after the choice of       *)
(* favorites nobody that wants our blocks and is not snubbed waits while    *)
(* one that does not is served (peer.c, recv_peermsg, peer_favorites).      *)
UploadsSound ==
  /\ [](part = "uploads" => Uploads!FewServed)
  /\ [](part = "chooses" => Chooses!FewServed /\ Chooses!PeersSound)
  /\ [][/\ part = "uploads" => Uploads!WantersServed
        /\ part = "chooses" => Chooses!WantersServed]_<<part, vars, xvars>>

(* The ring of requests is a sequence to its callers, over every wrap and   *)
(* every removal (peer.c, queue_request, remove_queued_request).            *)
IsAQueue == Queue!IsAQueue

(* Every byte of a complete piece is read back, over files of any length    *)
(* and after a start over files that were deleted, cut or spoilt; what is   *)
(* left is what is not complete; and a start over files that are all there  *)
(* loses no piece that is right (segmenter.c, context.c).                   *)
FilesReadBack ==
  /\ [](part = "ragged" => Ragged!TypeOK /\ Ragged!ReadsBack /\ Ragged!LeftRight)
  /\ [](part = "aligned" => Aligned!ReadsBack)
  /\ [][part = "aligned" => Aligned!RightKept]_<<part, gvars>>

(* Sets of bits answer as the sets they are, whatever lies beyond the end;  *)
(* what is picked is wanted, had and not asked for; and the operations do   *)
(* to the sets what their names say, to a range's very end (bitset.c).      *)
SetsRight ==
  /\ [](part = "sets" => Sets!TypeOK /\ Sets!AsSets /\ Sets!PicksWanted)
  /\ [](part = "ranges" => Ranges!AsSets)
  /\ [][part = "ranges" => Ranges!AsNamed]_<<part, oSets>>
=============================================================================
