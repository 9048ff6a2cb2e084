------------------------------ MODULE MCBtget ------------------------------
(***************************************************************************)
(* The parts of btget around a torrent, and the torrent builder, for TLC.  *)
(* They are gone through one after the other, as those of the node in      *)
(* MCNode: the initial state chooses the part that moves, the others rest. *)
(* The file cache is extended, as its proofs are; a component named twice  *)
(* is gone through under other constants.                                  *)
(***************************************************************************)
EXTENDS FileCache, TLC

CONSTANTS
  f1, f2,              \* paths
  pa, pb,              \* remotes
  me, h1, h2, NoId,    \* hosts, none
  Parts                \* the parts that are gone through

VARIABLES
  part,
  wDl, wPeer,
  mStatus, mStatmap, mSockpeer, mXset, mFds, mAt, mDied,
  nNet, nIos, nQueue, nTurn, nX, nPollout, nOpen, nExecs,
  tDls, tAge, tReported, tNstatus, tStrangers, tServing, tTold, tHeard,
  ePool, eBts, eChunks,
  kPhase, kNargs, kOpt, kCount, kPath, kFiles, kName, kLength, kMode, kTodo, kPos, kBuf,
  kPieces, kEntries

wvars == <<wDl, wPeer>>
mvars == <<mStatus, mStatmap, mSockpeer, mXset, mFds, mAt, mDied>>
nvars == <<nNet, nIos, nQueue, nTurn, nX, nPollout, nOpen, nExecs>>
tvars == <<tDls, tAge, tReported, tNstatus, tStrangers, tServing, tTold, tHeard>>
evars == <<ePool, eBts, eChunks>>
kvars == <<kPhase, kNargs, kOpt, kCount, kPath, kFiles, kName, kLength, kMode, kTodo, kPos,
           kBuf, kPieces, kEntries>>
livevars == <<nvars, tvars>>
btvars == <<part, vars, wvars, mvars, nvars, tvars, evars, kvars>>

-----------------------------------------------------------------------------
(* A torrent whose remote a stays and answers, for liveness. *)
Completes == INSTANCE Swarm WITH
  Peers <- {pa, pb}, Pieces <- {0, 1}, NBlocks <- 2, OnDisk <- {},
  Messages <- {"CHOKE", "UNCHOKE", "BITFIELD", "PIECE", "CLOSE"}, QLens <- {2},
  QUEUESIZE <- 3, DOWNLOADS <- 1, ManyInterested <- 1, FewIncomplete <- 0, ManySeeds <- 0,
  Share <- 1, Loyal <- {pa}, MaxCount <- 2, MaxWire <- 3, dl <- wDl, peer <- wPeer

(* Four sockets, three entries. *)
Table == INSTANCE StatusMap WITH
  SOCKID_MAX <- 4, MAXCONN <- 3, Refused <- TRUE,
  status <- mStatus, statmap <- mStatmap, sockpeer <- mSockpeer, xset <- mXset, fds <- mFds,
  at <- mAt, died <- mDied

(* A connection with uploads; one that only receives; one for liveness. *)
Client == INSTANCE Client WITH
  Messages <- {"HAVE", "REQ", "BIG", "NEG", "EOF"}, MaxAgain <- 2, QUEUESIZE <- 3, LOW <- 1,
  Others <- TRUE, MaxNet <- 3, MaxOut <- 4,
  net <- nNet, ios <- nIos, queue <- nQueue, turn <- nTurn, x <- nX, pollout <- nPollout,
  open <- nOpen, execs <- nExecs

Reader == INSTANCE Client WITH
  Messages <- {"HAVE", "KEEP", "BIG", "NEG", "EOF"}, MaxAgain <- 1, QUEUESIZE <- 2, LOW <- 1,
  Others <- FALSE, MaxNet <- 4, MaxOut <- 0,
  net <- nNet, ios <- nIos, queue <- nQueue, turn <- nTurn, x <- nX, pollout <- nPollout,
  open <- nOpen, execs <- nExecs

Uploader == INSTANCE Client WITH
  Messages <- {"KEEP", "REQ", "BAD"}, MaxAgain <- 10, QUEUESIZE <- 3, LOW <- 1,
  Others <- FALSE, MaxNet <- 3, MaxOut <- 4,
  net <- nNet, ios <- nIos, queue <- nQueue, turn <- nTurn, x <- nX, pollout <- nPollout,
  open <- nOpen, execs <- nExecs

(* Two hosts and ourselves; answers that name them again, in both forms.    *)
Me == [id |-> me, ip |-> <<10, 0, 0, 9>>, port |-> 6881]
HostA == [id |-> h1, ip |-> <<10, 0, 0, 1>>, port |-> 6881]
HostB == [id |-> h2, ip |-> <<10, 0, 0, 2>>, port |-> 6881]
NoAnswer == [ok |-> FALSE, interval |-> 0, kind |-> "none", hosts |-> <<>>]
Failure == [NoAnswer EXCEPT !.kind = "failure"]
Named3 == [ok |-> TRUE, interval |-> 2, kind |-> "list", hosts |-> <<HostA, Me, HostB>>]
Named2 == [ok |-> TRUE, interval |-> 1, kind |-> "list", hosts |-> <<HostB, HostB>>]
Compact == [ok |-> TRUE, interval |-> 1, kind |-> "compact", hosts |-> <<HostA>>]

Tracker1 == INSTANCE Tracker WITH
  NTorrents <- 1, MyId <- me, Hosts <- {Me, HostA, HostB}, MAXCONN <- 4, Missing <- {0, 1},
  Answers <- {NoAnswer, Failure, Named3, Named2, Compact}, Step <- 2, MaxAge <- 4,
  dls <- tDls, age <- tAge, reported <- tReported, nstatus <- tNstatus,
  strangers <- tStrangers, serving <- tServing, told <- tTold, heard <- tHeard

Tracker2 == INSTANCE Tracker WITH
  NTorrents <- 2, MyId <- me, Hosts <- {Me, HostA, HostB}, MAXCONN <- 3, Missing <- {0, 1},
  Answers <- {NoAnswer, Named2}, Step <- 2, MaxAge <- 4,
  dls <- tDls, age <- tAge, reported <- tReported, nstatus <- tNstatus,
  strangers <- tStrangers, serving <- tServing, told <- tTold, heard <- tHeard

TrackerLive == INSTANCE Tracker WITH
  NTorrents <- 1, MyId <- me, Hosts <- {Me, HostA, HostB}, MAXCONN <- 3, Missing <- {0, 1},
  Answers <- {NoAnswer, Named2}, Step <- 1, MaxAge <- 4,
  dls <- tDls, age <- tAge, reported <- tReported, nstatus <- tNstatus,
  strangers <- tStrangers, serving <- tServing, told <- tTold, heard <- tHeard

(* Objects a program makes, with keys "", "a", "aa" and "b"; texts made of  *)
(* the chunks d l e 0: 1:i i0e 1.                                         *)
MCKeys == {<<>>, <<97>>, <<97, 97>>, <<98>>}
Obj(t, n, s) == [t |-> t, num |-> n, str |-> s, key |-> <<>>, list |-> <<>>]
MCLeaves == {Obj("INTEGER", 0, <<>>), Obj("INTEGER", 12, <<>>), Obj("STRING", 0, <<>>),
             Obj("STRING", 0, <<101, 97>>), Obj("LIST", 0, <<>>), Obj("DICT", 0, <<>>)}
MCChunks == {<<100>>, <<108>>, <<101>>, <<48, 58>>, <<49, 58, 105>>, <<105, 48, 101>>, <<49>>}

Coding == INSTANCE Benc WITH
  Leaves <- MCLeaves, Keys <- MCKeys, Chunks <- MCChunks, STRDIGITS <- 3, INTDIGITS <- 6,
  MAXSTRING <- 12, MaxPool <- 2, MaxNodes <- 5, MaxChunks <- 6,
  pool <- ePool, bts <- eBts, chunks <- eChunks

(* Options of every kind; three files, one empty, one that ends in a piece. *)
Maker == INSTANCE Maker WITH
  Letter <- "-n" :> "n" @@ "-k" :> "k" @@ "-a" :> "a" @@ "--" :> "-" @@ "-h" :> "h" @@ "-z" :> "z",
  Text <- "x" :> <<"x">> @@ "/x//y" :> <<"/", "x", "/", "/", "y">> @@ "xy\\" :> <<"x", "y", "\\">>,
  Size <- "x" :> 3 @@ "/x//y" :> 0 @@ "xy\\" :> 4,
  Number <- "1" :> 1 @@ "3" :> 3, MaxArgs <- 5, Default <- [name |-> "driver", length |-> 2],
  phase <- kPhase, nargs <- kNargs, opt <- kOpt, count <- kCount, path <- kPath,
  files <- kFiles, name <- kName, length <- kLength, mode <- kMode, todo <- kTodo,
  pos <- kPos, buf <- kBuf, pieces <- kPieces, entries <- kEntries

ASSUME BtgetAssumption ==
  /\ Completes!SwarmAssumption /\ Table!StatusMapAssumption
  /\ Client!ClientAssumption /\ Reader!ClientAssumption /\ Uploader!ClientAssumption
  /\ Tracker1!TrackerAssumption /\ Tracker2!TrackerAssumption /\ TrackerLive!TrackerAssumption
  /\ Maker!MakerAssumption

-----------------------------------------------------------------------------
BtgetInit ==
  /\ part \in Parts
  /\ Init /\ Completes!Init /\ Table!Init /\ Client!Init /\ Coding!Init /\ Maker!Init
  /\ CASE part = "tracker2" -> Tracker2!Init [] part = "tracker live" -> TrackerLive!Init
       [] part = "tracker1" -> Tracker1!Init
       [] OTHER -> Tracker1!Init /\ tDls[1].left = 0

(* Part p makes the step A, the others rest. *)
Steps(p, A) ==
  /\ part = p /\ A /\ UNCHANGED part
  /\ IF p = "files" THEN TRUE ELSE UNCHANGED vars
  /\ IF p = "completes" THEN TRUE ELSE UNCHANGED wvars
  /\ IF p = "table" THEN TRUE ELSE UNCHANGED mvars
  /\ IF p \in {"client", "reader", "uploader"} THEN TRUE ELSE UNCHANGED nvars
  /\ IF p \in {"tracker1", "tracker2", "tracker live"} THEN TRUE ELSE UNCHANGED tvars
  /\ IF p \in {"values", "texts"} THEN TRUE ELSE UNCHANGED evars
  /\ IF p = "maker" THEN TRUE ELSE UNCHANGED kvars

BtgetNext ==
  \/ Steps("files", Next)
  \/ Steps("completes", Completes!Next /\ Completes!Steady(pa))
  \/ Steps("table", Table!Next)
  \/ Steps("client", Client!Next)
  \/ Steps("reader", Reader!Next)
  \/ Steps("uploader", Uploader!Next)
  \/ Steps("tracker1", Tracker1!Next)
  \/ Steps("tracker2", Tracker2!Next)
  \/ Steps("tracker live", TrackerLive!Next)
  \/ Steps("values", Coding!Make)
  \/ Steps("texts", ePool = <<>> /\ Coding!Stream)
  \/ Steps("maker", Maker!Next)

BtgetSpec == BtgetInit /\ [][BtgetNext]_btvars

-----------------------------------------------------------------------------
(* The fairness of Swarm, Client and Tracker, each under its part: a formula *)
(* about several parts stands for the action of the one that was chosen.    *)
BtgetFairness ==
  /\ <>[](part = "completes" /\ Completes!CanServe(pa)) => []<><<Steps("completes", Completes!Serves(pa))>>_wvars
  /\ []<>(part = "uploader" => nTurn.at # "recv")
  /\ WF_livevars(Steps("uploader", Uploader!RecvPeermsg) \/ Steps("tracker live", TrackerLive!Register))
  /\ WF_livevars(\/ Steps("uploader", Uploader!ProcessQueue)
                 \/ Steps("tracker live", \E answers \in [{1} -> {NoAnswer, Named2}] : TrackerLive!Turn(1, answers)))
  /\ WF_livevars(Steps("uploader", Uploader!FailTurn))
  /\ WF_livevars(Steps("uploader", Uploader!Readable))
  /\ SF_livevars(Steps("uploader", Uploader!Execute) \/ Steps("tracker live", TrackerLive!Turn(1, <<Named2>>)))
  /\ SF_livevars(Steps("uploader", Uploader!Writable))
  /\ SF_livevars(Steps("uploader", Uploader!Arrive))

BtgetFairSpec == BtgetSpec /\ BtgetFairness

-----------------------------------------------------------------------------
(* The table of poll(): the map leads from every entry's socket back to it, *)
(* every connection has one entry and waits for something, and output that  *)
(* is left waits for room (context.c, btget.c).                             *)
PollSound ==
  /\ part = "table" => Table!TypeOK /\ Table!MapSync /\ Table!PolledOnce /\ Table!Listens
  /\ part = "uploader" => Uploader!OutputWatched

(* The stream of a connection: messages are read whole however they came    *)
(* in, none is left in the buffer for poll() to tell of, a connection is    *)
(* not given up but for the remote's doing and for ten turns of uploads in  *)
(* a row with nothing to read, and queued blocks go out while the remote    *)
(* goes on (stream.c, btget.c, client_run).                                 *)
StreamSound ==
  /\ [](part = "client" => /\ Client!TypeOK /\ Client!Framed
                           /\ Client!NothingLeftBehind /\ Client!EmptyFlushSafe
                           /\ Client!KeptWhileSound)
  /\ [](part = "reader" => Reader!Framed /\ Reader!KeptWhileSound)
  /\ [](part = "uploader") => Uploader!Uploads

(* Peers and trackers: every connection has its entry and gives it back,    *)
(* a peer named by its id is connected to once and none named is skipped;   *)
(* each tracker is asked in its time and until it answers, and told of the  *)
(* completion, once (context.c, btresponse, ctx_complete).                  *)
TrackerSound ==
  /\ [](part = "tracker1" => /\ Tracker1!TypeOK /\ Tracker1!EntriesCounted /\ Tracker1!ListedOnce
                             /\ Tracker1!AllTried /\ Tracker1!Timely /\ Tracker1!CompletedOnce)
  /\ [](part = "tracker2" => Tracker2!EntriesCounted /\ Tracker2!Timely /\ Tracker2!CompletedOnce)
  /\ [](part = "tracker live") => TrackerLive!CompletedTold /\ TrackerLive!GetsRegistered

(* The bencoding: keys ascend, the search finds what was added, what is     *)
(* written is read back, and a text of the format is written as it was,     *)
(* which the hash that names a torrent rests on (benc.c, types.c).          *)
SameText ==
  /\ part = "values" => Coding!TypeOK /\ Coding!KeysAscend /\ Coding!FindsAdded /\ Coding!RoundTrip
  /\ part = "texts" => Coding!KeysAscend /\ Coding!RoundTrip /\ Coding!SameHash

(* The pieces are the files one after the other, cut at every piece length, *)
(* and every file has its entry (builder/main.cc).                          *)
PiecesOfStream == part = "maker" => Maker!TypeOK /\ Maker!PiecesOfStream /\ Maker!EntriesOfFiles

(* The download ends with one remote that stays and answers, whatever the   *)
(* other does with the pieces it has taken (peer.c, peer_send_request).     *)
DownloadEnds == [](part = "completes") => Completes!Completes
=============================================================================
