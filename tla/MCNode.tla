------------------------------- MODULE MCNode -------------------------------
(***************************************************************************)
(* The parts of kadmin for TLC.  Each is checked in the surroundings its   *)
(* own module gives it: the initial state chooses the part that moves, the *)
(* others rest in their initial states, so that one run goes through the   *)
(* states of each part and not through their product.                      *)
(***************************************************************************)
EXTENDS Knet, TLC

CONSTANTS
  a, b, c, k, l, nh, NullId,
  Parts,           \* the parts that are gone through
  PingReplies, PingClock, \* Kpingd's MaxReplies and MaxClock
  Routers, Session, \* Kboot's
  Boots            \* the numbers of boot contacts it starts from

VARIABLES
  part,
  rTid, rRequests, rShip, rOwner, rInflight, rLife, rWild,
  pBucket, pClock, pStatic, pQueue, pConcurrency, pSendmore, pLastSeen, pState, pThread,
  pIdent, pTick, pWaiting, pResponses, pPinged, pReplies, pStrays,
  sSock, sBqueue, sReadfds, sWritefds, sThread, sState, sTimer, sOpen, sBacklog, sData,
  sPacket, sConns, sCrashed,
  bStep, bTableid, bWireid, bPlaced, bBoot, bSize, bNodes, bRun, bDue, bB, bC, bAnswered,
  gPc, gTodo, gQfind, gOutqueue, gSeenid, gSeenhost, gMapined, gTrim, gEnded, gConcurrency,
  gFinding, gExpired, gShip, gReplies, gAsked, gLearned, gAnswered, gHeard, gFailed,
  gStrings, gPeerfilter, gPeers, gSumumery, gSent, gOffered,
  qBucket, qClock, qReply, qAnswered,
  dTableid, dNbucket0, dNbucket1, dBootid, dIndex,
  cText, cEntity, cTop, cValue

rvars == <<rTid, rRequests, rShip, rOwner, rInflight, rLife, rWild>>
pvars == <<pBucket, pClock, pStatic, pQueue, pConcurrency, pSendmore, pLastSeen, pState,
           pThread, pIdent, pTick, pWaiting, pResponses, pPinged, pReplies, pStrays>>
svars == <<sSock, sBqueue, sReadfds, sWritefds, sThread, sState, sTimer, sOpen, sBacklog,
           sData, sPacket, sConns, sCrashed>>
bvars == <<bStep, bTableid, bWireid, bPlaced, bBoot, bSize, bNodes, bRun, bDue, bB, bC,
           bAnswered>>
gvars == <<gPc, gTodo, gQfind, gOutqueue, gSeenid, gSeenhost, gMapined, gTrim, gEnded,
           gConcurrency, gFinding, gExpired, gShip, gReplies, gAsked, gLearned, gAnswered,
           gHeard, gFailed, gStrings, gPeerfilter, gPeers, gSumumery, gSent, gOffered>>
qvars == <<qBucket, qClock, qReply, qAnswered>>
dvars == <<dTableid, dNbucket0, dNbucket1, dBootid, dIndex>>
cvars == <<cText, cEntity, cTop, cValue>>
nodevars == <<part, vars, rvars, pvars, svars, bvars, gvars, qvars, dvars, cvars>>

-----------------------------------------------------------------------------
(* One lookup and pingd in a process that is restarted once, with peers that *)
(* return long transaction ids.                                              *)
Restarts == INSTANCE Knet WITH
  Lookups <- {k}, MaxShips <- 2, MaxRestarts <- 1, LongIds <- TRUE,
  tid <- rTid, requests <- rRequests, ship <- rShip, owner <- rOwner,
  inflight <- rInflight, life <- rLife, wild <- rWild

(* A bucket of two and three contacts, two of them at one address. *)
Pings == INSTANCE Kpingd WITH
  K <- 2, DoubtAge <- 0, MaxFailed <- 3, Window <- 1, Timeout <- 1,
  Ids <- {a, b, c}, Hosts <- {1, 2}, NoId <- nh, Boot <- {1, 2},
  Items <- {[id |-> a, host |-> 1], [id |-> b, host |-> 2], [id |-> c, host |-> 2]},
  BootTime <- 1, MaxClock <- PingClock, MaxReplies <- PingReplies,
  bucket <- pBucket, clock <- pClock, static <- pStatic, queue <- pQueue,
  concurrency <- pConcurrency, sendmore <- pSendmore, lastSeen <- pLastSeen, state <- pState,
  thread <- pThread, ident <- pIdent, tick <- pTick, waiting <- pWaiting,
  responses <- pResponses, pinged <- pPinged, replies <- pReplies, strays <- pStrays

(* serviced and bdhtnet on their sockets, as long as sends succeed. *)
Sockets == INSTANCE Bsocket WITH
  MaxFd <- 5, MaxConns <- 3, Slow <- FALSE, Gone <- FALSE,
  sock <- sSock, bqueue <- sBqueue, readfds <- sReadfds, writefds <- sWritefds,
  thread <- sThread, state <- sState, timer <- sTimer, open <- sOpen, backlog <- sBacklog,
  data <- sData, packet <- sPacket, conns <- sConns, crashed <- sCrashed

(* The same with clients that leave or do not read, up to the select() that *)
(* fails on a descriptor serviced has closed.                               *)
Faults == INSTANCE Bsocket WITH
  MaxFd <- 5, MaxConns <- 3, Slow <- TRUE, Gone <- TRUE,
  sock <- sSock, bqueue <- sBqueue, readfds <- sReadfds, writefds <- sWritefds,
  thread <- sThread, state <- sState, timer <- sTimer, open <- sOpen, backlog <- sBacklog,
  data <- sData, packet <- sPacket, conns <- sConns, crashed <- sCrashed

(* main() and the two daemons; b_nbucket0 goes from 0 to 5. *)
Start == INSTANCE Kboot WITH
  MaxBoot <- 1, MaxSize <- 5,
  step <- bStep, tableid <- bTableid, wireid <- bWireid, placed <- bPlaced, boot <- bBoot,
  size <- bSize, nodes <- bNodes, run <- bRun, due <- bDue, b <- bB, c <- bC,
  answered <- bAnswered

(* Three hosts; the nearest two hold the same peers, doubled, and one of    *)
(* them a string that is no list of peers; one may answer without an id.    *)
Contact(i, host) == [id |-> i, host |-> host]
Packet(i, host, cs) == [id |-> i, host |-> host, nodes |-> cs]
P3 == Packet(3, "hc", <<Contact(2, "hb"), Contact(1, "ha")>>)
P2 == Packet(2, "hb", <<Contact(1, "ha")>>)
P1 == Packet(1, "ha", <<Contact(2, "hb")>>)
Garbage == Packet(0, "ha", <<>>)
Bad == <<"bad">>

GetPeers == INSTANCE Kgetpeers WITH
  Ids <- 1 .. 3, NoId <- 0, Hosts <- {"ha", "hb", "hc"},
  Starts <- {<<Contact(3, "hc"), Contact(2, "hb")>>}, Packets <- {P3, P2, P1, Garbage},
  MaxReplies <- 2, K <- 2, Concurrent <- 2, Peers <- {"p", "q", "r"}, BadString <- Bad,
  Values <- P2 :> <<<<"p", "p">>, <<"q">>>> @@ P1 :> <<<<"q", "r">>, Bad, <<"p">>>>
            @@ P3 :> <<>> @@ Garbage :> <<>>,
  pc <- gPc, todo <- gTodo, qfind <- gQfind, outqueue <- gOutqueue, seenid <- gSeenid,
  seenhost <- gSeenhost, mapined <- gMapined, trim <- gTrim, ended <- gEnded,
  concurrency <- gConcurrency, finding <- gFinding, expired <- gExpired, ship <- gShip,
  replies <- gReplies, asked <- gAsked, learned <- gLearned, answered <- gAnswered,
  heard <- gHeard, failed <- gFailed, strings <- gStrings, peerfilter <- gPeerfilter,
  peers <- gPeers, sumumery <- gSumumery, sent <- gSent, offered <- gOffered

(* A bucket of one contact and one backup, two silences of DoubtAge long. *)
Queries == INSTANCE Kquery WITH
  K <- 1, DoubtAge <- 1, MaxFailed <- 3, Items <- [id : {a, b, c}, host : {nh}],
  BootTime <- 2, MaxClock <- 4,
  bucket <- qBucket, clock <- qClock, reply <- qReply, answered <- qAnswered

(* Ids of four bits in two bytes. *)
Distances == INSTANCE Kdist WITH
  Bytes <- 2, Bits <- 2,
  tableid <- dTableid, nbucket0 <- dNbucket0, nbucket1 <- dNbucket1, bootid <- dBootid,
  index <- dIndex

(* Encodings of nested values, or texts of up to five characters. *)
Reads == INSTANCE BtcodecRef WITH
  Texts <- {}, Names <- {<<"r">>, <<"i", "d">>}, MaxIndex <- 2, MaxLen <- 5,
  text <- cText, entity <- cEntity, top <- cTop, value <- cValue

ASSUME NodeAssumption ==
  /\ Pings!KpingdAssumption /\ Sockets!BsocketAssumption /\ Start!KbootAssumption
  /\ GetPeers!KgetpeersAssumption /\ Queries!KqueryAssumption
  /\ Distances!KdistAssumption /\ Reads!BtcodecAssumption

-----------------------------------------------------------------------------
NodeInit ==
  /\ part \in Parts
  /\ Init /\ Restarts!Init /\ Pings!Init /\ Sockets!Init /\ GetPeers!GInit /\ Queries!Init
  /\ Distances!Init
  /\ bBoot \in (IF part = "start" THEN Boots ELSE {0})
  /\ Start!Init
  /\ CASE part = "values" -> Reads!ValuesInit
       [] part = "texts" -> Reads!TextsInit
       [] OTHER -> Reads!RestInit

(* Part p makes the step A, the others rest. *)
Steps(p, A) ==
  /\ part = p /\ A /\ UNCHANGED part
  /\ IF p = "requests" THEN TRUE ELSE UNCHANGED vars
  /\ IF p = "restarts" THEN TRUE ELSE UNCHANGED rvars
  /\ IF p = "pingd" THEN TRUE ELSE UNCHANGED pvars
  /\ IF p \in {"sockets", "faults"} THEN TRUE ELSE UNCHANGED svars
  /\ IF p = "start" THEN TRUE ELSE UNCHANGED bvars
  /\ IF p = "peers" THEN TRUE ELSE UNCHANGED gvars
  /\ IF p = "queries" THEN TRUE ELSE UNCHANGED qvars
  /\ IF p = "distances" THEN TRUE ELSE UNCHANGED dvars
  /\ IF p \in {"values", "texts"} THEN TRUE ELSE UNCHANGED cvars

NodeNext ==
  \/ Steps("requests", Next)
  \/ Steps("restarts", Restarts!Next)
  \/ Steps("pingd", Pings!Next)
  \/ Steps("sockets", Sockets!Next)
  \/ Steps("faults", Faults!Next)
  \/ Steps("start", Start!Next)
  \/ Steps("peers", GetPeers!GNext)
  \/ Steps("queries", Queries!Next)
  \/ Steps("distances", Distances!Next)
  \/ Steps("values", Reads!ValuesNext)
  \/ Steps("texts", Reads!TextsNext)

NodeSpec == NodeInit /\ [][NodeNext]_nodevars

livevars == <<pvars, svars, bvars, gvars>>

(* The fairness of Kpingd, Bsocket, Kboot and Kgetpeers.  Each formula      *)
(* stands for one action of the part that moves, as that never changes.     *)
Fairness ==
  /\ WF_livevars(\/ Steps("pingd", Pings!Turns)
                 \/ Steps("sockets", Sockets!Serve)
                 \/ Steps("start", Start!NameRouters \/ Start!LoadSession \/ Start!NetStart)
                 \/ Steps("peers", GetPeers!GStep))
  /\ WF_livevars(\/ Steps("pingd", Pings!Expire)
                 \/ Steps("sockets", Sockets!Expire)
                 \/ Steps("start", Start!Bootupd \/ Start!Checkerd))
  /\ WF_livevars(Steps("pingd", Pings!Tick))
  /\ SF_livevars(Steps("sockets", Sockets!Select) \/ Steps("start", Start!BootLookupEnds))
  /\ SF_livevars(Steps("sockets", Sockets!Run("serviced")) \/ Steps("start", Start!CheckLookupEnds))
  /\ SF_livevars(Steps("sockets", Sockets!Run("bdhtnet")) \/ Steps("start", Start!Turn("bootupd")))
  /\ SF_livevars(Steps("start", Start!Turn("checkerd")))
  /\ SF_livevars(Steps("start", Start!Expire("bootupd")))
  /\ SF_livevars(Steps("start", Start!Expire("checkerd")))

NodeFairSpec == NodeSpec /\ Fairness

-----------------------------------------------------------------------------
(* pingd's count is worth what it is told of: only an answer that belongs   *)
(* to nothing lets pings go out without a timer; asleep for answers it has  *)
(* its deadline ahead and nothing unread; and a node that answers keeps its *)
(* slot although it is reported failed first (kpingd.cc, kping_expand).     *)
PingdSound ==
  /\ [](part = "pingd" => /\ Pings!TypeOK /\ Pings!Undercounts
                          /\ Pings!NoPingUnwatched /\ Pings!SleepsOnPings)
  /\ Pings!AnswererKept

(* Queries do no harm to the table: whoever asks is not taken for one that  *)
(* answered, replies name nodes that are good, and no query takes a slot    *)
(* from a node that is not bad (provider.cc, query_expand).                 *)
QueriesSound ==
  /\ [](part = "queries" => Queries!TypeOK /\ Queries!GivenNodes /\ Queries!AskingIsNotAnswering)
  /\ Queries!QueriesHarmless

(* Whoever waits on a socket is found by the next pass, once, and a pass    *)
(* that puts waiters back to sleep takes nobody's wake-up away (bsocket.cc, *)
(* bpoll, q_read).                                                          *)
SocketsSound ==
  /\ [](part \in {"sockets", "faults"} => Faults!TypeOK /\ Faults!QueuedOnce)
  /\ [](part = "sockets" => Sockets!WaiterWatched)
  /\ [][part = "sockets" => Sockets!PassKeepsWakeups]_<<part, svars>>

(* The table and the packets have one id when the loop starts and the       *)
(* contacts of the session are where it puts them; checkerd passes over no  *)
(* bucket and stops only for want of nodes or of buckets (bloader.cc,       *)
(* checkerd.cc).  When the process is started again, answers to its earlier *)
(* life wake no thread of a lookup that is not set (transfer.cc).           *)
StartSound ==
  /\ [](part = "start" => Start!TypeOK /\ Start!OneId)
  /\ [](part = "restarts" => Restarts!NumbersSound)
  /\ Start!EveryBucketAnswered
  /\ Start!StopsForWantOfNodes

(* The client is sent every peer of every response that was read, once, and *)
(* a lookup that returns zero has given up on everyone (kgetpeers.cc).      *)
PeersOnce == part = "peers" => GetPeers!GTypeOK /\ GetPeers!PeersOnce /\ GetPeers!ZeroMeansSilence

(* The id made to refresh a bucket is of that bucket, buckets are rings     *)
(* around the table's id, and distances tell ids apart (btkad.cc,           *)
(* genrefreshid with its assert; kutils.cc).                                *)
RefreshInBucket ==
  part = "distances" => /\ Distances!TypeOK /\ Distances!RefreshInBucket
                        /\ Distances!BucketsAreRings /\ Distances!DistanceNames

(* A path of bget()s through an encoding leads to the value it names, and   *)
(* of any texts the reader takes the encodings and nothing else (btcodec.cc).*)
Decodes ==
  /\ part = "values" => Reads!LeadsToValue
  /\ part = "texts" => Reads!TakesEncodings

(* pingd ends its turns, pings whom it was told of, and follows the flag of *)
(* the table (kpingd.cc, bdocall).                                          *)
PingdServes ==
  [](part = "pingd") => Pings!PingdYields /\ Pings!ContactsPinged /\ Pings!PingsGoOut

(* What a client sends is read, and a lookup it asked for ends with all the *)
(* peers sent (services.cc, bdocall).                                       *)
ClientsServed ==
  /\ [](part = "sockets") => Sockets!ClientHeard
  /\ [](part = "peers") => GetPeers!AllForwarded

(* With a boot contact bootupd never gives up, and starts checkerd again    *)
(* once the table is large enough (bootupd.cc, btkad.cc).                   *)
Refreshes == [](part = "start") => Start!BootupdGoesOn /\ Start!RefreshRestarts
=============================================================================
