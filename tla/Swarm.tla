-------------------------------- MODULE Swarm --------------------------------
(***************************************************************************)
(* One torrent of libbt: its peers' connections and messages (peer.c), the *)
(* partial pieces they fill (segmenter.c), and the turns btget's poll loop *)
(* gives them.  A piece is NBlocks requests long, a request a piece and a  *)
(* block of it.  Where the code calls rnd(), the clock or the network, the *)
(* step chooses the outcome.                                               *)
(***************************************************************************)
EXTENDS Integers, SequencesExt

CONSTANTS
  Peers, Pieces, NBlocks,   \* pieces are numbers
  OnDisk,                   \* the pieces complete at the start
  Messages,                 \* the message types the remotes send; CALL, CLOSE, GONE, BAD:
                            \* they call us or connect slowly, close, are gone, send bad blocks
  QLens,                    \* what 15 s of requests may come to, 2..REQMAX in the code
  QUEUESIZE, DOWNLOADS,     \* 30 and 4 in the code
  ManyInterested, FewIncomplete, ManySeeds, Share,  \* 4, 4, 10 and 4 in the code
  Loyal,                    \* the peers with everything that stay and answer, for liveness
  MaxCount, MaxWire         \* bounds on the counters and on requests in flight

ASSUME SwarmAssumption ==
  /\ Pieces \subseteq Nat /\ OnDisk \subseteq Pieces /\ NBlocks \in Nat \ {0}
  /\ QLens \subseteq Nat \ {0} /\ QUEUESIZE > 1 /\ DOWNLOADS \in Nat \ {0}

NoPiece == -1
Blocks == 0..NBlocks-1

VARIABLES
  dl,    \* btDownload: bit sets, partial list, peer set and its two counters
  peer   \* btPeer of each remote

vars == <<dl, peer>>

Nobody == [state |-> "NONE", joined |-> FALSE, down |-> FALSE,
           blocks |-> {}, complete |-> FALSE,
           rchoked |-> TRUE, rinterested |-> FALSE,   \* remote.choked, remote.interested
           lchoked |-> TRUE, linterested |-> FALSE, snubbed |-> FALSE,  \* local
           rtimer |-> FALSE, ltimer |-> FALSE,
           current |-> NoPiece, inqueue |-> <<>>, queue |-> <<>>,
           wire |-> <<>>,                  \* requests the remote has not answered
           told |-> {}, missed |-> {}]     \* history: announced; finished in a handshake

Init ==
  /\ dl = [completed |-> OnDisk, requested |-> OnDisk, interested |-> Pieces \ OnDisk,
           partial |-> <<>>, pset |-> <<>>, incomplete |-> 0, interestedpeers |-> 0]
  /\ peer = [p \in Peers |-> Nobody]

-----------------------------------------------------------------------------
(* segmenter.c: the partial list, and the request queue (module ReqQueue).  *)

FreshPiece(b) == [piece |-> b, filled |-> {}, next |-> 0, isdone |-> FALSE, bad |-> {}]

FirstClr(pp) ==  \* bs_firstClr() is 0 for a full set
  IF pp.filled = Blocks THEN 0 ELSE CHOOSE i \in Blocks \ pp.filled : 0..i-1 \subseteq pp.filled

Place(d, b) == CHOOSE i \in DOMAIN d.partial : d.partial[i].piece = b
Part(d, b) == d.partial[Place(d, b)]
SetPart(d, b, pp) == [d EXCEPT !.partial[Place(d, b)] = pp]
HasPart(d, b) == \E i \in DOMAIN d.partial : d.partial[i].piece = b

GetPiece(d, b) == IF HasPart(d, b) THEN d ELSE [d EXCEPT !.partial = Append(@, FreshPiece(b))]

Times(q, r) == Cardinality({i \in DOMAIN q : q[i] = r})
Unqueue(q, r) ==
  [i \in 1..Len(q) - Times(q, r) |-> q[i + Times(SubSeq(q, 1, i), r)]]

(* Mutant: the piece given back stays marked. *)
GiveBackMarked(d, b) ==
  IF b = NoPiece THEN d ELSE SetPart(d, b, [Part(d, b) EXCEPT !.next = FirstClr(Part(d, b))])

(* A peer that chokes us or goes leaves its piece to others. *)
GiveBack(d, b) ==
  IF b = NoPiece THEN d
  ELSE SetPart([d EXCEPT !.requested = @ \ {b}], b,
               [Part(d, b) EXCEPT !.next = FirstClr(Part(d, b))])

-----------------------------------------------------------------------------
(* Asking for blocks. S is [dl, peer]; o is what chance decides in the step: *)
(* a piece each peer would pick and a queue length.                        *)

Interesting(d, r) == (r.blocks \cap d.interested) \ d.completed

UpdateInterested(S, p) ==
  LET r == S.peer[p]
      i == Interesting(S.dl, r) # {}
  IN IF i = r.linterested THEN S
     ELSE [S EXCEPT !.peer[p] = [r EXCEPT !.linterested = i, !.rtimer = r.rtimer /\ (i \/ r.rchoked \/ r.down)]]

CountPeers(S, b) == Cardinality({p \in Range(S.dl.pset) : S.peer[p].current = b})

Strict(d) ==
  \/ d.interestedpeers > ManyInterested
  \/ d.incomplete <= FewIncomplete
  \/ Len(d.pset) - d.incomplete > ManySeeds

PickBlock(taken, r, d, wish) ==
  LET s == (r.blocks \cap d.interested) \ taken
  IN IF s = {} THEN NoPiece ELSE IF wish \in s THEN wish ELSE Min(s)

(* Mutant: no piece is asked of two peers at the end. *)
AssignedPieceOnce(S, p, o) == PickBlock(S.dl.requested, S.peer[p], S.dl, o.wish[p])

(* peer_assign_block: the first partial piece nobody works on that the peer *)
(* has, or with many peers to interest the first that it has or that Share  *)
(* peers work on; else a new one, not requested if there is any.            *)
AssignedPiece(S, p, o) ==
  LET d == S.dl
      r == S.peer[p]
      fits(pp) == IF Strict(d) THEN pp.piece \in r.blocks \ d.requested
                  ELSE ~(pp.piece \notin r.blocks /\ CountPeers(S, pp.piece) < Share)
      i == SelectInSeq(d.partial, fits)
      b == PickBlock(d.requested, r, d, o.wish[p])
  IN IF i # 0 THEN d.partial[i].piece
     ELSE IF b # NoPiece THEN b ELSE PickBlock(d.completed, r, d, o.wish[p])

AssignBlock(S, p, o) ==
  LET b == AssignedPiece(S, p, o) IN
  IF b = NoPiece THEN S
  ELSE [dl |-> [GetPiece(S.dl, b) EXCEPT !.requested = @ \cup {b}],
        peer |-> [S.peer EXCEPT ![p].current = b]]

Ask(S, p, start) ==
  LET b == S.peer[p].current IN
  [dl |-> SetPart(S.dl, b, [Part(S.dl, b) EXCEPT !.next = start + 1]),
   peer |-> [S.peer EXCEPT ![p].inqueue = Append(@, <<b, start>>),
                           ![p].wire = Append(@, <<b, start>>)]]

(* One turn of the loop in peer_send_request(): at the end of the piece a   *)
(* bad one is asked for again at once, another only when all is answered.   *)
AskOnce(S, p, qlen) ==
  LET r == S.peer[p]
      pp == Part(S.dl, r.current)
  IN IF Len(r.inqueue) >= qlen THEN S
     ELSE IF pp.next < NBlocks THEN Ask(S, p, pp.next)
     ELSE IF pp.isdone THEN Ask(S, p, 0)
     ELSE IF r.inqueue # <<>> THEN S
     ELSE Ask(S, p, FirstClr(pp))

SendRequest(S, p, o) ==
  LET S1 == IF S.peer[p].current = NoPiece THEN AssignBlock(S, p, o) ELSE S
  IN IF S1.peer[p].current = NoPiece THEN UpdateInterested(S1, p)
     ELSE LET asked[i \in 0..o.qlen] == IF i = 0 THEN S1 ELSE AskOnce(asked[i - 1], p, o.qlen)
          IN  asked[o.qlen]

Chances(ps) == [wish : [ps -> Pieces], qlen : QLens]  \* ps may be given a piece
Lacking(S, p) == IF S.peer[p].current = NoPiece THEN {p} ELSE {}

-----------------------------------------------------------------------------
(* The end of a connection: peer_shutdown() and client_finit().             *)

Shutdown(S, p) ==
  [dl |-> [GiveBack(S.dl, S.peer[p].current) EXCEPT !.pset = RemoveFirst(@, p)],
   peer |-> [S.peer EXCEPT ![p] = Nobody]]

(* A turn ends with the upload queue, and with the connection if the turn   *)
(* failed; whether the output buffer has drained is the network's choice.   *)
ProcessQueue(S, p, drained) ==
  IF ~drained THEN S
  ELSE IF S.peer[p].down THEN Shutdown(S, p)
  ELSE [S EXCEPT !.peer[p].queue = Tail(@)]

Turn(S, p) ==
  \E drained \in {FALSE, S.peer[p].queue # <<>>} :
    LET T == ProcessQueue(S, p, drained) IN dl' = T.dl /\ peer' = T.peer

End(S, p) == LET T == Shutdown(S, p) IN dl' = T.dl /\ peer' = T.peer

Now == [dl |-> dl, peer |-> peer]
Good(p) == peer[p].state = "GOOD"
Hears(p, m) == Good(p) /\ m \in Messages

Choke(p) ==
  /\ Hears(p, "CHOKE")
  /\ LET r == peer[p] IN
     Turn(IF r.rchoked THEN Now
          ELSE [dl |-> GiveBack(dl, r.current),
                peer |-> [peer EXCEPT ![p] = [r EXCEPT !.rchoked = TRUE, !.current = NoPiece,
                                                       !.inqueue = <<>>, !.wire = <<>>,
                                                       !.rtimer = r.rtimer /\ ~r.linterested]]], p)

(* What becomes of p's turn when peer_send_request() has sent to a remote   *)
(* that is gone.                                                            *)
Asks(S, p, o) ==
  \E T \in {SendRequest(S, p, o)} :
  IF T.peer[p].down /\ T.peer[p].wire # S.peer[p].wire THEN End(T, p) ELSE Turn(T, p)

Unchoke(p) ==
  /\ Hears(p, "UNCHOKE")
  /\ LET U == [Now EXCEPT !.peer[p].rchoked = FALSE]
         S == IF peer[p].linterested THEN U ELSE UpdateInterested(U, p)
     IN
     IF ~peer[p].rchoked THEN Turn(Now, p)
     ELSE IF ~S.peer[p].linterested THEN Turn(S, p)
     ELSE \E o \in Chances(Lacking(S, p)) : Asks([S EXCEPT !.peer[p].rtimer = TRUE], p, o)

Interested(p) ==
  /\ Hears(p, "INTERESTED") /\ dl.interestedpeers < MaxCount
  /\ LET r == peer[p] IN
     Turn([dl |-> [dl EXCEPT !.interestedpeers = @ + 1],
           peer |-> [peer EXCEPT ![p] = [r EXCEPT !.rinterested = TRUE, !.ltimer = r.ltimer \/ ~r.lchoked]]], p)

NotInterested(p) ==
  /\ Hears(p, "NOTINTERESTED") /\ dl.interestedpeers > -MaxCount
  /\ LET r == peer[p] IN
     Turn([dl |-> [dl EXCEPT !.interestedpeers = @ - 1],
           peer |-> [peer EXCEPT ![p] = [r EXCEPT !.rinterested = FALSE, !.ltimer = r.ltimer /\ r.lchoked]]], p)

Learn(S, p, bs) ==
  LET r == S.peer[p] IN
  UpdateInterested([dl |-> [S.dl EXCEPT !.incomplete = IF bs = Pieces /\ ~r.complete THEN @ - 1 ELSE @],
                    peer |-> [S.peer EXCEPT ![p] = [r EXCEPT !.blocks = bs, !.complete = r.complete \/ bs = Pieces]]], p)

Have(p, b) ==
  /\ Hears(p, "HAVE")
  /\ LET S == Learn(Now, p, peer[p].blocks \cup {b}) IN
     IF /\ ~S.peer[p].rchoked
        /\ S.peer[p].linterested \/ (peer[p].down /\ peer[p].linterested)
     THEN \E o \in Chances(Lacking(S, p)) : Asks([S EXCEPT !.peer[p].rtimer = TRUE], p, o)
     ELSE Turn(S, p)

(* The protocol puts it first of all messages. *)
Bitfield(p, bs) ==
  /\ Hears(p, "BITFIELD") /\ peer[p].rchoked /\ peer[p].blocks = {}
  /\ Turn(Learn(Now, p, bs), p)

-----------------------------------------------------------------------------
(* A block arrives.                                                         *)

Store(d, rq, fine) ==  \* seg_writebuf() up to the check of the hash
  LET pp == Part(d, rq[1])
      full == pp.filled \cup {rq[2]}
  IN SetPart(d, rq[1], [pp EXCEPT !.filled = full, !.isdone = @ \/ full = Blocks,
                                  !.bad = IF fine THEN @ \ {rq[2]} ELSE @ \cup {rq[2]}])

Complete(d, b) ==
  [d EXCEPT !.completed = @ \cup {b}, !.interested = @ \ {b},
            !.partial = RemoveAt(@, Place(d, b))]

Cancelled(wire, rqs) ==
  LET left[i \in 0..Len(rqs)] == IF i = 0 THEN wire ELSE RemoveFirst(left[i - 1], rqs[i])
  IN  left[Len(rqs)]

Freed(S, q) ==  \* its piece is done: it takes back what it had asked for
  LET r == S.peer[q] IN
  [S EXCEPT !.peer[q] = [r EXCEPT !.current = NoPiece, !.inqueue = <<>>, !.wire = Cancelled(r.wire, r.inqueue),
                                  !.state = IF r.down /\ r.inqueue # <<>> THEN "ERROR" ELSE r.state]]

(* Every peer in turn: those on the piece get another, those whose          *)
(* handshake is through hear of it.                                         *)
FinishedFor(S, q, b, o) ==
  LET T == IF S.peer[q].current = b THEN SendRequest(Freed(S, q), q, o) ELSE S
      r == T.peer[q]
  IN IF r.state # "GOOD" THEN [T EXCEPT !.peer[q].missed = @ \cup {b}]
     ELSE IF r.down THEN [T EXCEPT !.peer[q].state = "ERROR"]
     ELSE [T EXCEPT !.peer[q].told = @ \cup {b}]

Finish(S, b, o) ==
  LET after[i \in 0..Len(S.dl.pset)] ==
        IF i = 0 THEN S ELSE FinishedFor(after[i - 1], S.dl.pset[i], b, o)
  IN  after[Len(S.dl.pset)]

Piece(p, rq, fine) ==
  /\ Hears(p, "PIECE") /\ rq \in Range(peer[p].wire) /\ Len(peer[p].wire) <= MaxWire
  /\ fine \/ "BAD" \in Messages
  /\ LET S == [Now EXCEPT !.peer[p].wire = RemoveFirst(@, rq)] IN
     IF peer[p].current = NoPiece \/ rq \notin Range(peer[p].inqueue) THEN Turn(S, p)
     ELSE LET d == Store(dl, rq, fine)
              pp == Part(d, rq[1])
              T == [S EXCEPT !.dl = d, !.peer[p].inqueue = Unqueue(@, rq)]
          IN IF pp.isdone /\ pp.bad = {}
             THEN \E o \in Chances({q \in Peers : peer[q].current = rq[1]}) :
                    Asks(Finish([T EXCEPT !.dl = Complete(d, rq[1])], rq[1], o), p, o)
             ELSE \E o \in Chances({}) : Asks(T, p, o)

-----------------------------------------------------------------------------
(* Serving blocks.  Where in the piece a request is makes no difference.    *)

SendChoke(S, p, choke) ==
  LET r == S.peer[p] IN
  [S EXCEPT !.peer[p] = [r EXCEPT !.queue = IF r.lchoked # choke THEN <<>> ELSE r.queue, !.lchoked = choke]]

Request(p, b) ==
  /\ Hears(p, "REQUEST")
  /\ LET r == peer[p] IN
     IF r.lchoked THEN Turn(Now, p)
     ELSE IF b \in r.blocks \/ b \notin dl.completed
     THEN Turn([SendChoke(Now, p, TRUE) EXCEPT !.peer[p].ltimer = FALSE], p)
     ELSE IF Len(r.queue) = QUEUESIZE - 1 THEN End(Now, p)
     ELSE Turn([Now EXCEPT !.peer[p].queue = Append(@, b)], p)

Cancel(p, b) ==
  /\ Hears(p, "CANCEL")
  /\ Turn([Now EXCEPT !.peer[p].queue = Unqueue(@, b)], p)

(* A turn without a message: btget runs the sockets of x_set too. *)
Execute(p) == Good(p) /\ peer[p].queue # <<>> /\ Turn(Now, p)

(* Mutant: only the rates count. *)
PrioritizeRates(fav, p, rate) ==
  LET ok == {i \in 1..DOWNLOADS : i > Len(fav) \/ rate[p] > rate[fav[i]]} IN
  IF ok = {} THEN fav
  ELSE LET new == InsertAt(fav, Min(ok), p) IN SubSeq(new, 1, Min({DOWNLOADS, Len(new)}))

(* prioritize: the first place a peer can take from what is there; a wanted *)
(* and not snubbed one also takes that of a slower peer.                    *)
Prioritize(fav, p, rate) ==
  LET wants == ~peer[p].snubbed /\ peer[p].rinterested
      takes(i) == \/ i > Len(fav)
                  \/ wants /\ ~peer[fav[i]].rinterested
                  \/ rate[p] > rate[fav[i]] /\ (wants \/ ~peer[fav[i]].rinterested)
      ok == {i \in 1..DOWNLOADS : takes(i)}
  IN IF ok = {} THEN fav
     ELSE LET new == InsertAt(fav, Min(ok), p) IN SubSeq(new, 1, Min({DOWNLOADS, Len(new)}))

Favorites(rate) ==
  LET fav[i \in 0..Len(dl.pset)] ==
        IF i = 0 THEN <<>>
        ELSE IF Good(dl.pset[i]) THEN Prioritize(fav[i - 1], dl.pset[i], rate) ELSE fav[i - 1]
  IN  Range(fav[Len(dl.pset)])

Answering(r) == IF r.down THEN "ERROR" ELSE r.state

Served(r) == [r EXCEPT !.queue = <<>>, !.lchoked = FALSE, !.ltimer = @ \/ r.rinterested,
                       !.state = Answering(r)]

Refused(r) == [r EXCEPT !.queue = <<>>, !.lchoked = TRUE, !.ltimer = FALSE, !.state = Answering(r)]

Notify(fav, p) ==
  LET r == peer[p] IN
  IF p \in fav /\ r.lchoked THEN Served(r)
  ELSE IF p \notin fav /\ ~r.lchoked /\ r.state = "GOOD" THEN Refused(r) ELSE r

(* Every thirty seconds, with the rates of the moment. *)
ChooseFavorites ==
  /\ "REQUEST" \in Messages /\ dl.pset # <<>>
  /\ \E rate \in [Peers -> 0..1] :
       peer' = [p \in Peers |-> IF p \in Range(dl.pset) THEN Notify(Favorites(rate), p) ELSE peer[p]]
  /\ UNCHANGED dl

Snub(p) ==
  /\ "REQUEST" \in Messages /\ peer[p].linterested /\ ~peer[p].rchoked /\ ~peer[p].snubbed
  /\ peer' = [peer EXCEPT ![p].snubbed = TRUE] /\ UNCHANGED dl

-----------------------------------------------------------------------------
(* Connections.                                                             *)

(* peer_add: the connection is made at once, or poll() tells. *)
PeerAdd(p, atOnce) ==
  /\ peer[p].state = "NONE" /\ (atOnce \/ "CALL" \in Messages)
  /\ peer' = [peer EXCEPT ![p] = [Nobody EXCEPT !.joined = TRUE, !.state = IF atOnce THEN "OUTGOING" ELSE "INIT",
                                                !.told = IF atOnce THEN dl.completed ELSE {}]]
  /\ dl' = [dl EXCEPT !.pset = Append(@, p)]

ConnectComplete(p) ==
  /\ peer[p].state = "INIT"
  /\ peer' = [peer EXCEPT ![p].state = "OUTGOING", ![p].told = dl.completed, ![p].missed = {}]
  /\ UNCHANGED dl

PeerAnswer(p) ==
  /\ peer[p].state = "NONE" /\ "CALL" \in Messages
  /\ peer' = [peer EXCEPT ![p] = [Nobody EXCEPT !.state = "INCOMING"]]
  /\ UNCHANGED dl

(* A caller joins a torrent with the hash it names, and hears of our pieces; *)
(* its id may still be on its way.                                           *)
Join(S, p) ==
  IF S.peer[p].joined THEN S
  ELSE [dl |-> [S.dl EXCEPT !.pset = Append(@, p)],
        peer |-> [S.peer EXCEPT ![p].joined = TRUE, ![p].told = S.dl.completed]]

Shaking(p) == peer[p].state \in {"OUTGOING", "INCOMING"} /\ ~peer[p].down

HalfHandshake(p) ==
  /\ Shaking(p) /\ ~peer[p].joined
  /\ LET S == Join(Now, p) IN dl' = S.dl /\ peer' = S.peer

RecvHandshake(p) ==
  /\ Shaking(p) /\ (dl.incomplete < MaxCount \/ p \in Loyal)
  /\ LET S == Join(Now, p) IN
     /\ peer' = [S.peer EXCEPT ![p].state = "GOOD"]
     /\ dl' = [S.dl EXCEPT !.incomplete = @ + 1]

(* The other side goes; sending to it fails from then on. *)
Gone(p) ==
  /\ peer[p].state \notin {"NONE", "INIT"} /\ ~peer[p].down /\ "GONE" \in Messages
  /\ peer' = [peer EXCEPT ![p].down = TRUE] /\ UNCHANGED dl

(* An error, a bad handshake or a failed connection: client_error(). *)
Close(p) == peer[p].state # "NONE" /\ "CLOSE" \in Messages /\ End(Now, p)

Hear(p) ==
  \/ Choke(p) \/ Unchoke(p) \/ Interested(p) \/ NotInterested(p)
  \/ \E b \in Pieces : Have(p, b) \/ Request(p, b) \/ Cancel(p, b)
  \/ \E bs \in SUBSET Pieces : Bitfield(p, bs)
  \/ \E rq \in Pieces \X Blocks, fine \in BOOLEAN : Piece(p, rq, fine)

Connect(p) ==
  \/ \E atOnce \in BOOLEAN : PeerAdd(p, atOnce)
  \/ ConnectComplete(p) \/ PeerAnswer(p) \/ HalfHandshake(p) \/ RecvHandshake(p)

Next ==
  \/ \E p \in Peers : Hear(p) \/ Connect(p) \/ Execute(p) \/ Snub(p) \/ Gone(p) \/ Close(p)
  \/ ChooseFavorites

Spec == Init /\ [][Next]_vars

(* A loyal peer names all pieces, then lets us download and answers; the    *)
(* others do as they like.  Its turns come: poll() reports every socket.    *)
Steady(p) ==
  /\ peer[p].state # "NONE" => peer'[p].state # "NONE"
  /\ peer'[p].blocks \in {{}, Pieces}
  /\ ~peer'[p].rchoked => peer'[p].blocks = Pieces
  /\ ~peer[p].rchoked => ~peer'[p].rchoked

Serves(p) ==
  /\ \/ PeerAdd(p, TRUE) \/ ConnectComplete(p) \/ RecvHandshake(p)
     \/ Bitfield(p, Pieces) \/ Unchoke(p)
     \/ \E rq \in Pieces \X Blocks : Piece(p, rq, TRUE)
  /\ Steady(p)

CanServe(p) ==  \* ENABLED <<Serves(p)>>_vars
  Good(p) => peer[p].rchoked \/ peer[p].wire # <<>>

LiveSpec ==
  /\ Init /\ [][Next /\ \A p \in Loyal : Steady(p)]_vars
  /\ \A p \in Loyal : <>[]CanServe(p) => []<><<Serves(p)>>_vars

-----------------------------------------------------------------------------

PeerType ==
  [state : {"NONE", "INIT", "OUTGOING", "INCOMING", "GOOD", "ERROR"}, joined : BOOLEAN, down : BOOLEAN,
   blocks : SUBSET Pieces, complete : BOOLEAN, rchoked : BOOLEAN, rinterested : BOOLEAN,
   lchoked : BOOLEAN, linterested : BOOLEAN, snubbed : BOOLEAN, rtimer : BOOLEAN, ltimer : BOOLEAN,
   current : Pieces \cup {NoPiece}, inqueue : Seq(Pieces \X Blocks), queue : Seq(Pieces),
   wire : Seq(Pieces \X Blocks), told : SUBSET Pieces, missed : SUBSET Pieces]

(* The variables keep their types; each partial piece is there once, is not *)
(* complete, and every peer past its hash is in the set once.               *)
TypeOK ==
  /\ \A p \in Peers : peer[p] \in PeerType
  /\ dl.completed \subseteq Pieces /\ dl.requested \subseteq Pieces /\ dl.interested \subseteq Pieces
  /\ IsInjective(dl.pset) /\ Range(dl.pset) = {p \in Peers : peer[p].joined}
  /\ \A i, j \in DOMAIN dl.partial : dl.partial[i].piece = dl.partial[j].piece => i = j

(* A peer works on a piece of the partial list that we have not, every      *)
(* request it waits for is of that piece and was really sent and not yet    *)
(* answered, and it is never left on a piece with nothing asked for: only   *)
(* answers make it ask again.  It may lack the piece: one that Share peers  *)
(* work on is given to anybody (peer.c:1355).                               *)
RequestsOfCurrent ==
  \A p \in Peers : LET r == peer[p] IN
    /\ r.current # NoPiece => HasPart(dl, r.current) /\ r.current \notin dl.completed /\ r.inqueue # <<>>
    /\ \A i \in DOMAIN r.inqueue : r.inqueue[i][1] = r.current
    /\ \A rq \in Range(r.inqueue) : Times(r.inqueue, rq) <= Times(r.wire, rq)

(* A piece marked requested and not complete is some peer's: one nobody     *)
(* works on would be passed over by every peer while others are to be had.  *)
NoOrphan == \A b \in dl.requested \ dl.completed : \E p \in Peers : peer[p].current = b

(* A remote that lets us download and has what we want is never left without*)
(* a piece to ask it for, if only one that is shared and that it lacks.     *)
NeverIdle ==
  \A p \in Peers : LET r == peer[p] IN
    Good(p) /\ ~r.down /\ ~r.rchoked /\ Interesting(dl, r) # {} => r.current # NoPiece

(* btget's assertion when all is complete: no peer still works on a piece,  *)
(* though pieces are shared and only one peer sends the last block.         *)
CompleteMeansFree == dl.completed = Pieces => \A p \in Peers : peer[p].current = NoPiece

(* The uploads queued are for a peer we do not choke, of pieces we have. *)
QueueServable ==
  \A p \in Peers : peer[p].queue # <<>> => ~peer[p].lchoked /\ Range(peer[p].queue) \subseteq dl.completed

(* At most DOWNLOADS peers are served at a time. *)
FewServed == Cardinality({p \in Peers : Good(p) /\ ~peer[p].lchoked}) <= DOWNLOADS

(* The timers the rates are computed from run only while the transfer they *)
(* measure is wanted and allowed.                                           *)
TimersHonest ==
  \A p \in Peers : LET r == peer[p] IN
    /\ r.rtimer /\ ~r.down => ~r.rchoked /\ r.linterested
    /\ r.ltimer => ~r.lchoked /\ r.rinterested

(* A peer past its handshake has been told of every piece we have, but for  *)
(* those finished between our bit field and the end of its handshake.       *)
HavesReach == \A p \in Peers : Good(p) => dl.completed \subseteq peer[p].told \cup peer[p].missed

(* After the choice of favorites no peer that wants our blocks and is not   *)
(* snubbed waits while one that does not want them is served.               *)
WantersServed ==
  ChooseFavorites => \A p, q \in Peers :
    /\ peer'[p].state = "GOOD" /\ peer'[p].lchoked /\ peer'[p].rinterested /\ ~peer'[p].snubbed
    /\ peer'[q].state = "GOOD" /\ ~peer'[q].lchoked
    => peer'[q].rinterested

(* The peers of a torrent: what one waits for is of its piece and was sent; *)
(* a piece marked requested is somebody's; no peer that may give is left    *)
(* without a piece; all are free when the torrent is complete; what is      *)
(* queued for a peer is of a piece we have and the peer is not choked;      *)
(* every piece finished is told to whoever is past its handshake (peer.c,   *)
(* segmenter.c).                                                            *)
PeersSound ==
  /\ TypeOK /\ RequestsOfCurrent /\ NoOrphan /\ NeverIdle /\ CompleteMeansFree
  /\ QueueServable /\ TimersHonest /\ HavesReach

(* With one loyal peer the torrent is completed, whatever pieces the others *)
(* have taken and given back or sit on.                                     *)
Completes == <>(dl.completed = Pieces)
=============================================================================
