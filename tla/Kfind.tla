-------------------------------- MODULE Kfind --------------------------------
(***************************************************************************)
(* One iterative lookup of the DHT (kfind.cc; kgetpeers.cc is the same     *)
(* loop with another request) and the response queue it reads (kship,      *)
(* transfer.cc).                                                           *)
(*                                                                         *)
(* vcall() runs to completion; it is cut here at its loop heads, and only  *)
(* while it sleeps do the network and the timer move.  A contact is its    *)
(* distance to the target (its kaddist_t, which orders the queues) and its *)
(* host.  The lookup sleeps on its own address while kship::binput() wakes *)
(* its thread on the thread's address: no response ever wakes it, only its *)
(* timer, when b_last_update+5 has passed (Bthread: TimerFire).            *)
(***************************************************************************)
EXTENDS Integers, Sequences, FiniteSets, FiniteSetsExt

CONSTANTS
  Ids,        \* distances to the target
  NoId,       \* the id of a response that has none
  Hosts,
  Starts,     \* the item lists a lookup may be created with
  Packets,    \* the responses a host may send: [id, host, nodes]
  MaxReplies, \* bound on the responses of one host, the duplicates included
  K,          \* 8: how many of the closest nodes are looked for
  Concurrent  \* CONCURRENT_REQUEST

Contact == [id : Ids, host : Hosts]

ASSUME KfindAssumption ==
  /\ Ids \subseteq Nat /\ NoId \notin Ids
  /\ Starts \subseteq Seq(Contact)
  /\ Packets \subseteq [id : Ids \cup {NoId}, host : Hosts, nodes : Seq(Contact)]
  /\ MaxReplies \in Nat
  /\ K \in Nat \ {0} /\ Concurrent \in Nat \ {0}

VARIABLES
  pc,           \* "new", "send" (state 1), "receive", "expand" (state 2), "asleep", "done"
  todo,         \* the contacts still to go through in the items or the response
  qfind,        \* b_qfind: still to be asked
  outqueue,     \* b_outqueue: asked, no answer yet
  seenid,       \* b_mapoutedkadid
  seenhost,     \* b_mapoutedaddr
  mapined,      \* b_mapined: the closest that answered
  trim, ended,  \* b_trim, b_ended: the K-th closest answer, once there are K
  concurrency,  \* b_concurrency
  finding,      \* b_last_finding # 0
  expired,      \* b_last_update+5 <= now_time()
  ship,         \* the response queue of its kship
  replies,      \* how many responses each host has sent
  asked,        \* history: the find_node() requests sent, in order
  learned,      \* history: the contacts it was told of
  answered,     \* history: the ids reported by update_contact(.., true)
  heard,        \* history: those of them since the lookup last woke
  failed        \* history: the contacts reported by failed_contact()

known == <<qfind, seenid, seenhost>>
best == <<mapined, trim, ended>>
history == <<learned, answered, heard, failed>>
vars == <<pc, todo, known, outqueue, best, concurrency, finding, expired, ship, replies,
          asked, history>>

Asked == {asked[i] : i \in DOMAIN asked}

(* Farther than the K-th closest answer: not worth asking. *)
Far(c) == trim /\ ended < c.id

Init ==
  /\ pc = "new"
  /\ todo \in Starts
  /\ qfind = {} /\ outqueue = {} /\ seenid = {} /\ seenhost = {}
  /\ mapined = {} /\ trim = FALSE /\ ended = 0
  /\ concurrency = 0 /\ finding = FALSE /\ expired = FALSE
  /\ ship = <<>>
  /\ replies = [h \in Hosts |-> 0]
  /\ asked = <<>> /\ learned = {} /\ answered = {} /\ heard = {}
  /\ failed = {}

(* Mutant: a host may be queued under a second id. *)
QueueAnyHost(c) ==
  /\ seenid' = seenid \cup {c.id}
  /\ IF c.id \notin seenid
     THEN seenhost' = seenhost \cup {c.host} /\ qfind' = qfind \cup {c}
     ELSE UNCHANGED <<seenhost, qfind>>

(* A contact is queued when neither its id nor its host was seen before; the *)
(* id counts as seen even if the host keeps it out.                          *)
Queue(c) ==
  /\ seenid' = seenid \cup {c.id}
  /\ IF c.id \notin seenid /\ c.host \notin seenhost
     THEN seenhost' = seenhost \cup {c.host} /\ qfind' = qfind \cup {c}
     ELSE UNCHANGED <<seenhost, qfind>>

(* The constructor queues the items it is given. *)
NewItem ==
  /\ pc = "new" /\ todo # <<>>
  /\ Queue(Head(todo))
  /\ learned' = learned \cup {Head(todo)}
  /\ todo' = Tail(todo)
  /\ UNCHANGED <<pc, outqueue, best, concurrency, finding, expired, ship, replies, asked,
                 answered, heard, failed>>

NewDone ==
  /\ pc = "new" /\ todo = <<>>
  /\ pc' = "send"
  /\ UNCHANGED <<todo, known, outqueue, best, concurrency, finding, expired, ship, replies,
                 asked, history>>

-----------------------------------------------------------------------------
(* State 1: requests go to the closest of b_qfind until enough are out. *)
Closest(c) == c \in qfind /\ \A d \in qfind : c.id <= d.id

Send(c) ==
  /\ pc = "send"
  /\ concurrency < Concurrent
  /\ Closest(c) /\ ~Far(c)
  /\ qfind' = qfind \ {c}
  /\ outqueue' = outqueue \cup {c}
  /\ asked' = Append(asked, c)
  /\ expired' = FALSE
  /\ finding' = TRUE
  /\ concurrency' = concurrency + 1
  /\ UNCHANGED <<pc, todo, seenid, seenhost, best, ship, replies, history>>

SendDone ==
  /\ pc = "send"
  /\ concurrency >= Concurrent \/ \A c \in qfind : Closest(c) => Far(c)
  /\ pc' = IF concurrency = 0 THEN "done" ELSE "receive"
  /\ UNCHANGED <<todo, known, outqueue, best, concurrency, finding, expired, ship, replies,
                 asked, history>>

-----------------------------------------------------------------------------
(* State 2: every response that has come in is expanded. *)
(* b_mapined.insert(dist), and one too many is the farthest. *)
Keep(id) ==
  LET all == mapined \cup {id}
  IN  IF Cardinality(all) > K THEN all \ {Max(all)} ELSE all

(* Mutant: an answered request stays out. *)
StillAllOut(id) == outqueue

HasId(p) == p.id # NoId
StillOut(id) == {c \in outqueue : c.id # id}
Enough(S) == Cardinality(S) = K

Receive ==
  /\ pc = "receive" /\ ship # <<>>
  /\ HasId(Head(ship))
  /\ LET p == Head(ship) IN
       /\ outqueue' = StillOut(p.id)
       /\ answered' = answered \cup {p.id} /\ heard' = heard \cup {p.id}
       /\ mapined' = Keep(p.id)
       /\ IF Enough(mapined')
          THEN ended' = Max(mapined') /\ trim' = TRUE
          ELSE UNCHANGED <<ended, trim>>
       /\ todo' = p.nodes
  /\ ship' = Tail(ship)
  /\ finding' = TRUE
  /\ pc' = "expand"
  /\ UNCHANGED <<known, concurrency, expired, replies, asked, learned, failed>>

(* A response without an id is dropped, and counted all the same. *)
ReceiveBad ==
  /\ pc = "receive" /\ ship # <<>>
  /\ ~HasId(Head(ship))
  /\ ship' = Tail(ship)
  /\ concurrency' = concurrency - 1
  /\ UNCHANGED <<pc, todo, known, outqueue, best, finding, expired, replies, asked, history>>

(* Mutant: once K nodes have answered no more contacts are collected. *)
ExpandTrimmed ==
  /\ pc = "expand" /\ todo # <<>>
  /\ IF trim THEN UNCHANGED known ELSE Queue(Head(todo))
  /\ learned' = learned \cup {Head(todo)}
  /\ todo' = Tail(todo)
  /\ UNCHANGED <<pc, outqueue, best, concurrency, finding, expired, ship, replies, asked,
                 answered, heard, failed>>

Expand ==
  /\ pc = "expand" /\ todo # <<>>
  /\ IF Far(Head(todo)) THEN UNCHANGED known ELSE Queue(Head(todo))
  /\ learned' = learned \cup {Head(todo)}
  /\ todo' = Tail(todo)
  /\ UNCHANGED <<pc, outqueue, best, concurrency, finding, expired, ship, replies, asked,
                 answered, heard, failed>>

ExpandDone ==
  /\ pc = "expand" /\ todo = <<>>
  /\ concurrency' = concurrency - 1
  /\ pc' = "receive"
  /\ UNCHANGED <<todo, known, outqueue, best, finding, expired, ship, replies, asked, history>>

(* Mutant: b_last_finding is not cleared. *)
ReceiveDoneAgain ==
  /\ pc = "receive" /\ ship = <<>>
  /\ IF expired
     THEN failed' = failed \cup outqueue /\ outqueue' = {} /\ concurrency' = 0
     ELSE UNCHANGED <<failed, outqueue, concurrency>>
  /\ IF concurrency' < Concurrent /\ finding
     THEN pc' = "send"
     ELSE pc' = IF concurrency' > 0 THEN "asleep" ELSE "done"
  /\ UNCHANGED <<finding, todo, known, best, expired, ship, replies, asked, learned,
                 answered, heard>>

(* No response is left: once the time is up the requests still out have     *)
(* failed; then more requests, sleep, or the end.                           *)
ReceiveDone ==
  /\ pc = "receive" /\ ship = <<>>
  /\ IF expired
     THEN failed' = failed \cup outqueue /\ outqueue' = {} /\ concurrency' = 0
     ELSE UNCHANGED <<failed, outqueue, concurrency>>
  /\ IF concurrency' < Concurrent /\ finding
     THEN finding' = FALSE /\ pc' = "send"
     ELSE pc' = (IF concurrency' > 0 THEN "asleep" ELSE "done") /\ UNCHANGED finding
  /\ UNCHANGED <<todo, known, best, expired, ship, replies, asked, learned,
                 answered, heard>>

-----------------------------------------------------------------------------
(* bdhtnet hands a response to the kship: any host that was asked may       *)
(* answer, late or more than once.                                          *)
Deliver(p) ==
  /\ pc = "asleep"
  /\ \E c \in Asked : c.host = p.host
  /\ replies[p.host] < MaxReplies
  /\ replies' = [replies EXCEPT ![p.host] = @ + 1]
  /\ ship' = Append(ship, p)
  /\ UNCHANGED <<pc, todo, known, outqueue, best, concurrency, finding, expired, asked, history>>

(* Mutant: a response wakes the lookup before the time is up. *)
WakeEarly ==
  /\ pc = "asleep"
  /\ ship # <<>>
  /\ heard' = {}
  /\ pc' = "receive"
  /\ UNCHANGED <<expired, todo, known, outqueue, best, concurrency, finding, ship, replies, asked,
                 learned, answered, failed>>

(* delay_resume(b_last_update+5) has come. *)
Wake ==
  /\ pc = "asleep"
  /\ expired' = TRUE
  /\ heard' = {}
  /\ pc' = "receive"
  /\ UNCHANGED <<todo, known, outqueue, best, concurrency, finding, ship, replies, asked,
                 learned, answered, failed>>

Step ==
  \/ NewItem \/ NewDone
  \/ (\E c \in qfind : Send(c)) \/ SendDone
  \/ Receive \/ ReceiveBad \/ Expand \/ ExpandDone \/ ReceiveDone
  \/ Wake

Next == Step \/ \E p \in Packets : Deliver(p)

Spec == Init /\ [][Next]_vars

(* vcall() runs on and the timer comes; the network may stay silent. *)
FairSpec == Spec /\ WF_vars(Step)

-----------------------------------------------------------------------------
TypeOK ==
  /\ pc \in {"new", "send", "receive", "expand", "asleep", "done"}
  /\ todo \in Seq(Contact)
  /\ qfind \subseteq Contact /\ outqueue \subseteq Contact
  /\ seenid \subseteq Ids /\ seenhost \subseteq Hosts
  /\ mapined \subseteq Ids
  /\ trim \in BOOLEAN /\ ended \in Nat
  /\ concurrency \in Int
  /\ finding \in BOOLEAN /\ expired \in BOOLEAN
  /\ ship \in Seq(Packets)
  /\ replies \in [Hosts -> Nat]
  /\ asked \in Seq(Contact)
  /\ learned \subseteq Contact /\ failed \subseteq Contact
  /\ answered \subseteq Ids /\ heard \subseteq answered

(* No node is asked twice, whatever list of contacts it comes up in again.  *)
AskedOnce ==
  \A i, j \in DOMAIN asked : i # j => asked[i].id # asked[j].id /\ asked[i].host # asked[j].host

(* A node whose response came in before the time was up is not reported as  *)
(* failed: the responses are read before the requests are given up.         *)
NoFalseFailure ==
  [][\A c \in failed' \ failed : c.id \notin heard]_vars

(* A sleeping lookup waits for requests that are out, no more than allowed, *)
(* and counts them right, whatever late and duplicate responses came before.*)
WindowOK ==
  pc = "asleep" => concurrency = Cardinality(outqueue) /\ concurrency \in 1 .. Concurrent

(* b_mapined is the K closest of all nodes that answered. *)
BestK ==
  /\ mapined \subseteq answered
  /\ trim <=> Cardinality(mapined) = K
  /\ \A i \in answered \ mapined : trim /\ ended < i
  /\ trim => ended \in mapined /\ \A i \in mapined : i <= ended

(* At the end everyone who was asked has answered or was reported failed.   *)
NoneForgotten ==
  pc = "done" => outqueue = {} /\ \A c \in Asked : c.id \in answered \/ c \in failed

(* Requests are accounted for, while it sleeps and when it ends. *)
RequestsCounted == WindowOK /\ NoneForgotten

(* At the end no contact it was told of is closer than the K-th closest     *)
(* answer and was left out: it was asked, under its own address or under    *)
(* that of a contact it shares its id with, or that address was queued for  *)
(* a contact farther away.                                                  *)
NothingCloserLeft ==
  pc = "done" =>
    \A c \in learned :
      \/ Far(c)
      \/ \E d \in learned, q \in Asked \cup qfind :
           d.id = c.id /\ q.host = d.host /\ (q \in qfind => Far(q))

(* What the lookup is for: the K closest that answer, and none of them      *)
(* overlooked.                                                              *)
ClosestFound == BestK /\ NothingCloserLeft

(* The bound on the search only comes closer. *)
EndedShrinks == [][trim => trim' /\ ended' <= ended]_vars

(* No answer is lost to a later step: who answered is not reported failed,  *)
(* and what the search has reached is not given up.                         *)
AnswersCount == NoFalseFailure /\ EndedShrinks

(* Every lookup comes to its end: the nodes to ask are finite in number and *)
(* silence is cut short by the timer.                                       *)
AlwaysEnds == <>(pc = "done")
=============================================================================
