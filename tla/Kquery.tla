------------------------------- MODULE Kquery -------------------------------
(***************************************************************************)
(* The answers to other nodes' queries (bdhtnet::query_expand), over one   *)
(* bucket of the routing table that lookups and pingd change meanwhile.    *)
(***************************************************************************)
EXTENDS Kbucket, SequencesExt

CONSTANTS
  Items,             \* contacts, as [id, host]
  BootTime, MaxClock \* bound on the clock

KqueryAssumption == K \in Nat \ {0} /\ BootTime > DoubtAge

VARIABLES
  bucket, clock,
  reply,    \* the packet the last step sent
  answered  \* history: ids that answered a request

vars == <<bucket, clock, reply, answered>>

Silence == [kind |-> "none", to |-> NullId, token |-> FALSE, nodes |-> <<>>]

Init == bucket = EmptyBucket /\ clock = BootTime /\ reply = Silence /\ answered = {}

(* memcmp(query, name, tlen), four bytes at least: a beginning of a name is *)
(* as good as the name.                                                     *)
Queries == {"announce_peer", "get_peers", "get_", "find_node", "find", "ping", "pin", "vote"}

Handler(q) ==
  CASE q = "announce_peer" -> "announce_peer"
    [] q \in {"get_peers", "get_"} -> "get_peers"
    [] q \in {"find_node", "find"} -> "find_node"
    [] q = "ping" -> "ping"
    [] OTHER -> "none"

(* Mutant: the sender of a query is reported failed first. *)
QueryFailed(item, wellFormed, q, targeted) ==
  LET h == Handler(q) IN
  /\ IF wellFormed /\ h \in {"get_peers", "find_node"} /\ targeted
     THEN /\ reply' = [kind |-> h, to |-> item.host, token |-> h = "get_peers",
                       nodes |-> FindNodes(bucket, TRUE, clock)]
          /\ bucket' = UpdateContact(FailedContact(bucket, item, clock), item, FALSE, clock)
     ELSE /\ reply' = (IF wellFormed /\ h = "ping"
                       THEN [Silence EXCEPT !.kind = h, !.to = item.host] ELSE Silence)
          /\ UNCHANGED bucket
  /\ UNCHANGED <<clock, answered>>

(* A query is dropped without an id; one for nodes is answered with the     *)
(* good ones when it has a target, and its sender told to the table; a ping *)
(* is answered; an announcement is only printed.                            *)
Query(item, wellFormed, q, targeted) ==
  LET h == Handler(q) IN
  /\ IF wellFormed /\ h \in {"get_peers", "find_node"} /\ targeted
     THEN /\ reply' = [kind |-> h, to |-> item.host, token |-> h = "get_peers",
                       nodes |-> FindNodes(bucket, TRUE, clock)]
          /\ bucket' = UpdateContact(bucket, item, FALSE, clock)
     ELSE /\ reply' = (IF wellFormed /\ h = "ping"
                       THEN [Silence EXCEPT !.kind = h, !.to = item.host] ELSE Silence)
          /\ UNCHANGED bucket
  /\ UNCHANGED <<clock, answered>>

(* What lookups and pingd report. *)
Answered(item) ==
  /\ bucket' = UpdateContact(bucket, item, TRUE, clock)
  /\ answered' = answered \cup {item.id}
  /\ reply' = Silence /\ UNCHANGED clock

NotAnswered(item) ==
  /\ bucket' = FailedContact(bucket, item, clock)
  /\ reply' = Silence /\ UNCHANGED <<clock, answered>>

Tick ==
  /\ clock < MaxClock /\ clock' = clock + 1
  /\ reply' = Silence /\ UNCHANGED <<bucket, answered>>

Next ==
  \/ \E item \in Items, wellFormed \in BOOLEAN, q \in Queries, targeted \in BOOLEAN :
       Query(item, wellFormed, q, targeted)
  \/ \E item \in Items : Answered(item) \/ NotAnswered(item)
  \/ Tick

Spec == Init /\ [][Next]_vars

-----------------------------------------------------------------------------
TypeOK ==
  /\ Len(bucket.nodes) <= K /\ Len(bucket.backups) <= K
  /\ reply.kind \in {"none", "get_peers", "find_node", "ping"}
  /\ reply.token = (reply.kind = "get_peers")
  /\ Len(reply.nodes) <= K

(* Only nodes that answered are given out, however many queries came from   *)
(* the others; a node that never answered is given out all the same while   *)
(* it has failed exactly twice, where _isgood() and _isbad() are both true. *)
GivenNodes ==
  \A n \in ToSet(reply.nodes) :
    IF n.seen # 0 THEN n.seen + DoubtAge >= clock
    ELSE n.failed = 2

(* A node that asks is not one that answered: what is in the table as seen  *)
(* has answered a request of ours.                                          *)
AskingIsNotAnswering ==
  \A n \in ToSet(bucket.nodes \o bucket.backups) : n.seen # 0 => n.id \in answered

(* A query takes no node's slot away unless that node is bad.               *)
QueriesHarmless ==
  [][reply'.kind # "none" =>
       \A n \in ToSet(bucket.nodes) : IsBad(n) \/ \E m \in ToSet(bucket'.nodes) : m.id = n.id]_vars
=============================================================================
