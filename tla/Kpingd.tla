------------------------------- MODULE Kpingd -------------------------------
(***************************************************************************)
(* pingd (btdht/kpingd.cc) over one bucket of the routing table: it asks   *)
(* the doubtful nodes whether they are still there, and reports who        *)
(* answered and who did not.  The map of contacts to ping and the map of   *)
(* pings out are functions from host addresses to ids.                     *)
(***************************************************************************)
EXTENDS Kbucket, Functions, SequencesExt

CONSTANTS
  Ids, Hosts,   \* addresses are numbers, std::map keeps them in order
  Items,        \* the contacts the node is told of: an id at an address
  Boot,         \* the addresses main() queued for pingd
  NoId,         \* a response without an id of 20 bytes
  Window,       \* 3: pings out at a time
  Timeout,      \* 3: seconds an answer may take
  BootTime, MaxClock, \* bound on the clock: there everything out is late
  MaxReplies    \* bound on what the network sends

KpingdAssumption ==
  /\ Hosts \subseteq Nat /\ NoId \notin Ids /\ NullId \notin Ids
  /\ Window \in Nat \ {0} /\ Timeout \in Nat \ {0} /\ K \in Nat \ {0}
  /\ Boot \subseteq Hosts /\ IsFiniteSet(Boot) /\ Items \subseteq [id : Ids, host : Hosts]
  /\ BootTime \in Nat /\ BootTime > DoubtAge /\ MaxClock \in Nat /\ MaxClock >= BootTime
  /\ MaxReplies \in Nat

VARIABLES
  bucket, clock,
  static,       \* __static_ping_queue
  queue,        \* b_queue: pings out
  concurrency, sendmore, lastSeen, state, \* b_state, 0 being passed at once
  thread,       \* "asleep", "ready" in the run queue, or "running"
  ident,        \* b_swaitident: "this" or "NULL"
  tick,         \* deadline of the pending timer, 0 for none
  waiting,      \* b_thread of the kship is set
  responses,    \* the kship's queue
  pinged,       \* history: hosts a ping was sent to
  replies,      \* history: responses the network sent
  strays        \* history: responses no ping of queue accounts for, since
                \* b_concurrency was last set to 0

loop == <<concurrency, sendmore, lastSeen, state>>
vars == <<bucket, clock, static, queue, loop, thread, ident, tick, waiting,
          responses, pinged, replies, strays>>

Booted == Boot # {}   \* main() was given more than eight contacts
AsItem(f, h) == [id |-> f[h], host |-> h]

(* std::map::insert: the entry of an address that is there stays. *)
Insert(f, g) == [h \in DOMAIN f \cup DOMAIN g |-> IF h \in DOMAIN f THEN f[h] ELSE g[h]]

Init ==
  /\ bucket = EmptyBucket /\ clock = BootTime
  /\ static = [h \in Boot |-> NullId]
  /\ queue = <<>> /\ concurrency = 0 /\ sendmore = FALSE /\ lastSeen = BootTime
  /\ state = 1
  /\ thread = (IF Booted THEN "ready" ELSE "asleep") /\ ident = "this"
  /\ tick = 0 /\ waiting = FALSE /\ responses = <<>>
  /\ pinged = {} /\ replies = 0 /\ strays = 0

-----------------------------------------------------------------------------
(* bwakeup(wait) *)
Woken(wait) == IF thread = "asleep" /\ ident = wait THEN "ready" ELSE thread

(* update_contact() from another thread. *)
Contact(item, contacted) ==
  /\ thread # "running"
  /\ bucket' = UpdateContact(bucket, item, contacted, clock)
  /\ thread' = (IF bucket'.needPing THEN Woken("NULL") ELSE thread)
  /\ UNCHANGED <<clock, static, queue, loop, ident, tick, waiting, responses,
                 pinged, replies, strays>>

(* bdhtnet hands over a response: an answer, a late or a second one.        *)
Respond(h, id) ==
  /\ thread # "running" /\ h \in pinged /\ replies < MaxReplies
  /\ responses' = Append(responses, [id |-> id, host |-> h])
  /\ replies' = replies + 1
  /\ thread' = (IF waiting THEN Woken("this") ELSE thread)
  /\ waiting' = FALSE
  /\ UNCHANGED <<bucket, clock, static, queue, loop, ident, tick, pinged, strays>>

(* Mutant: a time-out only wakes a thread that sleeps on NULL. *)
ExpireNull ==
  /\ thread # "running" /\ tick # 0 /\ tick <= clock
  /\ tick' = 0
  /\ thread' = Woken("NULL")
  /\ UNCHANGED <<bucket, clock, static, queue, loop, ident, waiting, responses,
                 pinged, replies, strays>>

(* The time-out of the timer wakes the thread on whatever it sleeps on.     *)
Expire ==
  /\ thread # "running" /\ tick # 0 /\ tick <= clock
  /\ tick' = 0
  /\ thread' = Woken(ident)
  /\ UNCHANGED <<bucket, clock, static, queue, loop, ident, waiting, responses,
                 pinged, replies, strays>>

Tick ==
  /\ thread # "running" /\ clock < MaxClock
  /\ clock' = clock + 1
  /\ UNCHANGED <<bucket, static, queue, loop, thread, ident, tick, waiting,
                 responses, pinged, replies, strays>>

-----------------------------------------------------------------------------
(* bdocall(), one turn of its loop at a time. *)
Run ==
  /\ thread = "ready" /\ thread' = "running"
  /\ UNCHANGED <<bucket, clock, static, queue, loop, ident, tick, waiting,
                 responses, pinged, replies, strays>>

(* The contacts of the lowest addresses, as many as the window has room for. *)
Before(h) == {g \in DOMAIN static : g < h}
Batch == {h \in DOMAIN static : Cardinality(Before(h)) < Window - concurrency}

Found == LET items == PingItems(bucket, K, clock)
         IN  [h \in {items[i].host : i \in DOMAIN items} |->
                items[Min({i \in DOMAIN items : items[i].host = h})].id]

(* State 1: send what the window allows; with nothing out, ask the table    *)
(* for more or sleep until update_contact() has some.                       *)
TurnSend ==
  /\ thread = "running" /\ state = 1
  /\ LET out == Batch
         left == Restrict(static, DOMAIN static \ out)
     IN
     /\ queue' = Insert(queue, Restrict(static, out))
     /\ pinged' = pinged \cup out
     /\ concurrency' = concurrency + Cardinality(out)
     /\ sendmore' = (sendmore \/ out # {})
     /\ lastSeen' = (IF out # {} THEN clock ELSE lastSeen)
     /\ \/ concurrency' > 0 /\ state' = 2 /\ static' = left
           /\ UNCHANGED <<bucket, thread, ident>>
        \/ /\ concurrency' <= 0 /\ ~bucket.needPing
           /\ static' = left
           /\ thread' = "asleep" /\ ident' = "NULL"
           /\ UNCHANGED <<bucket, state>>
        \/ /\ concurrency' <= 0 /\ bucket.needPing
           /\ static' = Insert(left, Found)
           /\ bucket' = GetPing(bucket, K, clock)
           /\ UNCHANGED <<state, thread, ident>>
  /\ UNCHANGED <<clock, tick, waiting, responses, replies, strays>>

(* State 2, kping_expand() of one response.  "memcmp() != 20" is always     *)
(* true: whoever answers is reported failed first, and met after that.      *)
TurnReceive ==
  /\ thread = "running" /\ state = 2 /\ responses # <<>>
  /\ LET r == Head(responses)
         known == r.id # NoId /\ r.host \in DOMAIN queue
         failed == IF known THEN FailedContact(bucket, AsItem(queue, r.host), clock) ELSE bucket
     IN
     /\ bucket' = (IF r.id = NoId THEN bucket ELSE UpdateContact(failed, r, TRUE, clock))
     /\ queue' = (IF known THEN Restrict(queue, DOMAIN queue \ {r.host}) ELSE queue)
     /\ strays' = strays + (IF known THEN 0 ELSE 1)
     /\ concurrency' = concurrency - 1
  /\ responses' = Tail(responses)
  /\ UNCHANGED <<clock, static, sendmore, lastSeen, state, thread, ident, tick,
                 waiting, pinged, replies>>

(* State 2, the queue of responses being empty: who did not answer in time  *)
(* is reported failed, one after the other;                                 *)
Late == lastSeen + Timeout <= clock \/ clock = MaxClock

TurnFail ==
  /\ thread = "running" /\ state = 2 /\ responses = <<>>
  /\ Late /\ queue # <<>>
  /\ LET h == Min(DOMAIN queue) IN
     /\ bucket' = FailedContact(bucket, AsItem(queue, h), clock)
     /\ queue' = Restrict(queue, DOMAIN queue \ {h})
  /\ UNCHANGED <<clock, static, loop, thread, ident, tick, waiting, responses,
                 pinged, replies, strays>>

(* then send more, wait for the rest, or start over.                        *)
TurnDrained ==
  /\ thread = "running" /\ state = 2 /\ responses = <<>>
  /\ Late => queue = <<>>
  /\ waiting' = TRUE
  /\ IF Late THEN concurrency' = 0 /\ strays' = 0 ELSE UNCHANGED <<concurrency, strays>>
  /\ \/ concurrency' < K /\ sendmore
        /\ sendmore' = FALSE /\ state' = 1 /\ UNCHANGED <<thread, ident, tick>>
     \/ /\ concurrency' >= K \/ ~sendmore
        /\ concurrency' > 0
        /\ tick' = lastSeen + Timeout
        /\ thread' = "asleep" /\ ident' = "this" /\ UNCHANGED <<state, sendmore>>
     \/ /\ ~sendmore /\ concurrency' <= 0
        /\ state' = 1 /\ UNCHANGED <<thread, ident, tick, sendmore>>
  /\ UNCHANGED <<bucket, queue, clock, static, lastSeen, responses, pinged, replies>>

Next ==
  \/ \E item \in Items, contacted \in BOOLEAN : Contact(item, contacted)
  \/ \E r \in Items \cup {[id |-> NoId, host |-> h] : h \in Hosts} : Respond(r.host, r.id)
  \/ Expire \/ Tick \/ Run \/ TurnSend \/ TurnReceive \/ TurnFail \/ TurnDrained

Spec == Init /\ [][Next]_vars

(* The main loop runs pingd's thread on (Bthread), the timers go off.      *)
Turns == Run \/ TurnSend \/ TurnReceive \/ TurnFail \/ TurnDrained
FairSpec == Spec /\ WF_vars(Turns) /\ WF_vars(Expire) /\ WF_vars(Tick)

-----------------------------------------------------------------------------
Contacts == UNION {[S -> Ids \cup {NullId}] : S \in SUBSET Hosts}

TypeOK ==
  /\ static \in Contacts /\ queue \in Contacts
  /\ concurrency \in -MaxReplies .. Window /\ sendmore \in BOOLEAN
  /\ lastSeen \in BootTime .. MaxClock /\ state \in {1, 2}
  /\ thread \in {"asleep", "ready", "running"} /\ ident \in {"this", "NULL"}
  /\ waiting \in BOOLEAN /\ pinged \subseteq Hosts

Asleep(on) == thread = "asleep" /\ ident = on

(* b_concurrency is what is out, less the answers that belonged to nothing  *)
(* (late, second or without an id): it undercounts only for those.          *)
Undercounts == Cardinality(DOMAIN queue) <= concurrency + strays

(* Pings are left out without a timer, pingd asleep until the table calls   *)
(* it, only after such an answer.                                           *)
NoPingUnwatched == Asleep("NULL") /\ strays = 0 => queue = <<>>

(* Asleep for answers, pingd has the deadline of its last ping ahead, has   *)
(* a ping out, and no answer lies unread: an answer wakes it.               *)
SleepsOnPings ==
  Asleep("this") /\ pinged # {} =>
    /\ tick = lastSeen + Timeout
    /\ queue # <<>>
    /\ responses = <<>> /\ waiting

(* bdocall() comes to an end: the loop between the table and an empty       *)
(* queue does not go round for ever.                                        *)
PingdYields == (thread = "running") ~> (thread # "running")

(* Once pingd runs, a contact that was queued is pinged.                    *)
ContactsPinged == Booted => \A h \in Hosts : h \in DOMAIN static ~> h \notin DOMAIN static

(* Once pingd runs, whenever the table wants pings the flag comes down or   *)
(* pings go out.                                                            *)
PingsGoOut == Booted => [](bucket.needPing => <>(~bucket.needPing \/ queue # <<>>))

(* Whoever answers a ping is reported failed first; that costs a node its   *)
(* slot only when nothing was heard of it for DoubtAge.                     *)
AnswererKept ==
  [][\A i \in DOMAIN bucket.nodes :
       LET n == bucket.nodes[i] IN
       /\ Len(responses') < Len(responses) /\ Head(responses).id = n.id
       /\ ~IsBad(n) /\ n.seen + DoubtAge >= clock
       => \E m \in ToSet(bucket'.nodes) : m.id = n.id]_vars
=============================================================================
