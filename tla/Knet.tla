-------------------------------- MODULE Knet --------------------------------
(***************************************************************************)
(* The requests of the node and their answers (btdht/transfer.cc,          *)
(* btdht/provider.cc): every lookup and pingd send through a kship, whose  *)
(* number goes out with the request and leads an answer back to the queue  *)
(* of that kship.  The process may be restarted while answers to its       *)
(* earlier life are on the way.                                            *)
(***************************************************************************)
EXTENDS Integers, Sequences, FiniteSets

CONSTANTS
  Lookups, Pingd, \* the threads that use a kship
  TidSpan,        \* 2^32: values of b_tid
  MaxShips,       \* bound on the kships made, below TidSpan
  MaxQueue,       \* bound on a kship's queue
  MaxRestarts,    \* bound on restarts of the process
  LongIds         \* peers may return a transaction id of more than 4 bytes

Owners == Lookups \cup {Pingd}

ASSUME KnetAssumption ==
  /\ Pingd \notin Lookups /\ TidSpan \in Nat /\ MaxShips \in Nat /\ MaxShips < TidSpan
  /\ MaxQueue \in Nat /\ MaxRestarts \in Nat /\ LongIds \in BOOLEAN

VARIABLES
  tid,      \* b_tid
  requests, \* b_requests: from the numbers in use to the kship, named by its owner
  ship,     \* per owner: none or its kship
  owner,    \* "idle", "running" its bdocall(), "thread" or "other": asleep, on what
  inflight, \* requests sent: number, and as history who asked in which life
  life,     \* history: restarts so far
  wild      \* history: binput() read b_thread before it was set

vars == <<tid, requests, ship, owner, inflight, life, wild>>

NoShip == [tid |-> -1, made |-> 0, thread |-> "null", queue |-> <<>>]

(* "unset": the constructor leaves b_thread uninitialised. *)
Kship(n) == [tid |-> n % TidSpan, made |-> n + 1, thread |-> "unset", queue |-> <<>>]

Init ==
  /\ tid = 0 /\ requests = <<>> /\ life = 0 /\ wild = FALSE /\ inflight = {}
  /\ ship = [o \in Owners |-> NoShip]
  /\ owner = [o \in Owners |-> "idle"]

Quiet == \A o \in Owners : owner[o] # "running"

-----------------------------------------------------------------------------
(* get_kship(); std::map::insert leaves a number that is taken alone.       *)
NewShip(o) ==
  /\ Quiet /\ ship[o] = NoShip /\ tid < MaxShips
  /\ tid' = tid + 1
  /\ ship' = [ship EXCEPT ![o] = Kship(tid)]
  /\ requests' = [n \in DOMAIN requests \cup {tid % TidSpan} |->
                    IF n \in DOMAIN requests THEN requests[n] ELSE o]
  /\ owner' = [owner EXCEPT ![o] = "running"]
  /\ UNCHANGED <<inflight, life, wild>>

(* ping_node(), find_node(), get_peers() *)
Send(o) ==
  /\ owner[o] = "running"
  /\ inflight' = inflight \cup
       {[tid |-> ship[o].tid, owner |-> o, session |-> ship[o].made, life |-> life]}
  /\ UNCHANGED <<tid, requests, ship, owner, life, wild>>

(* get_response(), with something to return. *)
Receive(o) ==
  /\ owner[o] = "running" /\ ship[o].queue # <<>>
  /\ ship' = [ship EXCEPT ![o].queue = Tail(@)]
  /\ UNCHANGED <<tid, requests, owner, inflight, life, wild>>

(* Mutant: a lookup is put to sleep without having asked for a response. *)
SleepUnread(o) ==
  /\ owner[o] = "running"
  /\ owner' = [owner EXCEPT ![o] = IF o = Pingd THEN "thread" ELSE "other"]
  /\ UNCHANGED <<tid, requests, inflight, life, wild, ship>>

(* get_response() with nothing to return notes the thread; pingd then       *)
(* sleeps on itself, a lookup on something else.                            *)
Sleep(o) ==
  /\ owner[o] = "running" /\ ship[o].queue = <<>>
  /\ ship' = [ship EXCEPT ![o].thread = "set"]
  /\ owner' = [owner EXCEPT ![o] = IF o = Pingd THEN "thread" ELSE "other"]
  /\ UNCHANGED <<tid, requests, inflight, life, wild>>

(* pingd has nobody to ping: asleep on NULL, maybe with a kship it never    *)
(* read; once it has sent a ping it reads before it comes here.             *)
SleepIdle ==
  /\ owner[Pingd] = "running"
  /\ ship[Pingd].thread = "unset" => \A r \in inflight : r.owner = Pingd => r.life # life
  /\ owner' = [owner EXCEPT ![Pingd] = "other"]
  /\ UNCHANGED <<tid, requests, ship, inflight, life, wild>>

(* A timer, or update_contact() for pingd. *)
Resume(o) ==
  /\ Quiet /\ owner[o] \in {"thread", "other", "woken"}
  /\ owner' = [owner EXCEPT ![o] = "running"]
  /\ UNCHANGED <<tid, requests, ship, inflight, life, wild>>

(* Mutant: the destructor leaves its number in b_requests. *)
DeleteAttached(o) ==
  /\ owner[o] = "running" /\ o # Pingd
  /\ ship' = [ship EXCEPT ![o] = NoShip]
  /\ owner' = [owner EXCEPT ![o] = "idle"]
  /\ UNCHANGED <<requests, tid, inflight, life, wild>>

(* ~kship(): its queue is freed and its number given up; pingd's is kept.   *)
Delete(o) ==
  /\ owner[o] = "running" /\ o # Pingd
  /\ requests' = [n \in DOMAIN requests \ {ship[o].tid} |-> requests[n]]
  /\ ship' = [ship EXCEPT ![o] = NoShip]
  /\ owner' = [owner EXCEPT ![o] = "idle"]
  /\ UNCHANGED <<tid, inflight, life, wild>>

-----------------------------------------------------------------------------
(* bdhtcodec::bload(): up to four bytes are copied into b_transid, a longer *)
(* one leaves it uninitialised.                                             *)
Transids(r) == {r.tid} \cup (IF LongIds THEN 0 .. MaxShips ELSE {})

(* bdhtnet::binput() and kship::binput(): found by its number only; the     *)
(* thread is woken if it sleeps on itself, and noted as woken in any case.  *)
Response(r, id) ==
  /\ Quiet
  /\ IF id \in DOMAIN requests
     THEN LET o == requests[id] IN
          /\ Len(ship[o].queue) < MaxQueue
          /\ ship' = [ship EXCEPT ![o].queue = Append(@, r), ![o].thread = "null"]
          /\ owner' = (IF ship[o].thread = "set" /\ owner[o] = "thread"
                       THEN [owner EXCEPT ![o] = "woken"] ELSE owner)
          /\ wild' = (wild \/ ship[o].thread = "unset")
     ELSE UNCHANGED <<ship, owner, wild>>
  /\ UNCHANGED <<tid, requests, inflight, life>>

(* The process dies and is started again; what is in the network stays.     *)
Restart ==
  /\ life < MaxRestarts
  /\ life' = life + 1
  /\ tid' = 0 /\ requests' = <<>>
  /\ ship' = [o \in Owners |-> NoShip]
  /\ owner' = [o \in Owners |-> "idle"]
  /\ UNCHANGED <<inflight, wild>>

Next ==
  \/ \E o \in Owners :
       NewShip(o) \/ Send(o) \/ Receive(o) \/ Sleep(o) \/ Resume(o) \/ Delete(o)
  \/ SleepIdle \/ Restart
  \/ \E r \in inflight : \E id \in Transids(r) : Response(r, id)

Spec == Init /\ [][Next]_vars

-----------------------------------------------------------------------------
Request == [tid : 0 .. MaxShips, owner : Owners, session : 1 .. MaxShips, life : 0 .. MaxRestarts]

TypeOK ==
  /\ tid \in 0 .. MaxShips /\ inflight \subseteq Request
  /\ DOMAIN requests \subseteq 0 .. MaxShips
  /\ \A o \in Owners : ship[o].queue \in Seq(Request) /\ ship[o].thread \in {"unset", "set", "null"}
  /\ owner \in [Owners -> {"idle", "running", "thread", "other", "woken"}]

Honest == life = 0 /\ ~LongIds

(* A number in use leads to the kship that has it, and every kship can be   *)
(* reached: none is shadowed by another, none outlives its owner.           *)
NumbersLead ==
  /\ \A n \in DOMAIN requests : ship[requests[n]].tid = n
  /\ \A o \in Owners : ship[o] # NoShip => ship[o].tid \in DOMAIN requests /\ requests[ship[o].tid] = o

(* What a kship has to read are answers to its own requests, unless the     *)
(* process was restarted or a peer sent a long transaction id.              *)
OwnAnswers ==
  Honest => \A o \in Owners : \A i \in DOMAIN ship[o].queue :
    ship[o].queue[i].owner = o /\ ship[o].queue[i].session = ship[o].made

(* An answer never finds b_thread unset, with the same exceptions; and with *)
(* them only pingd's can be, which keeps a kship it has not read.           *)
NoWildWake ==
  /\ Honest => ~wild
  /\ \A o \in Lookups : owner[o] # "running" => ship[o].thread # "unset"

(* pingd asleep on itself is woken by the first answer; a lookup is not.    *)
PingdHears == owner[Pingd] = "thread" => ship[Pingd].queue = <<>>

(* The numbers do what they are for: every answer comes to who asked.       *)
NumbersSound == NumbersLead /\ OwnAnswers /\ NoWildWake /\ PingdHears

(* The numbers implement the sessions of Kmail. *)
Mail == INSTANCE Kmail WITH
  session <- [o \in Owners |-> ship[o].made],
  opened <- tid,
  asked <- {[owner |-> r.owner, session |-> r.session] : r \in inflight},
  box <- [o \in Owners |-> [i \in DOMAIN ship[o].queue |->
            [owner |-> ship[o].queue[i].owner, session |-> ship[o].queue[i].session]]]

ImplementsMail == Mail!Spec
=============================================================================
