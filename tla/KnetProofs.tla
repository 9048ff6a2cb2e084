----------------------------- MODULE KnetProofs -----------------------------
(***************************************************************************)
(* The numbers of requests lead every answer to its asker, for every set   *)
(* of lookups, any number of kships and however often the network delivers *)
(* an answer; and they implement the sessions of Kmail while the process   *)
(* lives and peers return the transaction ids they were sent.  Then the    *)
(* waits for the sockets (Bsocket), for any number of clients.             *)
(***************************************************************************)
EXTENDS Knet, FiniteSetTheorems, WellFoundedInduction, TLAPS

USE KnetAssumption

Ship == [tid : -1 .. MaxShips, made : 0 .. MaxShips, thread : {"unset", "set", "null"}, queue : Seq(Request)]

Typed ==
  /\ TypeOK
  /\ ship \in [Owners -> Ship] /\ life \in 0 .. MaxRestarts /\ wild \in BOOLEAN
  /\ \A n \in DOMAIN requests : requests[n] \in Owners

(* An owner has a kship while it is not idle; kships are numbered in order. *)
Numbered ==
  \A o \in Owners :
    IF ship[o].made = 0 THEN ship[o] = NoShip /\ owner[o] = "idle"
    ELSE ship[o].made <= tid /\ ship[o].tid = ship[o].made - 1 /\ owner[o] # "idle"

(* A request of this life names the session of its owner and no other.      *)
Labelled ==
  \A r \in inflight :
    /\ r.life <= life
    /\ r.life = life =>
         /\ r.session <= tid /\ r.tid = r.session - 1
         /\ \A o \in Owners : ship[o].made = r.session => o = r.owner

(* Who sleeps has noted its thread where an answer could find it unset, and *)
(* only pingd sleeps on itself.                                             *)
Sleepers ==
  /\ \A o \in Lookups : owner[o] \notin {"thread", "woken"} /\ (owner[o] # "running" => ship[o].thread # "unset")
  /\ owner[Pingd] = "thread" => ship[Pingd].thread = "set" /\ ship[Pingd].queue = <<>>
  /\ owner[Pingd] # "running" /\ ship[Pingd].thread = "unset" =>
       \A r \in inflight : r.owner = Pingd => r.life # life

NetInv ==
  /\ Typed /\ Numbered /\ NumbersLead /\ Labelled /\ Sleepers /\ OwnAnswers /\ (Honest => ~wild)

LEMMA ModSmall == \A a, b \in Nat : a < b => a % b = a
OBVIOUS

(* What a number in use and a kship have to do with each other. *)
LEMMA InUse ==
  ASSUME NetInv
  PROVE  /\ \A n \in DOMAIN requests :
              requests[n] \in Owners /\ ship[requests[n]].made = n + 1 /\ n < tid /\ n \in 0 .. MaxShips
         /\ \A o \in Owners : ship[o].made # 0 =>
              ship[o].tid \in DOMAIN requests /\ requests[ship[o].tid] = o
<1>1. ASSUME NEW n \in DOMAIN requests
      PROVE  requests[n] \in Owners /\ ship[requests[n]].made = n + 1 /\ n < tid /\ n \in 0 .. MaxShips
  <2>1. requests[n] \in Owners /\ n \in 0 .. MaxShips /\ ship[requests[n]].tid = n
    BY DEF NetInv, Typed, TypeOK, NumbersLead
  <2>2. ship[requests[n]] # NoShip
    BY <2>1 DEF NoShip
  <2> QED BY <2>1, <2>2 DEF NetInv, Numbered, Typed, TypeOK, Ship
<1>2. ASSUME NEW o \in Owners, ship[o].made # 0
      PROVE  ship[o].tid \in DOMAIN requests /\ requests[ship[o].tid] = o
  <2>1. ship[o] # NoShip
    BY <1>2 DEF NoShip
  <2> QED BY <2>1 DEF NetInv, NumbersLead
<1> QED BY <1>1, <1>2

LEMMA InitNet == Init => NetInv
<1> SUFFICES ASSUME Init PROVE NetInv
  OBVIOUS
<1>1. Typed
  <2>1. NoShip \in Ship
    BY DEF NoShip, Ship
  <2>2. ship \in [Owners -> Ship]
    BY <2>1 DEF Init
  <2>3. DOMAIN requests = {}
    BY DEF Init
  <2>4. \A o \in Owners : ship[o].queue \in Seq(Request) /\ ship[o].thread \in {"unset", "set", "null"}
    BY <2>2 DEF Ship
  <2>5. 0 \in 0 .. MaxShips /\ 0 \in 0 .. MaxRestarts
    OBVIOUS
  <2>6. owner \in [Owners -> {"idle", "running", "thread", "other", "woken"}]
    BY DEF Init
  <2>7. TypeOK
    BY <2>3, <2>4, <2>5, <2>6 DEF Init, TypeOK
  <2> QED BY <2>2, <2>3, <2>5, <2>7 DEF Init, Typed
<1>2. Numbered
  BY DEF Init, Numbered, NoShip
<1>3. NumbersLead
  BY DEF Init, NumbersLead, NoShip
<1>4. Labelled /\ Sleepers
  BY DEF Init, Labelled, Sleepers, NoShip, Owners
<1>5. OwnAnswers /\ (Honest => ~wild)
  BY DEF Init, OwnAnswers, NoShip
<1> QED BY <1>1, <1>2, <1>3, <1>4, <1>5 DEF NetInv

-----------------------------------------------------------------------------
(* One lemma for each action. *)

LEMMA NetNewShip == ASSUME NetInv, NEW o \in Owners, NewShip(o) PROVE NetInv'
<1> DEFINE new == [tid |-> tid, made |-> tid + 1, thread |-> "unset", queue |-> <<>>]
<1>1. /\ tid \in 0 .. MaxShips /\ tid' = tid + 1 /\ tid' \in 0 .. MaxShips
      /\ tid % TidSpan = tid /\ tid \in Nat
  <2>1. tid \in 0 .. MaxShips /\ tid < MaxShips /\ tid' = tid + 1
    BY DEF NetInv, Typed, TypeOK, NewShip
  <2>2. tid \in Nat /\ tid < TidSpan
    BY <2>1
  <2> QED BY <2>1, <2>2, ModSmall
<1>2. /\ ship' = [ship EXCEPT ![o] = new] /\ new \in Ship
      /\ \A p \in Owners : ship'[p] = IF p = o THEN new ELSE ship[p]
  <2>1. new \in Ship
    BY <1>1 DEF Ship
  <2>2. Kship(tid) = new
    BY <1>1 DEF Kship
  <2>3. ship' = [ship EXCEPT ![o] = new]
    BY <2>2 DEF NewShip
  <2> QED BY <2>1, <2>3 DEF NetInv, Typed
<1>3. /\ owner' \in [Owners -> {"idle", "running", "thread", "other", "woken"}]
      /\ \A p \in Owners : owner'[p] = IF p = o THEN "running" ELSE owner[p]
  BY DEF NetInv, Typed, TypeOK, NewShip
<1>4. tid \notin DOMAIN requests
  BY InUse
<1>5. /\ DOMAIN requests' = DOMAIN requests \cup {tid}
      /\ requests'[tid] = o
      /\ \A n \in DOMAIN requests : requests'[n] = requests[n]
      /\ \A n \in DOMAIN requests' : requests'[n] \in Owners
  BY <1>1, <1>4 DEF NewShip, NetInv, Typed
<1>6. UNCHANGED <<inflight, life, wild>> /\ ship[o] = NoShip /\ ship[o].made = 0
  BY DEF NewShip, NoShip
<1>7. Typed'
  <2>1. ship' \in [Owners -> Ship]
    BY <1>2 DEF NetInv, Typed
  <2>2. \A p \in Owners : ship'[p].queue \in Seq(Request) /\ ship'[p].thread \in {"unset", "set", "null"}
    BY <2>1 DEF Ship
  <2>3. DOMAIN requests' \subseteq 0 .. MaxShips
    BY <1>1, <1>5 DEF NetInv, Typed, TypeOK
  <2> QED BY <1>1, <1>3, <1>5, <1>6, <2>1, <2>2, <2>3 DEF NetInv, Typed, TypeOK, Request
<1>8. Numbered'
  <2> SUFFICES ASSUME NEW p \in Owners
               PROVE  IF ship'[p].made = 0 THEN ship'[p] = NoShip /\ owner'[p] = "idle"
                      ELSE ship'[p].made <= tid' /\ ship'[p].tid = ship'[p].made - 1 /\ owner'[p] # "idle"
    BY DEF Numbered, NoShip
  <2>1. CASE p = o
    BY <1>1, <1>2, <1>3, <2>1
  <2>2. CASE p # o
    <3>1. ship'[p] = ship[p] /\ owner'[p] = owner[p] /\ ship[p].made \in Nat
      BY <1>2, <1>3, <2>2 DEF NetInv, Typed, Ship
    <3> QED BY <1>1, <3>1 DEF NetInv, Numbered
  <2> QED BY <2>1, <2>2
<1>9. NumbersLead'
  <2>1. \A n \in DOMAIN requests : requests[n] \in Owners /\ requests[n] # o /\ ship[requests[n]].tid = n
    BY <1>6, InUse DEF NetInv, NumbersLead
  <2>2. \A n \in DOMAIN requests' : ship'[requests'[n]].tid = n
    BY <1>2, <1>5, <2>1
  <2>3. ASSUME NEW p \in Owners, ship'[p] # NoShip
        PROVE  ship'[p].tid \in DOMAIN requests' /\ requests'[ship'[p].tid] = p
    BY <1>2, <1>5, <2>3 DEF NetInv, NumbersLead
  <2> QED BY <2>2, <2>3 DEF NumbersLead, NoShip
<1>10. Labelled'
  <2> SUFFICES ASSUME NEW r \in inflight, r.life = life
               PROVE  /\ r.session <= tid' /\ r.tid = r.session - 1
                      /\ \A p \in Owners : ship'[p].made = r.session => p = r.owner
    BY <1>6 DEF Labelled, NetInv
  <2>1. r \in Request /\ r.session \in Nat /\ r.session <= tid
    BY DEF NetInv, Typed, TypeOK, Labelled, Request
  <2> QED BY <1>1, <1>2, <2>1 DEF NetInv, Labelled
<1>11. Sleepers'
  BY <1>2, <1>3, <1>6 DEF NetInv, Sleepers, Owners
<1>12. OwnAnswers' /\ (Honest' => ~wild')
  BY <1>2, <1>6 DEF NetInv, OwnAnswers, Honest
<1> QED BY <1>7, <1>8, <1>9, <1>10, <1>11, <1>12 DEF NetInv

LEMMA NetSend == ASSUME NetInv, NEW o \in Owners, Send(o) PROVE NetInv'
<1> DEFINE new == [tid |-> ship[o].tid, owner |-> o, session |-> ship[o].made, life |-> life]
<1>1. /\ UNCHANGED <<tid, requests, ship, owner, life, wild>>
      /\ inflight' = inflight \cup {new} /\ owner[o] = "running"
  BY DEF Send
<1>2. /\ ship[o].made \in 1 .. MaxShips /\ ship[o].tid = ship[o].made - 1 /\ ship[o].made <= tid
      /\ ship[o].tid \in 0 .. MaxShips
  BY <1>1 DEF NetInv, Numbered, Typed, TypeOK, Ship
<1>3. new \in Request
  BY <1>2 DEF NetInv, Typed, Request
<1>4. Typed' /\ Numbered' /\ NumbersLead'
  BY <1>1, <1>3 DEF NetInv, Typed, TypeOK, Numbered, NumbersLead, Ship, Request, NoShip
<1>5. Labelled'
  <2>1. ASSUME NEW p \in Owners, ship[p].made = ship[o].made PROVE p = o
    BY <1>2, <2>1, InUse DEF NetInv, Numbered
  <2>2. new.life <= life /\ new.session <= tid /\ new.tid = new.session - 1
    BY <1>2 DEF NetInv, Typed
  <2> QED BY <1>1, <2>1, <2>2 DEF NetInv, Labelled
<1>6. Sleepers'
  BY <1>1 DEF NetInv, Sleepers
<1>7. OwnAnswers' /\ (Honest' => ~wild')
  BY <1>1 DEF NetInv, OwnAnswers, Honest
<1> QED BY <1>4, <1>5, <1>6, <1>7 DEF NetInv

(* Only a kship's queue and thread change, or who runs. *)
LEMMA NetQuietStep ==
  ASSUME NetInv, UNCHANGED <<tid, requests, inflight, life>>,
         ship' \in [Owners -> Ship], owner' \in [Owners -> {"idle", "running", "thread", "other", "woken"}],
         \A p \in Owners : /\ ship'[p].made = ship[p].made /\ ship'[p].tid = ship[p].tid
                           /\ (owner'[p] = "idle" <=> owner[p] = "idle")
                           /\ (ship[p] = NoShip => ship'[p] = NoShip),
         wild' \in BOOLEAN
  PROVE  Typed' /\ Numbered' /\ NumbersLead' /\ Labelled'
<1>1. Typed'
  <2>1. \A p \in Owners : ship'[p].queue \in Seq(Request) /\ ship'[p].thread \in {"unset", "set", "null"}
    BY DEF Ship
  <2> QED BY <2>1 DEF NetInv, Typed, TypeOK, Request
<1>2. Numbered'
  BY DEF NetInv, Numbered, NoShip
<1>3. NumbersLead'
  <2>1. \A n \in DOMAIN requests : requests[n] \in Owners
    BY DEF NetInv, Typed
  <2>2. \A p \in Owners : ship'[p] # NoShip => ship[p] # NoShip
    OBVIOUS
  <2> QED BY <2>1, <2>2 DEF NetInv, NumbersLead, NoShip
<1>4. Labelled'
  BY DEF NetInv, Labelled
<1> QED BY <1>1, <1>2, <1>3, <1>4

LEMMA NetReceive == ASSUME NetInv, NEW o \in Owners, Receive(o) PROVE NetInv'
<1>1. /\ UNCHANGED <<tid, requests, owner, inflight, life, wild>> /\ owner[o] = "running"
      /\ ship' = [ship EXCEPT ![o].queue = Tail(@)] /\ ship[o].queue # <<>>
      /\ ship[o] \in Ship /\ ship[o].queue \in Seq(Request)
  BY DEF Receive, NetInv, Typed, Ship
<1>2. /\ Tail(ship[o].queue) \in Seq(Request)
      /\ \A i \in DOMAIN Tail(ship[o].queue) :
           i + 1 \in DOMAIN ship[o].queue /\ Tail(ship[o].queue)[i] = ship[o].queue[i + 1]
  BY <1>1
<1>3. /\ ship' \in [Owners -> Ship] /\ \A p \in Owners \ {o} : ship'[p] = ship[p]
      /\ ship'[o].made = ship[o].made /\ ship'[o].tid = ship[o].tid /\ ship'[o].thread = ship[o].thread
      /\ ship'[o].queue = Tail(ship[o].queue)
  BY <1>1, <1>2 DEF NetInv, Typed, Ship
<1>4. ship[o] # NoShip
  BY <1>1 DEF NoShip
<1>5. Typed' /\ Numbered' /\ NumbersLead' /\ Labelled'
  BY <1>1, <1>3, <1>4, NetQuietStep DEF NetInv, Typed, TypeOK
<1>6. Sleepers'
  BY <1>1, <1>3 DEF NetInv, Sleepers, Owners
<1>7. OwnAnswers' /\ (Honest' => ~wild')
  <2> SUFFICES ASSUME Honest, NEW p \in Owners, NEW i \in DOMAIN ship'[p].queue
               PROVE  ship'[p].queue[i].owner = p /\ ship'[p].queue[i].session = ship'[p].made
    BY <1>1 DEF NetInv, OwnAnswers, Honest
  <2>1. CASE p = o
    <3>1. i \in DOMAIN Tail(ship[o].queue) /\ ship'[p].queue[i] = ship[o].queue[i + 1]
          /\ i + 1 \in DOMAIN ship[o].queue
      BY <1>2, <1>3, <2>1
    <3> QED BY <1>3, <2>1, <3>1 DEF NetInv, OwnAnswers
  <2>2. CASE p # o
    BY <1>3, <2>2 DEF NetInv, OwnAnswers
  <2> QED BY <2>1, <2>2
<1> QED BY <1>5, <1>6, <1>7 DEF NetInv

LEMMA NetSleep == ASSUME NetInv, NEW o \in Owners, Sleep(o) PROVE NetInv'
<1>1. /\ UNCHANGED <<tid, requests, inflight, life, wild>> /\ owner[o] = "running"
      /\ ship' = [ship EXCEPT ![o].thread = "set"] /\ ship[o].queue = <<>> /\ ship[o] \in Ship
      /\ owner' = [owner EXCEPT ![o] = IF o = Pingd THEN "thread" ELSE "other"]
  BY DEF Sleep, NetInv, Typed
<1>2. /\ ship' \in [Owners -> Ship] /\ \A p \in Owners \ {o} : ship'[p] = ship[p]
      /\ ship'[o].made = ship[o].made /\ ship'[o].tid = ship[o].tid /\ ship'[o].thread = "set"
      /\ ship'[o].queue = ship[o].queue
  BY <1>1 DEF NetInv, Typed, Ship
<1>3. /\ owner' \in [Owners -> {"idle", "running", "thread", "other", "woken"}]
      /\ \A p \in Owners : owner'[p] = IF p = o THEN IF o = Pingd THEN "thread" ELSE "other" ELSE owner[p]
  BY <1>1 DEF NetInv, Typed, TypeOK
<1>4. ship[o] # NoShip
  BY <1>1 DEF NetInv, Numbered, NoShip
<1>5. Typed' /\ Numbered' /\ NumbersLead' /\ Labelled'
  <2>1. wild' \in BOOLEAN
    BY <1>1 DEF NetInv, Typed
  <2>2. \A p \in Owners : (owner'[p] = "idle" <=> owner[p] = "idle")
    BY <1>1, <1>3
  <2> QED BY <1>1, <1>2, <1>3, <1>4, <2>1, <2>2, NetQuietStep
<1>6. Sleepers'
  BY <1>1, <1>2, <1>3 DEF NetInv, Sleepers, Owners
<1>7. OwnAnswers' /\ (Honest' => ~wild')
  BY <1>1, <1>2 DEF NetInv, OwnAnswers, Honest
<1> QED BY <1>5, <1>6, <1>7 DEF NetInv

LEMMA NetSleepIdle == ASSUME NetInv, SleepIdle PROVE NetInv'
<1>1. /\ UNCHANGED <<tid, requests, inflight, life, wild, ship>> /\ owner[Pingd] = "running"
      /\ owner' = [owner EXCEPT ![Pingd] = "other"]
      /\ ship[Pingd].thread = "unset" => \A r \in inflight : r.owner = Pingd => r.life # life
  BY DEF SleepIdle
<1>2. /\ owner' \in [Owners -> {"idle", "running", "thread", "other", "woken"}]
      /\ \A p \in Owners : owner'[p] = IF p = Pingd THEN "other" ELSE owner[p]
  BY <1>1 DEF NetInv, Typed, TypeOK, Owners
<1>3. Typed' /\ Numbered' /\ NumbersLead' /\ Labelled'
  BY <1>1, <1>2, NetQuietStep DEF NetInv, Typed
<1>4. Sleepers'
  BY <1>1, <1>2 DEF NetInv, Sleepers, Owners
<1>5. OwnAnswers' /\ (Honest' => ~wild')
  BY <1>1 DEF NetInv, OwnAnswers, Honest
<1> QED BY <1>3, <1>4, <1>5 DEF NetInv

LEMMA NetResume == ASSUME NetInv, NEW o \in Owners, Resume(o) PROVE NetInv'
<1>1. /\ UNCHANGED <<tid, requests, inflight, life, wild, ship>> /\ owner[o] \in {"thread", "other", "woken"}
      /\ owner' = [owner EXCEPT ![o] = "running"]
  BY DEF Resume
<1>2. /\ owner' \in [Owners -> {"idle", "running", "thread", "other", "woken"}]
      /\ \A p \in Owners : owner'[p] = IF p = o THEN "running" ELSE owner[p]
  BY <1>1 DEF NetInv, Typed, TypeOK
<1>3. Typed' /\ Numbered' /\ NumbersLead' /\ Labelled'
  BY <1>1, <1>2, NetQuietStep DEF NetInv, Typed
<1>4. Sleepers'
  BY <1>1, <1>2 DEF NetInv, Sleepers, Owners
<1>5. OwnAnswers' /\ (Honest' => ~wild')
  BY <1>1 DEF NetInv, OwnAnswers, Honest
<1> QED BY <1>3, <1>4, <1>5 DEF NetInv

LEMMA NetDelete == ASSUME NetInv, NEW o \in Owners, Delete(o) PROVE NetInv'
<1>1. /\ UNCHANGED <<tid, inflight, life, wild>> /\ owner[o] = "running" /\ o # Pingd
      /\ ship' = [ship EXCEPT ![o] = NoShip] /\ owner' = [owner EXCEPT ![o] = "idle"]
  BY DEF Delete
<1>2. /\ ship' \in [Owners -> Ship]
      /\ \A p \in Owners : ship'[p] = IF p = o THEN NoShip ELSE ship[p]
      /\ owner' \in [Owners -> {"idle", "running", "thread", "other", "woken"}]
      /\ \A p \in Owners : owner'[p] = IF p = o THEN "idle" ELSE owner[p]
  <2>1. NoShip \in Ship
    BY DEF NoShip, Ship
  <2> QED BY <1>1, <2>1 DEF NetInv, Typed, TypeOK
<1>3. /\ DOMAIN requests' = DOMAIN requests \ {ship[o].tid}
      /\ \A n \in DOMAIN requests' : requests'[n] = requests[n]
  BY DEF Delete
<1>4. ship[o].made # 0
  BY <1>1 DEF NetInv, Numbered
<1>5. \A p \in Owners : p # o /\ ship[p].made # 0 => ship[p].tid # ship[o].tid
  BY <1>4, InUse
<1>6. Typed'
  <2>1. \A p \in Owners : ship'[p].queue \in Seq(Request) /\ ship'[p].thread \in {"unset", "set", "null"}
    BY <1>2 DEF Ship
  <2> QED BY <1>1, <1>2, <1>3, <2>1 DEF NetInv, Typed, TypeOK, Request
<1>7. Numbered'
  BY <1>1, <1>2 DEF NetInv, Numbered, NoShip
<1>8. NumbersLead'
  <2>1. ASSUME NEW n \in DOMAIN requests' PROVE ship'[requests'[n]].tid = n
    <3>1. n \in DOMAIN requests /\ n # ship[o].tid /\ requests'[n] = requests[n]
      BY <1>3
    <3>2. requests[n] \in Owners /\ ship[requests[n]].tid = n
      BY <3>1 DEF NetInv, Typed, NumbersLead
    <3> QED BY <1>2, <3>1, <3>2
  <2>2. ASSUME NEW p \in Owners, ship'[p] # NoShip
        PROVE  ship'[p].tid \in DOMAIN requests' /\ requests'[ship'[p].tid] = p
    <3>1. p # o /\ ship'[p] = ship[p]
      BY <1>2, <2>2
    <3>2. ship[p].tid \in DOMAIN requests /\ requests[ship[p].tid] = p /\ ship[p].made # 0
      BY <2>2, <3>1 DEF NetInv, NumbersLead, Numbered
    <3> QED BY <1>3, <1>5, <3>1, <3>2
  <2> QED BY <2>1, <2>2 DEF NumbersLead, NoShip
<1>9. Labelled'
  <2>1. \A r \in inflight : r.session # 0
    BY DEF NetInv, Typed, TypeOK, Request
  <2>2. \A p \in Owners, r \in inflight : ship'[p].made = r.session => ship[p].made = r.session
    BY <1>2, <2>1 DEF NoShip
  <2> QED BY <1>1, <2>2 DEF NetInv, Labelled
<1>10. Sleepers'
  BY <1>1, <1>2 DEF NetInv, Sleepers, Owners, NoShip
<1>11. OwnAnswers' /\ (Honest' => ~wild')
  BY <1>1, <1>2 DEF NetInv, OwnAnswers, Honest, NoShip
<1> QED BY <1>6, <1>7, <1>8, <1>9, <1>10, <1>11 DEF NetInv

(* With its own number an answer finds the kship that asked. *)
LEMMA Finds ==
  ASSUME NetInv, NEW r \in inflight, r.life = life, r.tid \in DOMAIN requests
  PROVE  requests[r.tid] = r.owner /\ ship[r.owner].made = r.session
<1>1. r \in Request /\ r.session \in Nat /\ r.tid = r.session - 1
  BY DEF NetInv, Typed, TypeOK, Request, Labelled
<1>2. requests[r.tid] \in Owners /\ ship[requests[r.tid]].made = r.session
  BY <1>1, InUse
<1> QED BY <1>2 DEF NetInv, Labelled

LEMMA NetResponse ==
  ASSUME NetInv, NEW r \in inflight, NEW id \in Transids(r), Response(r, id)
  PROVE  NetInv'
<1>1. UNCHANGED <<tid, requests, inflight, life>> /\ r \in Request
  BY DEF Response, NetInv, Typed, TypeOK
<1>2. CASE id \notin DOMAIN requests
  <2>1. UNCHANGED <<ship, owner, wild>>
    BY <1>2 DEF Response
  <2>2. Typed' /\ Numbered' /\ NumbersLead' /\ Labelled'
    BY <1>1, <2>1, NetQuietStep DEF NetInv, Typed, TypeOK
  <2> QED BY <1>1, <2>1, <2>2 DEF NetInv, Sleepers, OwnAnswers, Honest
<1>3. CASE id \in DOMAIN requests
  <2> DEFINE o == requests[id]
             q == ship[o].queue
             wakes == ship[o].thread = "set" /\ owner[o] = "thread"
  <2>1. /\ o \in Owners /\ ship[o].made # 0 /\ ship[o] # NoShip /\ ship[o] \in Ship /\ owner[o] # "running"
        /\ owner[o] # "idle"
    BY <1>3, InUse DEF Response, Quiet, NetInv, Typed, NoShip, Numbered
  <2>2. /\ ship' = [ship EXCEPT ![o].queue = Append(@, r), ![o].thread = "null"]
        /\ owner' = (IF wakes THEN [owner EXCEPT ![o] = "woken"] ELSE owner)
        /\ wild' = (wild \/ ship[o].thread = "unset")
    BY <1>3 DEF Response
  <2>3. /\ q \in Seq(Request) /\ Append(q, r) \in Seq(Request)
        /\ \A i \in DOMAIN Append(q, r) :
             (i \in DOMAIN q /\ Append(q, r)[i] = q[i]) \/ Append(q, r)[i] = r
    BY <1>1, <2>1 DEF Ship
  <2>4. /\ ship' \in [Owners -> Ship] /\ \A p \in Owners \ {o} : ship'[p] = ship[p]
        /\ ship'[o].made = ship[o].made /\ ship'[o].tid = ship[o].tid /\ ship'[o].thread = "null"
        /\ ship'[o].queue = Append(q, r)
    BY <2>1, <2>2, <2>3 DEF NetInv, Typed, Ship
  <2>5. /\ owner' \in [Owners -> {"idle", "running", "thread", "other", "woken"}]
        /\ \A p \in Owners : owner'[p] = IF p = o /\ wakes THEN "woken" ELSE owner[p]
    BY <2>1, <2>2 DEF NetInv, Typed, TypeOK
  <2>6. Typed' /\ Numbered' /\ NumbersLead' /\ Labelled'
    <3>1. wild' \in BOOLEAN
      BY <2>2 DEF NetInv, Typed
    <3>2. \A p \in Owners : (owner'[p] = "idle" <=> owner[p] = "idle")
      BY <2>1, <2>5
    <3> QED BY <1>1, <2>1, <2>4, <2>5, <3>1, <3>2, NetQuietStep
  <2>7. Sleepers'
    <3>1. \A p \in Lookups : owner'[p] \notin {"thread", "woken"} /\ (owner'[p] # "running" => ship'[p].thread # "unset")
      BY <2>1, <2>4, <2>5 DEF NetInv, Sleepers, Owners
    <3>2. owner'[Pingd] = "thread" => ship'[Pingd].thread = "set" /\ ship'[Pingd].queue = <<>>
      BY <2>1, <2>4, <2>5 DEF NetInv, Sleepers, Owners
    <3>3. owner'[Pingd] # "running" /\ ship'[Pingd].thread = "unset" => \A x \in inflight : x.owner = Pingd => x.life # life
      BY <2>1, <2>4, <2>5 DEF NetInv, Sleepers, Owners
    <3> QED BY <1>1, <3>1, <3>2, <3>3 DEF Sleepers
  <2>8. OwnAnswers' /\ (Honest' => ~wild')
    <3> SUFFICES ASSUME Honest PROVE OwnAnswers' /\ ~wild'
      BY <1>1 DEF OwnAnswers, Honest
    <3>1. id = r.tid /\ r.life = life
      BY <1>1 DEF Transids, Honest, Request, NetInv, Labelled
    <3>2. o = r.owner /\ ship[o].made = r.session
      BY <1>3, <3>1, Finds
    <3>3. ~wild'
      BY <2>1, <2>2, <3>1, <3>2 DEF NetInv, Sleepers, Owners
    <3>4. ASSUME NEW p \in Owners, NEW i \in DOMAIN ship'[p].queue
          PROVE  ship'[p].queue[i].owner = p /\ ship'[p].queue[i].session = ship'[p].made
      <4>1. CASE p = o
        <5>1. (i \in DOMAIN q /\ ship'[p].queue[i] = q[i]) \/ ship'[p].queue[i] = r
          BY <2>3, <2>4, <3>4, <4>1
        <5> QED BY <2>1, <2>4, <3>2, <4>1, <5>1 DEF NetInv, OwnAnswers
      <4>2. CASE p # o
        BY <2>4, <3>4, <4>2 DEF NetInv, OwnAnswers
      <4> QED BY <4>1, <4>2
    <3> QED BY <3>3, <3>4 DEF OwnAnswers
  <2> QED BY <2>6, <2>7, <2>8 DEF NetInv
<1> QED BY <1>2, <1>3

LEMMA NetRestart == ASSUME NetInv, Restart PROVE NetInv'
<1>1. /\ tid' = 0 /\ UNCHANGED <<inflight, wild>> /\ life' = life + 1 /\ life' \in 0 .. MaxRestarts
      /\ ship' = [o \in Owners |-> NoShip] /\ owner' = [o \in Owners |-> "idle"] /\ requests' = <<>>
      /\ life \in Nat /\ 0 \in 0 .. MaxShips
  BY DEF Restart, NetInv, Typed, TypeOK
<1>2. DOMAIN requests' = {}
  BY <1>1
<1>3. ship' \in [Owners -> Ship] /\ NoShip \in Ship
  <2>1. NoShip \in Ship
    BY DEF NoShip, Ship
  <2> QED BY <1>1, <2>1
<1>4. Typed'
  <2>1. \A p \in Owners : ship'[p].queue \in Seq(Request) /\ ship'[p].thread \in {"unset", "set", "null"}
    BY <1>3 DEF Ship
  <2>2. owner' \in [Owners -> {"idle", "running", "thread", "other", "woken"}]
    BY <1>1
  <2> QED BY <1>1, <1>2, <1>3, <2>1, <2>2 DEF NetInv, Typed, TypeOK, Request
<1>5. Numbered' /\ NumbersLead'
  BY <1>1, <1>2 DEF Numbered, NumbersLead, NoShip
<1>6. \A r \in inflight : r.life < life'
  BY <1>1 DEF NetInv, Labelled, Typed, TypeOK, Request
<1>7. Labelled'
  BY <1>1, <1>6 DEF Labelled, NetInv, Typed, TypeOK, Request
<1>8. Sleepers'
  BY <1>1 DEF Sleepers, NoShip, Owners
<1>9. OwnAnswers' /\ (Honest' => ~wild')
  BY <1>1 DEF OwnAnswers, Honest
<1> QED BY <1>4, <1>5, <1>7, <1>8, <1>9 DEF NetInv

LEMMA StepNet == NetInv /\ [Next]_vars => NetInv'
<1> SUFFICES ASSUME NetInv, [Next]_vars PROVE NetInv'
  OBVIOUS
<1>1. ASSUME NEW o \in Owners, NewShip(o) \/ Send(o) \/ Receive(o) \/ Sleep(o) \/ Resume(o) \/ Delete(o)
      PROVE  NetInv'
  BY <1>1, NetNewShip, NetSend, NetReceive, NetSleep, NetResume, NetDelete
<1>2. CASE SleepIdle
  BY <1>2, NetSleepIdle
<1>3. CASE Restart
  BY <1>3, NetRestart
<1>4. ASSUME NEW r \in inflight, NEW id \in Transids(r), Response(r, id) PROVE NetInv'
  BY <1>4, NetResponse
<1>5. CASE UNCHANGED vars
  <2>1. Typed' /\ Numbered' /\ NumbersLead' /\ Labelled'
    BY <1>5, NetQuietStep DEF vars, NetInv, Typed, TypeOK
  <2> QED BY <1>5, <2>1 DEF vars, NetInv, Sleepers, OwnAnswers, Honest
<1> QED BY <1>1, <1>2, <1>3, <1>4, <1>5 DEF Next

(* Every number in use leads to the kship that has it, and to what it asked *)
(* for: the invariant all that follows rests on (transfer.cc).              *)
THEOREM NetInvariant == Spec => []NetInv
BY InitNet, StepNet, PTL DEF Spec

-----------------------------------------------------------------------------

(* The types of the numbers, the kships and the requests. *)
THEOREM TypeCorrect == Spec => []TypeOK
<1>1. NetInv => TypeOK
  BY DEF NetInv, Typed
<1> QED BY NetInvariant, <1>1, PTL

(* get_kship(), ~kship(): a number in use leads to the kship that has it.   *)
THEOREM NumbersLeadHolds == Spec => []NumbersLead
<1>1. NetInv => NumbersLead
  BY DEF NetInv
<1> QED BY NetInvariant, <1>1, PTL

(* kship::binput(): what a kship has to read are answers to its requests.   *)
THEOREM OwnAnswersHolds == Spec => []OwnAnswers
<1>1. NetInv => OwnAnswers
  BY DEF NetInv
<1> QED BY NetInvariant, <1>1, PTL

(* transfer.cc:95: b_thread is never read before it is set, but for pingd's *)
(* after a restart or with a long transaction id.                           *)
THEOREM NoWildWakeHolds == Spec => []NoWildWake
<1>1. NetInv => NoWildWake
  BY DEF NetInv, Sleepers, NoWildWake
<1> QED BY NetInvariant, <1>1, PTL

(* pingd sleeps on itself only with nothing to read. *)
THEOREM PingdHearsHolds == Spec => []PingdHears
<1>1. NetInv => PingdHears
  BY DEF NetInv, Sleepers, PingdHears
<1> QED BY NetInvariant, <1>1, PTL

-----------------------------------------------------------------------------
(* The refinement.  A request is to Kmail its owner and session.            *)

Letter(r) == [owner |-> r.owner, session |-> r.session]
Letters(q) == [i \in DOMAIN q |-> Letter(q[i])]

Sessions == [o \in Owners |-> ship[o].made]
Asked == {Letter(r) : r \in inflight}
Boxes == [o \in Owners |-> Letters(ship[o].queue)]

AnyLetter == [owner : Owners, session : 1 .. MaxShips]

LEMMA LettersType ==
  ASSUME NEW q \in Seq(Request)
  PROVE  /\ Letters(q) \in Seq(AnyLetter) /\ Len(Letters(q)) = Len(q) /\ Len(q) \in Nat
         /\ \A i \in 1 .. Len(q) : Letters(q)[i] = Letter(q[i])
<1>1. /\ DOMAIN q = 1 .. Len(q) /\ Len(q) \in Nat
      /\ \A i \in 1 .. Len(q) : q[i] \in Request
  OBVIOUS
<1>2. \A x \in Request : Letter(x) \in AnyLetter
  BY DEF Letter, Request, AnyLetter
<1>3. Letters(q) = [i \in 1 .. Len(q) |-> Letter(q[i])]
  BY <1>1 DEF Letters
<1>4. Letters(q) \in [1 .. Len(q) -> AnyLetter]
  BY <1>1, <1>2, <1>3
<1>5. Letters(q) \in Seq(AnyLetter) /\ Len(Letters(q)) = Len(q)
  BY <1>1, <1>4
<1> QED BY <1>1, <1>3, <1>5

LEMMA SameSeq ==
  ASSUME NEW S, NEW a \in Seq(S), NEW b \in Seq(S), Len(a) = Len(b), \A i \in 1 .. Len(a) : a[i] = b[i]
  PROVE  a = b
<1>1. a \in [1 .. Len(a) -> S] /\ b \in [1 .. Len(a) -> S]
  OBVIOUS
<1> QED BY <1>1

LEMMA LettersAppend ==
  ASSUME NEW q \in Seq(Request), NEW r \in Request
  PROVE  Letters(Append(q, r)) = Append(Letters(q), Letter(r))
<1> DEFINE p == Append(q, r)
           a == Letters(p)
           b == Append(Letters(q), Letter(r))
<1>1. Letter(r) \in AnyLetter
  BY DEF Letter, Request, AnyLetter
<1>2. /\ p \in Seq(Request) /\ Len(p) = Len(q) + 1
      /\ \A i \in 1 .. Len(q) + 1 : p[i] = IF i <= Len(q) THEN q[i] ELSE r
  OBVIOUS
<1>3. a \in Seq(AnyLetter) /\ Len(a) = Len(q) + 1 /\ \A i \in 1 .. Len(q) + 1 : a[i] = Letter(p[i])
  BY <1>2, LettersType
<1>4. /\ b \in Seq(AnyLetter) /\ Len(b) = Len(q) + 1
      /\ \A i \in 1 .. Len(q) + 1 : b[i] = IF i <= Len(q) THEN Letters(q)[i] ELSE Letter(r)
  BY <1>1, LettersType
<1>5. ASSUME NEW i \in 1 .. Len(a) PROVE a[i] = b[i]
  <2>1. i \in 1 .. Len(q) + 1
    BY <1>3
  <2>2. CASE i <= Len(q)
    <3>1. i \in 1 .. Len(q) /\ p[i] = q[i] /\ b[i] = Letters(q)[i] /\ a[i] = Letter(p[i])
      BY <1>2, <1>3, <1>4, <2>1, <2>2
    <3> HIDE DEF p, a, b
    <3> QED BY <3>1, LettersType
  <2>3. CASE ~(i <= Len(q))
    BY <1>2, <1>3, <1>4, <2>1, <2>3
  <2> QED BY <2>2, <2>3
<1> HIDE DEF p, a, b
<1>6. a = b
  BY <1>3, <1>4, <1>5, SameSeq
<1> QED BY <1>6 DEF p, a, b

LEMMA LettersTail ==
  ASSUME NEW q \in Seq(Request), q # <<>>
  PROVE  Letters(Tail(q)) = Tail(Letters(q)) /\ Letters(q) # <<>>
<1> DEFINE p == Tail(q)
           a == Letters(p)
           b == Tail(Letters(q))
<1>1. Len(q) > 0 /\ Len(q) \in Nat
  OBVIOUS
<1>2. /\ p \in Seq(Request) /\ Len(p) = Len(q) - 1
      /\ \A i \in 1 .. Len(q) - 1 : p[i] = q[i + 1]
  BY SMTT(30)
<1>3. a \in Seq(AnyLetter) /\ Len(a) = Len(q) - 1 /\ \A i \in 1 .. Len(q) - 1 : a[i] = Letter(p[i])
  BY <1>2, LettersType
<1>4. Letters(q) \in Seq(AnyLetter) /\ Len(Letters(q)) = Len(q) /\ Letters(q) # <<>>
  BY <1>1, LettersType
<1>5. b \in Seq(AnyLetter) /\ Len(b) = Len(q) - 1 /\ \A i \in 1 .. Len(q) - 1 : b[i] = Letters(q)[i + 1]
  BY <1>1, <1>4
<1>6. ASSUME NEW i \in 1 .. Len(a) PROVE a[i] = b[i]
  <2>1. i \in 1 .. Len(q) - 1 /\ i + 1 \in 1 .. Len(q)
    BY <1>1, <1>3
  <2>2. a[i] = Letter(q[i + 1]) /\ b[i] = Letters(q)[i + 1]
    BY <1>2, <1>3, <1>5, <2>1
  <2> HIDE DEF p, a, b
  <2> QED BY <2>1, <2>2, LettersType
<1> HIDE DEF p, a, b
<1>7. a = b
  BY <1>3, <1>5, <1>6, SameSeq
<1> QED BY <1>4, <1>7 DEF p, a, b

(* The actions of Kmail in these terms. *)
LEMMA MailOpen ==
  ASSUME NEW o \in Owners, Sessions[o] = 0, tid' = tid + 1,
         Sessions' = [Sessions EXCEPT ![o] = tid'], Asked' = Asked, Boxes' = Boxes
  PROVE  Mail!Open(o)
BY DEF Mail!Open, Sessions, Asked, Boxes, Letters, Letter

LEMMA MailAsk ==
  ASSUME NEW o \in Owners, Sessions[o] # 0, tid' = tid, Sessions' = Sessions, Boxes' = Boxes,
         Asked' = Asked \cup {[owner |-> o, session |-> Sessions[o]]}
  PROVE  Mail!Ask(o)
BY DEF Mail!Ask, Sessions, Asked, Boxes, Letters, Letter

LEMMA MailAnswer ==
  ASSUME NEW r, tid' = tid, Sessions' = Sessions, Asked' = Asked,
         Boxes' = IF Sessions[r.owner] = r.session
                  THEN [Boxes EXCEPT ![r.owner] = Append(@, r)] ELSE Boxes
  PROVE  Mail!Answer(r)
BY DEF Mail!Answer, Sessions, Asked, Boxes, Letters, Letter

LEMMA MailRead ==
  ASSUME NEW o \in Owners, Boxes[o] # <<>>, tid' = tid, Sessions' = Sessions, Asked' = Asked,
         Boxes' = [Boxes EXCEPT ![o] = Tail(@)]
  PROVE  Mail!Read(o)
BY DEF Mail!Read, Sessions, Asked, Boxes, Letters, Letter

LEMMA MailClose ==
  ASSUME NEW o \in Owners, Sessions[o] # 0, tid' = tid, Asked' = Asked,
         Sessions' = [Sessions EXCEPT ![o] = 0], Boxes' = [Boxes EXCEPT ![o] = <<>>]
  PROVE  Mail!Close(o)
BY DEF Mail!Close, Sessions, Asked, Boxes, Letters, Letter

LEMMA MailStutter ==
  ASSUME tid' = tid, Sessions' = Sessions, Asked' = Asked, Boxes' = Boxes
  PROVE  UNCHANGED Mail!vars
BY DEF Mail!vars, Sessions, Asked, Boxes, Letters, Letter


LEMMA NoLetters == Letters(<<>>) = <<>>
<1>1. <<>> \in Seq(Request) /\ <<>> \in Seq(AnyLetter) /\ Len(<<>>) = 0
  OBVIOUS
<1>2. Letters(<<>>) \in Seq(AnyLetter) /\ Len(Letters(<<>>)) = 0
  BY <1>1, LettersType
<1> QED BY <1>2

(* Every step of Knet is one of Kmail or none. *)
LEMMA MailStep ==
  ASSUME MaxRestarts = 0, LongIds = FALSE, NetInv, [Next]_vars
  PROVE  [Mail!Next]_(Mail!vars)
<1> USE DEF Sessions, Asked, Boxes
<1>1. /\ ship \in [Owners -> Ship] /\ life = 0
      /\ \A o \in Owners : ship[o].queue \in Seq(Request) /\ ship[o].made \in Nat
  BY DEF NetInv, Typed, Ship
<1>2. ASSUME NEW o \in Owners, NewShip(o) PROVE Mail!Open(o)
  <2>1. ship' = [ship EXCEPT ![o] = Kship(tid)] /\ tid' = tid + 1 /\ inflight' = inflight /\ ship[o] = NoShip
    BY <1>2 DEF NewShip
  <2>2. Kship(tid).made = tid + 1 /\ Kship(tid).queue = <<>> /\ ship[o].made = 0 /\ ship[o].queue = <<>>
    BY <2>1 DEF Kship, NoShip
  <2>3. Sessions[o] = 0 /\ Sessions' = [Sessions EXCEPT ![o] = tid']
    BY <1>1, <2>1, <2>2
  <2>4. Asked' = Asked /\ Boxes' = Boxes
    BY <1>1, <2>1, <2>2 DEF Letters, Letter
  <2> QED BY <2>1, <2>3, <2>4, MailOpen
<1>3. ASSUME NEW o \in Owners, Send(o) PROVE Mail!Ask(o)
  <2> DEFINE new == [tid |-> ship[o].tid, owner |-> o, session |-> ship[o].made, life |-> life]
  <2>1. UNCHANGED <<tid, ship>> /\ inflight' = inflight \cup {new} /\ owner[o] = "running"
    BY <1>3 DEF Send
  <2>2. Sessions[o] # 0 /\ Sessions[o] = ship[o].made
    BY <2>1 DEF NetInv, Numbered
  <2>3. Letter(new) = [owner |-> o, session |-> Sessions[o]]
    BY <2>2 DEF Letter
  <2>4. Asked' = Asked \cup {Letter(new)}
    BY <2>1
  <2> QED BY <2>1, <2>2, <2>3, <2>4, MailAsk
<1>4. ASSUME NEW o \in Owners, Receive(o) PROVE Mail!Read(o)
  <2>1. /\ ship' = [ship EXCEPT ![o].queue = Tail(@)] /\ ship[o].queue # <<>>
        /\ tid' = tid /\ inflight' = inflight
    BY <1>4 DEF Receive
  <2>2. \A p \in Owners : ship'[p].made = ship[p].made
    BY <1>1, <2>1 DEF Ship
  <2>3. ship'[o].queue = Tail(ship[o].queue) /\ \A p \in Owners \ {o} : ship'[p] = ship[p]
    BY <1>1, <2>1 DEF Ship
  <2>4. Letters(Tail(ship[o].queue)) = Tail(Letters(ship[o].queue)) /\ Letters(ship[o].queue) # <<>>
    BY <1>1, <2>1, LettersTail
  <2>5. Boxes[o] # <<>> /\ Boxes' = [Boxes EXCEPT ![o] = Tail(@)]
    BY <2>3, <2>4
  <2>6. Sessions' = Sessions /\ Asked' = Asked
    BY <2>1, <2>2
  <2> QED BY <2>1, <2>5, <2>6, MailRead
<1>5. ASSUME NEW o \in Owners, Delete(o) PROVE Mail!Close(o)
  <2>1. ship' = [ship EXCEPT ![o] = NoShip] /\ tid' = tid /\ inflight' = inflight /\ owner[o] = "running"
    BY <1>5 DEF Delete
  <2>2. ship'[o] = NoShip /\ \A p \in Owners \ {o} : ship'[p] = ship[p]
    BY <1>1, <2>1
  <2>3. Sessions[o] # 0
    BY <2>1 DEF NetInv, Numbered
  <2>4. ship'[o].made = 0 /\ ship'[o].queue = <<>>
    BY <2>2 DEF NoShip
  <2>5. Sessions' = [Sessions EXCEPT ![o] = 0] /\ Asked' = Asked
    <3>1. \A p \in Owners : ship'[p].made = IF p = o THEN 0 ELSE ship[p].made
      BY <2>2, <2>4
    <3>2. Sessions' = [Sessions EXCEPT ![o] = 0]
      BY <3>1
    <3> QED BY <2>1, <3>2
  <2>6. Boxes' = [Boxes EXCEPT ![o] = <<>>]
    BY <2>2, <2>4, NoLetters
  <2> QED BY <2>1, <2>3, <2>5, <2>6, MailClose
<1>6. ASSUME NEW r \in inflight, NEW id \in Transids(r), Response(r, id) PROVE Mail!Answer(Letter(r))
  <2>1. /\ id = r.tid /\ r.life = life /\ r \in Request /\ r.session \in Nat /\ r.session # 0
        /\ r.owner \in Owners /\ r.tid = r.session - 1
    BY <1>1 DEF Transids, NetInv, Typed, TypeOK, Request, Labelled
  <2>2. tid' = tid /\ Asked' = Asked
    BY <1>6 DEF Response
  <2>3. Letter(r).owner = r.owner /\ Letter(r).session = r.session
    BY DEF Letter
  <2>4. CASE id \in DOMAIN requests
    <3>1. requests[id] = r.owner /\ ship[r.owner].made = r.session
      BY <2>1, <2>4, Finds
    <3>2. ship' = [ship EXCEPT ![r.owner].queue = Append(@, r), ![r.owner].thread = "null"]
      BY <1>6, <2>4, <3>1 DEF Response
    <3>3. /\ \A p \in Owners : ship'[p].made = ship[p].made
          /\ \A p \in Owners \ {r.owner} : ship'[p] = ship[p]
          /\ ship'[r.owner].queue = Append(ship[r.owner].queue, r)
      BY <1>1, <2>1, <3>2 DEF Ship
    <3>4. Letters(Append(ship[r.owner].queue, r)) = Append(Letters(ship[r.owner].queue), Letter(r))
      BY <1>1, <2>1, LettersAppend
    <3>5. Boxes' = [Boxes EXCEPT ![r.owner] = Append(@, Letter(r))]
      BY <2>1, <3>3, <3>4
    <3>6. Sessions' = Sessions /\ Sessions[r.owner] = r.session
      BY <2>1, <3>1, <3>3
    <3> QED BY <2>2, <2>3, <3>5, <3>6, MailAnswer
  <2>5. CASE id \notin DOMAIN requests
    <3>1. ship' = ship
      BY <1>6, <2>5 DEF Response
    <3>2. ship[r.owner].made # r.session
      BY <2>1, <2>5, InUse DEF NetInv, Numbered
    <3>3. Sessions' = Sessions /\ Boxes' = Boxes /\ Sessions[r.owner] # r.session
      BY <2>1, <3>1, <3>2
    <3> QED BY <2>2, <2>3, <3>3, MailAnswer
  <2> QED BY <2>4, <2>5
<1>7. ASSUME UNCHANGED <<tid, inflight>>, \A p \in Owners : ship'[p].made = ship[p].made /\ ship'[p].queue = ship[p].queue
      PROVE  UNCHANGED Mail!vars
  <2>1. Sessions' = Sessions /\ Asked' = Asked /\ Boxes' = Boxes
    BY <1>7
  <2> QED BY <1>7, <2>1, MailStutter
<1>8. ASSUME NEW o \in Owners, Sleep(o) PROVE UNCHANGED Mail!vars
  <2>1. UNCHANGED <<tid, inflight>> /\ ship' = [ship EXCEPT ![o].thread = "set"]
    BY <1>8 DEF Sleep
  <2>2. \A p \in Owners : ship'[p].made = ship[p].made /\ ship'[p].queue = ship[p].queue
    BY <1>1, <2>1 DEF Ship
  <2> QED BY <1>7, <2>1, <2>2
<1>9. ASSUME NEW o \in Owners, Resume(o) PROVE UNCHANGED Mail!vars
  BY <1>7, <1>9 DEF Resume
<1>10. CASE SleepIdle
  BY <1>7, <1>10 DEF SleepIdle
<1>11. CASE UNCHANGED vars
  BY <1>7, <1>11 DEF vars
<1>12. ~Restart
  BY <1>1 DEF Restart
<1> QED BY <1>2, <1>3, <1>4, <1>5, <1>6, <1>8, <1>9, <1>10, <1>11, <1>12 DEF Next, Mail!Next, Letter

(* With a single life and honest ids the numbers implement Kmail: every     *)
(* answer goes to the session it was asked in, or to nobody.                *)
THEOREM MailImplemented ==
  ASSUME MaxRestarts = 0, LongIds = FALSE
  PROVE  Spec => ImplementsMail
<1>1. Init => Mail!Init
  BY NoLetters DEF Init, Mail!Init, NoShip, Letters, Letter
<1>2. NetInv /\ [Next]_vars => [Mail!Next]_(Mail!vars)
  BY MailStep
<1> QED BY NetInvariant, <1>1, <1>2, PTL DEF Spec, ImplementsMail, Mail!Spec

(* Numbers and kships agree, answers come to who asked, and nobody is woken *)
(* through a pointer that was never set, as far as Honest says.             *)
THEOREM NumbersSoundHolds == Spec => []NumbersSound
BY NumbersLeadHolds, OwnAnswersHolds, NoWildWakeHolds, PingdHearsHolds, PTL DEF NumbersSound

-----------------------------------------------------------------------------
(* The sockets of the node, as long as send() does not fail.               *)

HIDE KnetAssumption

CONSTANTS MaxFd, MaxConns, Slow, Gone

VARIABLES sock, bqueue, readfds, writefds, thread, state, timer, open, backlog, data, packet,
          conns, crashed

Net == INSTANCE Bsocket

(* The thread that waits for s, and what a thread may wait for. *)
Owner(s) == IF s = "udp" THEN "bdhtnet" ELSE "serviced"

SockType ==
  [fd : Int, flag : SUBSET {"read", "write", "queue"}, jrd : {"serviced", "bdhtnet", "none"},
   jwr : {"serviced", "bdhtnet", "none"}]

On(t) == IF t = "bdhtnet" THEN {<<"none", "none">>, <<"udp", "read">>}
         ELSE {<<"none", "none">>, <<"lookup", "none">>, <<"listener", "read">>, <<"client", "read">>}
ThreadsOk(th) ==
  /\ th \in [Net!Threads -> [run : {"running", "ready", "asleep"}, on : On("bdhtnet") \cup On("serviced")]]
  /\ \A t \in Net!Threads : th[t].on \in On(t)

(* Whose thread waits for s; a socket waited on, and one that is not. *)
WaitsIn(th, s) == th[Owner(s)].run = "asleep" /\ th[Owner(s)].on = <<s, "read">>
Watched(r, s) == r.flag = {"read", "queue"} /\ r.jrd = Owner(s) /\ r.jwr = "none"
Unwatched(r) == r.flag = {} /\ r.jrd = "none" /\ r.jwr = "none"

(* The record of the runtime between two calls, and inside a pass. *)
NowType ==
  [sock : [Net!Socks -> SockType], bqueue : Seq(Net!Socks), readfds : SUBSET Int, writefds : SUBSET Int,
   thread : {th \in [Net!Threads -> [run : {"running", "ready", "asleep"},
                                      on : On("bdhtnet") \cup On("serviced")]] : ThreadsOk(th)}]
PassType ==
  [sock : [Net!Socks -> SockType], bqueue : Seq(Net!Socks), readfds : SUBSET Int, writefds : SUBSET Int,
   thread : {th \in [Net!Threads -> [run : {"running", "ready", "asleep"},
                                      on : On("bdhtnet") \cup On("serviced")]] : ThreadsOk(th)},
   canRead : SUBSET Int, canWrite : SUBSET Int, count : Int]

(* q_read() by the owner of a socket that is not waited on. *)
LEMMA QReadIs ==
  ASSUME NEW st, st \in NowType \/ st \in PassType, NEW s \in Net!Socks,
         st.sock[s].flag = {}, NEW T, T = Net!QRead(st, s, Owner(s))
  PROVE  /\ st \in NowType => T \in NowType
         /\ st \in PassType => T \in PassType /\ T.canRead = st.canRead /\ T.canWrite = st.canWrite
                               /\ T.count = st.count
         /\ T.readfds = st.readfds \cup {st.sock[s].fd} /\ T.writefds = st.writefds
         /\ T.bqueue = Append(st.bqueue, s)
         /\ T.sock[s].fd = st.sock[s].fd /\ T.sock[s].flag = {"read", "queue"}
         /\ T.sock[s].jrd = Owner(s) /\ T.sock[s].jwr = st.sock[s].jwr
         /\ \A r \in Net!Socks \ {s} : T.sock[r] = st.sock[r]
         /\ \A t \in Net!Threads \ {Owner(s)} : T.thread[t] = st.thread[t]
         /\ T.thread[Owner(s)] = IF st.thread[Owner(s)].run = "asleep" THEN st.thread[Owner(s)]
                                 ELSE [run |-> "asleep", on |-> <<s, "read">>]
<1>1. PICK sk, th, rec, q, fds :
        /\ rec = [fd |-> st.sock[s].fd, flag |-> {"read", "queue"}, jrd |-> Owner(s), jwr |-> st.sock[s].jwr]
        /\ sk = [st.sock EXCEPT ![s] = rec]
        /\ th = Net!Tsleep(st.thread, Owner(s), <<s, "read">>)
        /\ q = Append(st.bqueue, s) /\ fds = st.readfds \cup {st.sock[s].fd}
  OBVIOUS
<1>2. /\ st.sock \in [Net!Socks -> SockType] /\ st.sock[s] \in SockType /\ st.bqueue \in Seq(Net!Socks)
      /\ st.readfds \in SUBSET Int /\ ThreadsOk(st.thread)
      /\ st.thread \in [Net!Threads -> [run : {"running", "ready", "asleep"}, on : On("bdhtnet") \cup On("serviced")]]
  BY DEF NowType, PassType
<1>3. Owner(s) \in Net!Threads /\ Owner(s) \in {"serviced", "bdhtnet", "none"} /\ <<s, "read">> \in On(Owner(s))
      /\ <<s, "read">> \in On("bdhtnet") \cup On("serviced")
  BY DEF Owner, Net!Threads, Net!Socks, On
<1>4. rec \in SockType /\ sk \in [Net!Socks -> SockType] /\ sk[s] = rec
      /\ \A r \in Net!Socks \ {s} : sk[r] = st.sock[r]
  <2>1. rec \in SockType
    BY <1>1, <1>2, <1>3 DEF SockType
  <2> QED BY <1>1, <1>2, <2>1
<1>5. q \in Seq(Net!Socks) /\ fds \in SUBSET Int
  <2>1. st.sock[s].fd \in Int
    BY <1>2 DEF SockType
  <2> QED BY <1>1, <1>2, <2>1
<1>6. /\ ThreadsOk(th)
      /\ th \in [Net!Threads -> [run : {"running", "ready", "asleep"}, on : On("bdhtnet") \cup On("serviced")]]
      /\ \A t \in Net!Threads \ {Owner(s)} : th[t] = st.thread[t]
      /\ th[Owner(s)] = IF st.thread[Owner(s)].run = "asleep" THEN st.thread[Owner(s)]
                        ELSE [run |-> "asleep", on |-> <<s, "read">>]
  <2>1. CASE st.thread[Owner(s)].run = "asleep"
    BY <1>1, <1>2, <2>1 DEF Net!Tsleep
  <2>2. CASE st.thread[Owner(s)].run # "asleep"
    <3>1. PICK slept : slept = [run |-> "asleep", on |-> <<s, "read">>]
      OBVIOUS
    <3>2. /\ th = [st.thread EXCEPT ![Owner(s)] = slept]
          /\ slept \in [run : {"running", "ready", "asleep"}, on : On("bdhtnet") \cup On("serviced")]
          /\ slept.on \in On(Owner(s))
      BY <1>1, <1>3, <2>2, <3>1 DEF Net!Tsleep
    <3>3. /\ th \in [Net!Threads -> [run : {"running", "ready", "asleep"}, on : On("bdhtnet") \cup On("serviced")]]
          /\ th[Owner(s)] = slept /\ \A t \in Net!Threads \ {Owner(s)} : th[t] = st.thread[t]
      BY <1>2, <1>3, <3>2
    <3>4. ThreadsOk(th)
      BY <1>2, <3>2, <3>3 DEF ThreadsOk
    <3> QED BY <2>2, <3>1, <3>3, <3>4
  <2> QED BY <2>1, <2>2
<1>7. T = [st EXCEPT !.thread = th, !.sock = sk, !.readfds = fds, !.bqueue = q]
  <2>1. PICK w : w = [st EXCEPT !.thread = Net!Tsleep(@, Owner(s), <<s, "read">>), !.sock[s].jrd = Owner(s)]
    OBVIOUS
  <2>2. T = [w EXCEPT !.readfds = @ \cup {st.sock[s].fd}, !.sock[s].flag = @ \cup {"read", "queue"},
                      !.bqueue = Append(@, s)]
    BY <2>1 DEF Net!QRead
  <2>3. PICK sk1 : sk1 = [st.sock EXCEPT ![s].jrd = Owner(s)]
    OBVIOUS
  <2>4. w = [st EXCEPT !.thread = th, !.sock = sk1]
    BY <1>1, <2>1, <2>3
  <2>5. [sk1 EXCEPT ![s].flag = @ \cup {"read", "queue"}] = sk
    <3>1. PICK r1 : r1 = [st.sock[s] EXCEPT !.jrd = Owner(s)]
      OBVIOUS
    <3>2. sk1 = [st.sock EXCEPT ![s] = r1] /\ sk1[s] = r1
      BY <1>2, <2>3, <3>1
    <3>3. [r1 EXCEPT !.flag = @ \cup {"read", "queue"}] = rec
      <4>1. PICK o, r0 : o = Owner(s) /\ r0 = st.sock[s]
        OBVIOUS
      <4>2. r0 \in SockType /\ r0.flag = {} /\ r1 = [r0 EXCEPT !.jrd = o]
            /\ rec = [fd |-> r0.fd, flag |-> {"read", "queue"}, jrd |-> o, jwr |-> r0.jwr]
        BY <1>1, <1>2, <3>1, <4>1
      <4>3. r1 = [fd |-> r0.fd, flag |-> {}, jrd |-> o, jwr |-> r0.jwr]
        BY <4>2 DEF SockType
      <4>4. [r1 EXCEPT !.flag = @ \cup {"read", "queue"}]
              = [fd |-> r0.fd, flag |-> {} \cup {"read", "queue"}, jrd |-> o, jwr |-> r0.jwr]
        BY <4>3
      <4>5. {} \cup {"read", "queue"} = {"read", "queue"}
        OBVIOUS
      <4> QED BY <4>2, <4>4, <4>5
    <3>4. [sk1 EXCEPT ![s].flag = @ \cup {"read", "queue"}] = [st.sock EXCEPT ![s] = rec]
      BY <1>2, <3>2, <3>3
    <3> QED BY <1>1, <3>4
  <2>6. w.sock = sk1 /\ w.readfds = st.readfds /\ w.bqueue = st.bqueue
    BY <2>4 DEF NowType, PassType
  <2>7. T = [w EXCEPT !.readfds = fds, !.sock = sk, !.bqueue = q]
    BY <1>1, <2>2, <2>5, <2>6
  <2> QED BY <2>4, <2>7 DEF NowType, PassType
<1>8. st \in NowType => T \in NowType
  BY <1>4, <1>5, <1>6, <1>7 DEF NowType
<1>9. st \in PassType => T \in PassType /\ T.canRead = st.canRead /\ T.canWrite = st.canWrite
                         /\ T.count = st.count
  BY <1>4, <1>5, <1>6, <1>7 DEF PassType
<1>10. T.thread = th /\ T.sock = sk /\ T.readfds = fds /\ T.bqueue = q /\ T.writefds = st.writefds
  BY <1>7 DEF NowType, PassType
<1>11. /\ rec.fd = st.sock[s].fd /\ rec.flag = {"read", "queue"} /\ rec.jrd = Owner(s)
       /\ rec.jwr = st.sock[s].jwr
  BY <1>1
<1>12. T.sock[s] = rec /\ \A r \in Net!Socks \ {s} : T.sock[r] = st.sock[r]
  BY <1>4, <1>10
<1>13. /\ T.readfds = st.readfds \cup {st.sock[s].fd} /\ T.writefds = st.writefds
       /\ T.bqueue = Append(st.bqueue, s)
  BY <1>1, <1>10
<1>14. /\ \A t \in Net!Threads \ {Owner(s)} : T.thread[t] = st.thread[t]
       /\ T.thread[Owner(s)] = IF st.thread[Owner(s)].run = "asleep" THEN st.thread[Owner(s)]
                               ELSE [run |-> "asleep", on |-> <<s, "read">>]
  BY <1>6, <1>10
<1> QED BY <1>8, <1>9, <1>11, <1>12, <1>13, <1>14
(* bpoll() of a socket whose owner waits for it. *)
LEMMA PollIs ==
  ASSUME NEW st \in PassType, NEW s \in Net!Socks, Watched(st.sock[s], s), WaitsIn(st.thread, s),
         st.sock[s].fd # -1, NEW T, T = Net!Poll(st, s)
  PROVE  /\ T \in PassType /\ T.canRead = st.canRead /\ T.canWrite = st.canWrite
         /\ T.writefds = st.writefds /\ T.sock[s].fd = st.sock[s].fd
         /\ \A r \in Net!Socks \ {s} : T.sock[r] = st.sock[r]
         /\ \A t \in Net!Threads \ {Owner(s)} : T.thread[t] = st.thread[t]
         /\ IF st.count > 0 /\ st.sock[s].fd \in st.canRead
            THEN /\ Unwatched(T.sock[s]) /\ T.thread[Owner(s)].run = "ready"
                 /\ T.readfds = st.readfds /\ T.bqueue = st.bqueue /\ T.count = st.count - 1
            ELSE /\ Watched(T.sock[s], s) /\ T.thread[Owner(s)] = st.thread[Owner(s)]
                 /\ T.readfds = st.readfds \cup {st.sock[s].fd} /\ T.bqueue = Append(st.bqueue, s)
                 /\ T.count = st.count
<1>1. /\ st.sock \in [Net!Socks -> SockType] /\ st.sock[s] \in SockType /\ ThreadsOk(st.thread)
      /\ st.thread \in [Net!Threads -> [run : {"running", "ready", "asleep"}, on : On("bdhtnet") \cup On("serviced")]]
      /\ st.count \in Int
  BY DEF PassType
<1>2. Owner(s) \in Net!Threads /\ Owner(s) \in {"serviced", "bdhtnet"}
  BY DEF Owner, Net!Threads, Net!Socks
<1>3. PICK r1, sk1, st1 : /\ r1 = [st.sock[s] EXCEPT !.flag = {}]
                          /\ sk1 = [st.sock EXCEPT ![s] = r1]
                          /\ st1 = [st EXCEPT !.sock = sk1]
  OBVIOUS
<1>4. r1 \in SockType /\ r1.fd = st.sock[s].fd /\ r1.flag = {} /\ r1.jrd = Owner(s) /\ r1.jwr = "none"
  BY <1>1, <1>3 DEF SockType, Watched
<1>5. /\ sk1 \in [Net!Socks -> SockType] /\ sk1[s] = r1
      /\ \A r \in Net!Socks \ {s} : sk1[r] = st.sock[r]
  BY <1>1, <1>3, <1>4
<1>6. /\ st1 \in PassType /\ st1.sock = sk1 /\ st1.bqueue = st.bqueue /\ st1.readfds = st.readfds
      /\ st1.writefds = st.writefds /\ st1.thread = st.thread /\ st1.canRead = st.canRead
      /\ st1.canWrite = st.canWrite /\ st1.count = st.count
  BY <1>3, <1>5 DEF PassType
<1>7. st1 = [st EXCEPT !.sock[s].flag = {}]
  BY <1>3
<1>8. T = Net!PollRead(st1, s, {"read", "queue"})
  <2>1. st.sock[s].flag = {"read", "queue"}
    BY DEF Watched
  <2>2. T = Net!PollWrite(Net!PollRead(st1, s, {"read", "queue"}), s, {"read", "queue"})
    BY <1>7, <2>1 DEF Net!Poll
  <2>3. "write" \notin {"read", "queue"}
    OBVIOUS
  <2> QED BY <2>2, <2>3 DEF Net!PollWrite
<1>9. "read" \in {"read", "queue"}
  OBVIOUS
<1>10. CASE st.count > 0 /\ st.sock[s].fd \in st.canRead
  <2>1. PICK o, th, rec, sk : /\ o = Owner(s) /\ th = Net!Bwakeup(st1.thread, o, <<s, "read">>)
                              /\ rec = [r1 EXCEPT !.jrd = "none"] /\ sk = [sk1 EXCEPT ![s] = rec]
    OBVIOUS
  <2>2. T = [st1 EXCEPT !.thread = Net!Bwakeup(@, o, <<s, "read">>), !.sock[s].jrd = Net!None,
                        !.count = @ - 1]
    BY <1>4, <1>5, <1>6, <1>8, <1>9, <1>10, <2>1 DEF Net!PollRead, Net!Ready
  <2>3. rec \in SockType /\ rec.fd = r1.fd /\ rec.flag = {} /\ rec.jrd = "none" /\ rec.jwr = "none"
    BY <1>4, <2>1 DEF SockType
  <2>4. /\ sk \in [Net!Socks -> SockType] /\ sk[s] = rec
        /\ \A r \in Net!Socks \ {s} : sk[r] = sk1[r]
    BY <1>5, <2>1, <2>3
  <2>5. /\ th = [st.thread EXCEPT ![o].run = "ready"]
    <3>1. st.thread[o] = [run |-> "asleep", on |-> <<s, "read">>]
      BY <1>1, <1>2, <2>1 DEF WaitsIn
    <3> QED BY <1>6, <2>1, <3>1 DEF Net!Bwakeup
  <2>6. /\ th[o].run = "ready" /\ th[o].on = st.thread[o].on
        /\ th \in [Net!Threads -> [run : {"running", "ready", "asleep"}, on : On("bdhtnet") \cup On("serviced")]]
        /\ \A t \in Net!Threads \ {o} : th[t] = st.thread[t]
    BY <1>1, <1>2, <2>1, <2>5
  <2>7. ThreadsOk(th)
    BY <1>1, <2>6 DEF ThreadsOk
  <2>8. T = [st1 EXCEPT !.thread = th, !.sock = sk, !.count = st.count - 1]
    <3>1. [sk1 EXCEPT ![s].jrd = Net!None] = sk
      BY <1>5, <2>1 DEF Net!None
    <3>2. [st1 EXCEPT !.sock[s].jrd = Net!None] = [st1 EXCEPT !.sock = sk]
      BY <1>6, <3>1
    <3> QED BY <1>6, <2>1, <2>2, <3>1 DEF PassType
  <2>9. T \in PassType /\ T.canRead = st.canRead /\ T.canWrite = st.canWrite /\ T.writefds = st.writefds
        /\ T.readfds = st.readfds /\ T.bqueue = st.bqueue /\ T.count = st.count - 1
        /\ T.thread = th /\ T.sock = sk
    <3>1. st.count - 1 \in Int
      BY <1>1
    <3>2. PICK n \in Int : n = st.count - 1
      BY <3>1
    <3>3. T = [st1 EXCEPT !.thread = th, !.sock = sk, !.count = n]
      BY <2>8, <3>2
    <3>4. /\ T \in PassType /\ T.thread = th /\ T.sock = sk /\ T.count = n
          /\ T.bqueue = st1.bqueue /\ T.readfds = st1.readfds /\ T.writefds = st1.writefds
          /\ T.canRead = st1.canRead /\ T.canWrite = st1.canWrite
      <4>1. /\ st1 \in PassType /\ ThreadsOk(th) /\ sk \in [Net!Socks -> SockType] /\ n \in Int
            /\ th \in [Net!Threads -> [run : {"running", "ready", "asleep"},
                                       on : On("bdhtnet") \cup On("serviced")]]
        BY ONLY <1>6, <2>4, <2>6, <2>7, <3>2
      <4> QED BY ONLY <3>3, <4>1 DEF PassType
    <3> QED BY <1>6, <3>2, <3>4
  <2> QED BY <1>4, <1>5, <1>10, <2>1, <2>3, <2>4, <2>6, <2>9 DEF Unwatched
<1>11. CASE ~(st.count > 0 /\ st.sock[s].fd \in st.canRead)
  <2>1. T = Net!QRead(st1, s, Owner(s))
    BY <1>4, <1>5, <1>6, <1>8, <1>9, <1>11 DEF Net!PollRead, Net!Ready
  <2>2. st1.sock[s].flag = {} /\ st1.sock[s].fd = st.sock[s].fd /\ st1.sock[s].jwr = "none"
        /\ st1.thread[Owner(s)].run = "asleep"
    BY <1>4, <1>5, <1>6 DEF WaitsIn
  <2>3. /\ T \in PassType /\ T.canRead = st1.canRead /\ T.canWrite = st1.canWrite /\ T.count = st1.count
        /\ T.readfds = st1.readfds \cup {st1.sock[s].fd} /\ T.writefds = st1.writefds
        /\ T.bqueue = Append(st1.bqueue, s)
        /\ T.sock[s].fd = st1.sock[s].fd /\ T.sock[s].flag = {"read", "queue"}
        /\ T.sock[s].jrd = Owner(s) /\ T.sock[s].jwr = st1.sock[s].jwr
        /\ \A r \in Net!Socks \ {s} : T.sock[r] = st1.sock[r]
        /\ \A t \in Net!Threads \ {Owner(s)} : T.thread[t] = st1.thread[t]
        /\ T.thread[Owner(s)] = st1.thread[Owner(s)]
    <3>1. /\ st1 \in PassType => T \in PassType /\ T.canRead = st1.canRead /\ T.canWrite = st1.canWrite
                                  /\ T.count = st1.count
          /\ T.readfds = st1.readfds \cup {st1.sock[s].fd} /\ T.writefds = st1.writefds
          /\ T.bqueue = Append(st1.bqueue, s)
          /\ T.sock[s].fd = st1.sock[s].fd /\ T.sock[s].flag = {"read", "queue"}
          /\ T.sock[s].jrd = Owner(s) /\ T.sock[s].jwr = st1.sock[s].jwr
          /\ \A r \in Net!Socks \ {s} : T.sock[r] = st1.sock[r]
          /\ \A t \in Net!Threads \ {Owner(s)} : T.thread[t] = st1.thread[t]
          /\ T.thread[Owner(s)] = IF st1.thread[Owner(s)].run = "asleep" THEN st1.thread[Owner(s)]
                                  ELSE [run |-> "asleep", on |-> <<s, "read">>]
      <4>1. st1 \in NowType \/ st1 \in PassType
        BY <1>6
      <4>2. st1.sock[s].flag = {}
        BY <2>2
      <4> HIDE <1>6, <2>2
      <4> QED BY ONLY <4>1, <4>2, <2>1, s \in Net!Socks, QReadIs
    <3> QED BY <1>6, <2>2, <3>1
  <2>4. Watched(T.sock[s], s)
    BY <2>2, <2>3 DEF Watched
  <2>5. \A r \in Net!Socks \ {s} : T.sock[r] = st.sock[r]
    BY <1>5, <1>6, <2>3
  <2> QED BY <1>6, <1>11, <2>2, <2>3, <2>4, <2>5
<1> QED BY <1>10, <1>11
-----------------------------------------------------------------------------
(* The queue and the sets.                                                  *)
In(q, s) == \E k \in 1 .. Len(q) : q[k] = s
Once(q) == \A i, k \in 1 .. Len(q) : q[i] = q[k] => i = k

LEMMA InAppended ==
  ASSUME NEW S, NEW q \in Seq(S), Once(q), NEW s \in S, ~In(q, s), NEW p, p = Append(q, s)
  PROVE  p \in Seq(S) /\ Once(p) /\ \A r : In(p, r) <=> In(q, r) \/ r = s
<1>1. /\ p \in Seq(S) /\ Len(p) = Len(q) + 1 /\ Len(q) \in Nat /\ p[Len(q) + 1] = s
      /\ \A k \in 1 .. Len(q) : p[k] = q[k]
  OBVIOUS
<1>2. Once(p)
  <2> SUFFICES ASSUME NEW i \in 1 .. Len(p), NEW k \in 1 .. Len(p), p[i] = p[k] PROVE i = k
    BY DEF Once
  <2>1. (i \in 1 .. Len(q) \/ i = Len(q) + 1) /\ (k \in 1 .. Len(q) \/ k = Len(q) + 1)
    BY <1>1
  <2> QED BY <1>1, <2>1 DEF Once, In
<1>3. ASSUME NEW r PROVE In(p, r) <=> In(q, r) \/ r = s
  <2>1. ASSUME In(p, r) PROVE In(q, r) \/ r = s
    <3>1. PICK k \in 1 .. Len(p) : p[k] = r
      BY <2>1 DEF In
    <3>2. k \in 1 .. Len(q) \/ k = Len(q) + 1
      BY <1>1
    <3> QED BY <1>1, <3>1, <3>2 DEF In
  <2>2. ASSUME In(q, r) PROVE In(p, r)
    <3>1. PICK k \in 1 .. Len(q) : q[k] = r
      BY <2>2 DEF In
    <3>2. k \in 1 .. Len(p) /\ p[k] = r
      BY <1>1, <3>1
    <3> QED BY <3>2 DEF In
  <2>3. In(p, s)
    <3>1. Len(q) + 1 \in 1 .. Len(p)
      BY <1>1
    <3> QED BY <1>1, <3>1 DEF In
  <2> QED BY <2>1, <2>2, <2>3
<1> QED BY <1>1, <1>2, <1>3

(* The sockets have different descriptors, and the kernel has those open. *)
FdsOf(q) == {sock[s].fd : s \in {r \in Net!Socks : In(q, r)}}

FdsOk ==
  /\ sock["listener"].fd = 1 /\ sock["udp"].fd = 2 /\ sock["client"].fd \in {-1} \cup 3 .. MaxFd
  /\ open = {1, 2} \cup ({sock["client"].fd} \ {-1})
  /\ state # 0 => sock["client"].fd # -1

(* A socket has its flags while its thread sleeps on it, and no others. *)
WaitsOk ==
  /\ \A s \in Net!Socks : IF WaitsIn(thread, s) THEN Watched(sock[s], s) ELSE Unwatched(sock[s])
  /\ WaitsIn(thread, "client") => state = 1

(* The queue and the set are the sockets that are waited for. *)
QueueOk ==
  /\ bqueue \in Seq(Net!Socks) /\ Once(bqueue)
  /\ \A s \in Net!Socks : In(bqueue, s) <=> WaitsIn(thread, s)
  /\ writefds = {} /\ readfds = FdsOf(bqueue)

(* A deadline is pending only while serviced sleeps on its lookup. *)
ServicedOk ==
  /\ state \in {0, 1, 5} /\ timer \in BOOLEAN /\ crashed = FALSE
  /\ timer => thread["serviced"].run = "asleep" /\ thread["serviced"].on = <<"lookup", "none">>

SocksInv ==
  /\ sock \in [Net!Socks -> SockType] /\ ThreadsOk(thread)
  /\ FdsOk /\ WaitsOk /\ QueueOk /\ ServicedOk

LEMMA OneOwner ==
  ASSUME NEW th, NEW s \in Net!Socks, NEW r \in Net!Socks, WaitsIn(th, s), WaitsIn(th, r), Owner(s) = Owner(r)
  PROVE  s = r
<1>1. <<s, "read">> = <<r, "read">>
  BY DEF WaitsIn
<1>2. <<s, "read">>[1] = s /\ <<r, "read">>[1] = r
  OBVIOUS
<1> QED BY <1>1, <1>2

LEMMA WatchedFds ==
  ASSUME SocksInv, NEW s \in Net!Socks, WaitsIn(thread, s)
  PROVE  /\ sock[s].fd # -1 /\ sock[s].fd \in open /\ sock[s].fd \in Int /\ Watched(sock[s], s)
         /\ \A r \in Net!Socks : r # s => sock[r].fd # sock[s].fd
<1>1. s \in {"listener", "client", "udp"} /\ Watched(sock[s], s)
  BY DEF Net!Socks, SocksInv, WaitsOk
<1>2. s = "client" => sock[s].fd # -1
  BY DEF SocksInv, WaitsOk, FdsOk
<1>3. sock[s].fd \in Int
  BY DEF SocksInv, SockType
<1>4. sock[s].fd # -1 /\ sock[s].fd \in open
  BY <1>1, <1>2 DEF SocksInv, FdsOk
<1>5. ASSUME NEW r \in Net!Socks, r # s PROVE sock[r].fd # sock[s].fd
  <2>1. r \in {"listener", "client", "udp"}
    BY DEF Net!Socks
  <2>2. \A f \in {-1} \cup 3 .. MaxFd : f # 1 /\ f # 2
    OBVIOUS
  <2> QED BY <1>1, <1>4, <1>5, <2>1, <2>2 DEF SocksInv, FdsOk
<1> QED BY <1>1, <1>3, <1>4, <1>5

(* The sockets the pass has been at. *)
Polled(i) == {bqueue[k] : k \in 1 .. i}

(* What i turns of it have made of the state at the select(). *)
PassInv(i, st, C) ==
  /\ st \in PassType /\ st.canRead = C /\ st.writefds = {}
  /\ \A s \in Net!Socks : st.sock[s].fd = sock[s].fd
  /\ \A s \in Net!Socks \ Polled(i) : st.sock[s] = sock[s]
  /\ \A t \in Net!Threads : (\A s \in Polled(i) : Owner(s) # t) => st.thread[t] = thread[t]
  /\ \A s \in Polled(i) :
       IF In(st.bqueue, s)
       THEN Watched(st.sock[s], s) /\ st.thread[Owner(s)] = thread[Owner(s)] /\ sock[s].fd \notin C
       ELSE Unwatched(st.sock[s]) /\ st.thread[Owner(s)].run = "ready"
  /\ Once(st.bqueue) /\ \A s : In(st.bqueue, s) => s \in Polled(i)
  /\ st.readfds = FdsOf(st.bqueue)
  /\ st.count >= Cardinality(C \ {sock[s].fd : s \in Polled(i)})

LEMMA PassStep ==
  ASSUME SocksInv, NEW C \in SUBSET Int, IsFiniteSet(C), NEW i \in 1 .. Len(bqueue),
         NEW st, PassInv(i - 1, st, C), NEW T, T = Net!Poll(st, bqueue[i])
  PROVE  PassInv(i, T, C)
<1>1. PICK s : s = bqueue[i]
  OBVIOUS
<1>2. bqueue \in Seq(Net!Socks) /\ Once(bqueue) /\ Len(bqueue) \in Nat /\ s \in Net!Socks
  <2>1. bqueue \in Seq(Net!Socks) /\ Once(bqueue)
    BY DEF SocksInv, QueueOk
  <2> QED BY <1>1, <2>1
<1>3. Polled(i) = Polled(i - 1) \cup {s} /\ s \notin Polled(i - 1) /\ Polled(i) \subseteq Net!Socks
  <2>1. 1 .. i = (1 .. i - 1) \cup {i} /\ 1 .. i \subseteq 1 .. Len(bqueue) /\ i \notin 1 .. i - 1
    BY <1>2
  <2>2. \A k \in 1 .. i - 1 : bqueue[k] # s
    BY <1>1, <1>2, <2>1 DEF Once
  <2>3. \A k \in 1 .. i : bqueue[k] \in Net!Socks
    BY <1>2, <2>1
  <2> QED BY <1>1, <2>1, <2>2, <2>3 DEF Polled
<1>4. \A r \in Polled(i) : WaitsIn(thread, r) /\ r \in Net!Socks
  <2> SUFFICES ASSUME NEW r \in Polled(i) PROVE In(bqueue, r) /\ r \in Net!Socks
    BY DEF SocksInv, QueueOk
  <2>1. PICK k \in 1 .. i : r = bqueue[k]
    BY DEF Polled
  <2>2. k \in 1 .. Len(bqueue)
    BY <1>2, <2>1
  <2> QED BY <1>3, <2>1, <2>2 DEF In
<1>5. WaitsIn(thread, s) /\ \A r \in Polled(i - 1) : Owner(r) # Owner(s) /\ sock[r].fd # sock[s].fd
  <2>1. WaitsIn(thread, s)
    BY <1>3, <1>4
  <2>2. ASSUME NEW r \in Polled(i - 1) PROVE Owner(r) # Owner(s) /\ sock[r].fd # sock[s].fd
    <3>1. r # s /\ WaitsIn(thread, r) /\ r \in Net!Socks
      BY <1>3, <1>4
    <3> QED BY <1>2, <2>1, <3>1, OneOwner, WatchedFds
  <2> QED BY <2>1, <2>2
<1>6. /\ st \in PassType /\ st.canRead = C /\ st.writefds = {}
      /\ st.sock[s] = sock[s] /\ st.thread[Owner(s)] = thread[Owner(s)]
      /\ Once(st.bqueue) /\ ~In(st.bqueue, s) /\ st.bqueue \in Seq(Net!Socks) /\ st.count \in Int
  <2>1. Owner(s) \in Net!Threads
    BY DEF Owner, Net!Threads
  <2>2. st.thread[Owner(s)] = thread[Owner(s)]
    BY <1>5, <2>1 DEF PassInv
  <2>3. st.sock[s] = sock[s] /\ ~In(st.bqueue, s)
    BY <1>2, <1>3 DEF PassInv
  <2>4. st \in PassType
    BY DEF PassInv
  <2> QED BY <2>2, <2>3, <2>4 DEF PassInv, PassType
<1>7. /\ Watched(st.sock[s], s) /\ WaitsIn(st.thread, s) /\ st.sock[s].fd # -1
  BY <1>2, <1>5, <1>6, WatchedFds DEF WaitsIn
<1>8. /\ T \in PassType /\ T.canRead = st.canRead /\ T.canWrite = st.canWrite
      /\ T.writefds = st.writefds /\ T.sock[s].fd = st.sock[s].fd
      /\ \A r \in Net!Socks \ {s} : T.sock[r] = st.sock[r]
      /\ \A t \in Net!Threads \ {Owner(s)} : T.thread[t] = st.thread[t]
      /\ IF st.count > 0 /\ st.sock[s].fd \in st.canRead
         THEN /\ Unwatched(T.sock[s]) /\ T.thread[Owner(s)].run = "ready"
              /\ T.readfds = st.readfds /\ T.bqueue = st.bqueue /\ T.count = st.count - 1
         ELSE /\ Watched(T.sock[s], s) /\ T.thread[Owner(s)] = st.thread[Owner(s)]
              /\ T.readfds = st.readfds \cup {st.sock[s].fd} /\ T.bqueue = Append(st.bqueue, s)
              /\ T.count = st.count
  BY SMTT(30), <1>1, <1>2, <1>6, <1>7, PollIs
(* How many ready descriptors are still to be found. *)
<1>9. PICK D, f, E : /\ D = C \ {sock[r].fd : r \in Polled(i - 1)} /\ f = sock[s].fd
                     /\ E = C \ {sock[r].fd : r \in Polled(i)}
  OBVIOUS
<1>10. E = D \ {f} /\ (f \in C => f \in D) /\ IsFiniteSet(D) /\ st.count >= Cardinality(D)
  <2>1. E = D \ {f} /\ (f \in C => f \in D)
    BY <1>3, <1>5, <1>9
  <2>2. IsFiniteSet(D)
    BY <1>9, FS_Subset
  <2> QED BY <1>9, <2>1, <2>2 DEF PassInv
<1>11. /\ f \in C => st.count > 0 /\ st.count - 1 >= Cardinality(E)
       /\ f \notin C => st.count >= Cardinality(E)
  <2>1. Cardinality(D) \in Nat
    BY <1>10, FS_CardinalityType
  <2>2. CASE f \in C
    <3>1. f \in D /\ Cardinality(E) = Cardinality(D) - 1
      BY <1>10, <2>2, FS_RemoveElement
    <3>2. Cardinality(E) \in Nat
      <4>1. IsFiniteSet(E)
        BY <1>10, FS_Subset
      <4> QED BY <4>1, FS_CardinalityType
    <3> QED BY <1>6, <1>10, <2>1, <2>2, <3>1, <3>2
  <2>3. CASE f \notin C
    <3>1. E = D
      BY <1>9, <1>10, <2>3
    <3> QED BY <1>10, <2>3, <3>1
  <2> QED BY <2>2, <2>3
<1>12. T.count >= Cardinality(C \ {sock[r].fd : r \in Polled(i)})
  BY <1>6, <1>8, <1>9, <1>11
<1>13. /\ T \in PassType /\ T.canRead = C /\ T.writefds = {}
       /\ \A r \in Net!Socks : T.sock[r].fd = sock[r].fd
       /\ \A r \in Net!Socks \ Polled(i) : T.sock[r] = sock[r]
  <2>1. ASSUME NEW r \in Net!Socks PROVE T.sock[r].fd = sock[r].fd
    BY <1>6, <1>8, <2>1 DEF PassInv
  <2>2. ASSUME NEW r \in Net!Socks \ Polled(i) PROVE T.sock[r] = sock[r]
    BY <1>3, <1>8 DEF PassInv
  <2> QED BY <1>6, <1>8, <2>1, <2>2
<1>14. \A t \in Net!Threads : (\A r \in Polled(i) : Owner(r) # t) => T.thread[t] = thread[t]
  BY <1>3, <1>8 DEF PassInv
<1>15. CASE f \in C
  <2>1. /\ Unwatched(T.sock[s]) /\ T.thread[Owner(s)].run = "ready"
        /\ T.readfds = st.readfds /\ T.bqueue = st.bqueue
    BY <1>6, <1>8, <1>9, <1>11, <1>15
  <2>2. \A r \in Polled(i) :
          IF In(T.bqueue, r)
          THEN Watched(T.sock[r], r) /\ T.thread[Owner(r)] = thread[Owner(r)] /\ sock[r].fd \notin C
          ELSE Unwatched(T.sock[r]) /\ T.thread[Owner(r)].run = "ready"
    <3> SUFFICES ASSUME NEW r \in Polled(i - 1)
                 PROVE  IF In(T.bqueue, r)
                        THEN Watched(T.sock[r], r) /\ T.thread[Owner(r)] = thread[Owner(r)] /\ sock[r].fd \notin C
                        ELSE Unwatched(T.sock[r]) /\ T.thread[Owner(r)].run = "ready"
      BY <1>3, <1>6, <2>1
    <3>1. r \in Net!Socks \ {s} /\ Owner(r) \in Net!Threads \ {Owner(s)}
      BY <1>3, <1>5 DEF Owner, Net!Threads
    <3>2. T.sock[r] = st.sock[r] /\ T.thread[Owner(r)] = st.thread[Owner(r)]
      BY <1>8, <3>1
    <3> QED BY <2>1, <3>2 DEF PassInv
  <2>3. Once(T.bqueue) /\ (\A r : In(T.bqueue, r) => r \in Polled(i)) /\ T.readfds = FdsOf(T.bqueue)
    BY <1>3, <2>1 DEF PassInv
  <2> QED BY <1>12, <1>13, <1>14, <2>2, <2>3 DEF PassInv
<1>16. CASE f \notin C
  <2>1. /\ Watched(T.sock[s], s) /\ T.thread[Owner(s)] = thread[Owner(s)]
        /\ T.readfds = st.readfds \cup {f} /\ T.bqueue = Append(st.bqueue, s)
    BY <1>6, <1>8, <1>9, <1>16
  <2>2. Once(T.bqueue) /\ \A r : In(T.bqueue, r) <=> In(st.bqueue, r) \/ r = s
    <3>1. PICK S, q, p : S = Net!Socks /\ q = st.bqueue /\ p = T.bqueue
      OBVIOUS
    <3>2. q \in Seq(S) /\ s \in S /\ Once(q) /\ ~In(q, s) /\ p = Append(q, s)
      BY <1>2, <1>6, <2>1, <3>1
    <3>3. Once(p) /\ \A r : In(p, r) <=> In(q, r) \/ r = s
      BY ONLY <3>2, InAppended
    <3> QED BY <3>1, <3>3
  <2>3. \A r \in Polled(i) :
          IF In(T.bqueue, r)
          THEN Watched(T.sock[r], r) /\ T.thread[Owner(r)] = thread[Owner(r)] /\ sock[r].fd \notin C
          ELSE Unwatched(T.sock[r]) /\ T.thread[Owner(r)].run = "ready"
    <3> SUFFICES ASSUME NEW r \in Polled(i - 1)
                 PROVE  IF In(T.bqueue, r)
                        THEN Watched(T.sock[r], r) /\ T.thread[Owner(r)] = thread[Owner(r)] /\ sock[r].fd \notin C
                        ELSE Unwatched(T.sock[r]) /\ T.thread[Owner(r)].run = "ready"
      BY <1>3, <1>9, <1>16, <2>1, <2>2
    <3>1. r \in Net!Socks \ {s} /\ Owner(r) \in Net!Threads \ {Owner(s)}
      BY <1>3, <1>5 DEF Owner, Net!Threads
    <3>2. T.sock[r] = st.sock[r] /\ T.thread[Owner(r)] = st.thread[Owner(r)]
      BY <1>8, <3>1
    <3>3. In(T.bqueue, r) <=> In(st.bqueue, r)
      BY <2>2, <3>1
    <3> QED BY <3>2, <3>3 DEF PassInv
  <2>4. \A r : In(T.bqueue, r) => r \in Polled(i)
    BY <1>3, <2>2 DEF PassInv
  <2>5. T.readfds = FdsOf(T.bqueue)
    <3>1. st.readfds = FdsOf(st.bqueue)
      BY DEF PassInv
    <3> QED BY <1>2, <1>9, <2>1, <2>2, <3>1 DEF FdsOf
  <2> QED BY <1>12, <1>13, <1>14, <2>2, <2>3, <2>4, <2>5 DEF PassInv
<1> QED BY <1>15, <1>16
LEMMA LeastExists ==
  ASSUME NEW S \in SUBSET Nat, S # {}
  PROVE  \E x \in S : \A y \in S : x <= y
<1>1. PICK x \in S : \A y \in S : <<y, x>> \notin OpToRel(<, Nat)
  BY NatLessThanWellFounded, WFMin
<1>2. \A y \in S : ~(y < x)
  BY <1>1 DEF OpToRel
<1> QED BY <1>2

(* A set of numbers that has 0 and with i also i + 1 has them all. *)
LEMMA UpTo ==
  ASSUME NEW n \in Nat, NEW A, 0 \in A, \A i \in 1 .. n : i - 1 \in A => i \in A
  PROVE  \A i \in 0 .. n : i \in A
<1> DEFINE Bad == {i \in 0 .. n : i \notin A}
<1> SUFFICES ASSUME Bad # {} PROVE FALSE
  OBVIOUS
<1>1. PICK m \in Bad : \A k \in Bad : m <= k
  <2>1. Bad \in SUBSET Nat
    OBVIOUS
  <2> HIDE DEF Bad
  <2> QED BY <2>1, LeastExists
<1>2. m \in 1 .. n /\ m - 1 \in 0 .. n /\ ~(m <= m - 1)
  BY <1>1
<1>3. m - 1 \in A
  BY <1>1, <1>2
<1> QED BY <1>1, <1>2, <1>3

PassTurns(st, g, m) == g = [i \in 0..m |-> IF i = 0 THEN st ELSE Net!Poll(g[i - 1], bqueue[i])]

LEMMA PassTurnsExist ==
  ASSUME NEW st, NEW n \in Nat
  PROVE  \E g : PassTurns(st, g, n)
<1> DEFINE A == {m \in Nat : \E g : PassTurns(st, g, m)}
<1>1. 0 \in A
  <2>1. PassTurns(st, [i \in 0..0 |-> st], 0)
    BY DEF PassTurns
  <2> QED BY <2>1
<1>2. ASSUME NEW m \in 1..n, m - 1 \in A
      PROVE  m \in A
  <2>1. PICK g : PassTurns(st, g, m - 1)
    BY <1>2
  <2> DEFINE h == [i \in 0..m |-> IF i = m THEN Net!Poll(g[m - 1], bqueue[m]) ELSE g[i]]
  <2>2. \A i \in 0..m : h[i] = IF i = 0 THEN st ELSE Net!Poll(h[i - 1], bqueue[i])
    <3>1. \A i \in 0..m-1 : g[i] = IF i = 0 THEN st ELSE Net!Poll(g[i - 1], bqueue[i])
      BY <2>1 DEF PassTurns
    <3>2. \A i \in 0..m : i # m => i \in 0..m-1
      OBVIOUS
    <3>3. \A i \in 0..m : i # 0 => i - 1 \in 0..m /\ i - 1 # m /\ h[i - 1] = g[i - 1]
      OBVIOUS
    <3>4. m # 0
      OBVIOUS
    <3> QED BY <3>1, <3>2, <3>3, <3>4
  <2>3. h = [i \in 0..m |-> h[i]]
    OBVIOUS
  <2> HIDE DEF h
  <2>4. PassTurns(st, h, m)
    BY <2>2, <2>3 DEF PassTurns
  <2> QED BY <2>4
<1> HIDE DEF A
<1>3. n \in A
  BY <1>1, <1>2, UpTo
<1> QED BY <1>3 DEF A

LEMMA PassHolds ==
  ASSUME SocksInv, NEW C \in SUBSET Int, IsFiniteSet(C), NEW st, PassInv(0, st, C),
         NEW T, T = Net!Pass(st)
  PROVE  PassInv(Len(bqueue), T, C)
<1>1. PICK n : n = Len(bqueue)
  OBVIOUS
<1>2. n \in Nat
  BY <1>1 DEF SocksInv, QueueOk
<1> DEFINE g == CHOOSE h : PassTurns(st, h, n)
<1>3. T = g[n]
  BY <1>1, Zenon DEF Net!Pass, PassTurns
<1>4. PassTurns(st, g, n)
  BY <1>2, PassTurnsExist
<1> HIDE DEF g
<1>5. \A i \in 0 .. n : g[i] = IF i = 0 THEN st ELSE Net!Poll(g[i - 1], bqueue[i])
  BY <1>4 DEF PassTurns
<1> DEFINE A == {i \in 0 .. n : PassInv(i, g[i], C)}
<1>6. 0 \in A
  BY <1>2, <1>5
<1>7. ASSUME NEW i \in 1 .. n, i - 1 \in A PROVE i \in A
  <2>1. i \in 0 .. n /\ i # 0 /\ i \in 1 .. Len(bqueue)
    BY <1>1
  <2>2. g[i] = Net!Poll(g[i - 1], bqueue[i]) /\ PassInv(i - 1, g[i - 1], C)
    BY <1>5, <1>7, <2>1
  <2>3. PassInv(i, g[i], C)
    BY <2>1, <2>2, PassStep
  <2> QED BY <2>1, <2>3
<1> HIDE DEF A
<1>8. n \in A
  <2>1. \A i \in 0 .. n : i \in A
    BY <1>2, <1>6, <1>7, UpTo
  <2> QED BY <1>2, <2>1
<1> QED BY <1>1, <1>3, <1>8 DEF A

LEMMA SelectKeeps ==
  ASSUME SocksInv, Net!Select
  PROVE  SocksInv' /\ Net!PassKeepsWakeups
<1>0. PICK n : n = Len(bqueue)
  OBVIOUS
<1>1. /\ sock \in [Net!Socks -> SockType] /\ ThreadsOk(thread) /\ n \in Nat
      /\ bqueue \in Seq(Net!Socks) /\ writefds = {} /\ readfds = FdsOf(bqueue)
      /\ \A s \in Net!Socks : In(bqueue, s) <=> WaitsIn(thread, s)
  <2>1. bqueue \in Seq(Net!Socks)
    BY DEF SocksInv, QueueOk
  <2>2. n \in Nat
    BY <1>0, <2>1
  <2> QED BY <2>1, <2>2 DEF SocksInv, QueueOk
<1>2. \A s \in Net!Socks : s \in Polled(n) <=> WaitsIn(thread, s)
  BY <1>0, <1>1 DEF Polled, In
<1>3. Polled(n) \subseteq Net!Socks
  <2>1. \A k \in 1 .. n : bqueue[k] \in Net!Socks
    BY <1>0, <1>1
  <2> QED BY <2>1 DEF Polled
<1>4. Net!SetsOpen
  BY <1>1, WatchedFds DEF FdsOf, Net!SetsOpen
<1>5. PICK C : C = {sock[s].fd : s \in {s \in Net!Socks : Net!Readable(s)}} \cap readfds
  OBVIOUS
<1>6. C \in SUBSET Int /\ IsFiniteSet(C)
  <2>1. PICK a, b, c : a = sock["listener"].fd /\ b = sock["udp"].fd /\ c = sock["client"].fd
    OBVIOUS
  <2>2. a \in Int /\ b \in Int /\ c \in Int
    BY <1>1, <2>1 DEF Net!Socks, SockType
  <2>3. C \subseteq ({a} \cup {b}) \cup {c}
    BY <1>5, <2>1 DEF Net!Socks
  <2>4. IsFiniteSet({a}) /\ IsFiniteSet({b}) /\ IsFiniteSet({c})
    BY FS_Singleton
  <2>5. IsFiniteSet({a} \cup {b})
    BY <2>4, FS_Union
  <2>6. IsFiniteSet(({a} \cup {b}) \cup {c})
    BY <2>4, <2>5, FS_Union
  <2> QED BY <2>2, <2>3, <2>6, FS_Subset
<1>7. PICK st : st = [sock |-> sock, bqueue |-> <<>>, readfds |-> {}, writefds |-> {},
                      thread |-> thread, canRead |-> C, canWrite |-> {},
                      count |-> Cardinality(C) + Cardinality({})]
  OBVIOUS
<1>8. Net!Become(Net!Pass(st)) /\ crashed' = FALSE
      /\ UNCHANGED <<state, timer, open, backlog, data, packet, conns>>
  <2>1. /\ crashed' = ~Net!SetsOpen
        /\ LET canRead == {sock[s].fd : s \in {s \in Net!Socks : Net!Readable(s)}} \cap readfds IN
           \E canWrite \in {{}, writefds} :
             Net!Become(Net!Pass([sock |-> sock, bqueue |-> <<>>, readfds |-> {}, writefds |-> {},
                         thread |-> thread, canRead |-> canRead, canWrite |-> canWrite,
                         count |-> Cardinality(canRead) + Cardinality(canWrite)]))
        /\ UNCHANGED <<state, timer, open, backlog, data, packet, conns>>
    <3>1. crashed' = ~Net!SetsOpen /\ UNCHANGED Net!kernel /\ UNCHANGED <<state, timer>>
      BY Zenon DEF Net!Select
    <3>2. UNCHANGED <<state, timer, open, backlog, data, packet, conns>>
      BY <3>1 DEF Net!kernel
    <3>3. LET canRead == {sock[s].fd : s \in {s \in Net!Socks : Net!Readable(s)}} \cap readfds IN
          \E canWrite \in {{}, writefds} :
             Net!Become(Net!Pass([sock |-> sock, bqueue |-> <<>>, readfds |-> {}, writefds |-> {},
                         thread |-> thread, canRead |-> canRead, canWrite |-> canWrite,
                         count |-> Net!Cardinality(canRead) + Net!Cardinality(canWrite)]))
      BY <1>4, Zenon DEF Net!Select
    <3>4. \A S : Net!Cardinality(S) = Cardinality(S)
      BY Zenon DEF Net!Cardinality, Cardinality
    <3> QED BY <3>1, <3>2, <3>3, <3>4, Zenon
  <2>2. {{}, writefds} = {{}}
    BY <1>1
  <2>3. Net!Become(Net!Pass([sock |-> sock, bqueue |-> <<>>, readfds |-> {}, writefds |-> {},
                         thread |-> thread, canRead |-> C, canWrite |-> {},
                         count |-> Cardinality(C) + Cardinality({})]))
    BY <1>5, <2>1, <2>2
  <2>4. crashed' = FALSE
    BY <1>4, <2>1
  <2> QED BY <1>7, <2>1, <2>3, <2>4
<1>9. PassInv(0, st, C)
  <2>1. Cardinality(C) \in Nat /\ Cardinality({}) = 0 /\ IsFiniteSet({})
    BY <1>6, FS_CardinalityType, FS_EmptySet
  <2>2. st \in PassType
    <3>1. <<>> \in Seq(Net!Socks) /\ {} \in SUBSET Int /\ Cardinality(C) + Cardinality({}) \in Int
      BY <2>1
    <3>2. thread \in {th \in [Net!Threads -> [run : {"running", "ready", "asleep"},
                                      on : On("bdhtnet") \cup On("serviced")]] : ThreadsOk(th)}
      BY <1>1 DEF ThreadsOk
    <3> QED BY <1>1, <1>6, <1>7, <3>1, <3>2 DEF PassType
  <2>3. Polled(0) = {}
    BY DEF Polled
  <2>4. st.bqueue = <<>> /\ \A r : ~In(st.bqueue, r)
    BY <1>7 DEF In
  <2>5. Once(st.bqueue)
    BY <2>4 DEF Once
  <2>6. st.readfds = FdsOf(st.bqueue)
    BY <1>7, <2>4 DEF FdsOf
  <2>7. st.count >= Cardinality(C \ {sock[s].fd : s \in Polled(0)})
    <3>1. C \ {sock[s].fd : s \in Polled(0)} = C
      BY <2>3
    <3>2. PICK x : x = Cardinality(C)
      OBVIOUS
    <3>3. x \in Nat /\ st.count = x
      BY <1>7, <2>1, <3>2
    <3>4. st.count >= x
      BY ONLY <3>3
    <3> QED BY <3>1, <3>2, <3>4, Zenon
  <2>8. st.sock = sock /\ st.thread = thread /\ st.canRead = C /\ st.writefds = {}
    BY <1>7
  <2> QED BY <2>2, <2>3, <2>4, <2>5, <2>6, <2>7, <2>8 DEF PassInv
<1>10. PICK T : T = Net!Pass(st)
  OBVIOUS
<1>11. PassInv(n, T, C)
  BY <1>0, <1>6, <1>9, <1>10, PassHolds
<1>12. sock' = T.sock /\ bqueue' = T.bqueue /\ readfds' = T.readfds /\ writefds' = T.writefds
       /\ thread' = T.thread
  BY <1>8, <1>10 DEF Net!Become
<1>13. /\ sock' \in [Net!Socks -> SockType] /\ ThreadsOk(thread') /\ bqueue' \in Seq(Net!Socks)
       /\ \A s \in Net!Socks : sock'[s].fd = sock[s].fd
       /\ \A s \in Net!Socks \ Polled(n) : sock'[s] = sock[s]
       /\ \A t \in Net!Threads : (\A s \in Polled(n) : Owner(s) # t) => thread'[t] = thread[t]
       /\ \A s \in Polled(n) :
            IF In(bqueue', s)
            THEN Watched(sock'[s], s) /\ thread'[Owner(s)] = thread[Owner(s)] /\ sock[s].fd \notin C
            ELSE Unwatched(sock'[s]) /\ thread'[Owner(s)].run = "ready"
       /\ Once(bqueue') /\ (\A s : In(bqueue', s) => s \in Polled(n))
       /\ writefds' = {} /\ readfds' = FdsOf(bqueue')
  <2>1. T \in PassType
    BY <1>11 DEF PassInv
  <2>2. T.sock \in [Net!Socks -> SockType] /\ ThreadsOk(T.thread) /\ T.bqueue \in Seq(Net!Socks)
    BY <2>1 DEF PassType
  <2> QED BY <1>11, <1>12, <2>2 DEF PassInv
<1>14. \A s \in Net!Socks : WaitsIn(thread', s) <=> In(bqueue', s)
  <2> TAKE s \in Net!Socks
  <2>0. Owner(s) \in Net!Threads
    BY DEF Owner, Net!Threads
  <2>1. CASE s \in Polled(n)
    BY <1>2, <1>13, <2>1 DEF WaitsIn
  <2>2. CASE s \notin Polled(n)
    <3>1. ~In(bqueue', s) /\ ~WaitsIn(thread, s)
      BY <1>2, <1>13, <2>2
    <3>2. CASE \A r \in Polled(n) : Owner(r) # Owner(s)
      BY <1>13, <2>0, <3>1, <3>2 DEF WaitsIn
    <3>3. CASE \E r \in Polled(n) : Owner(r) = Owner(s)
      <4>1. PICK r \in Polled(n) : Owner(r) = Owner(s)
        BY <3>3
      <4>2. thread'[Owner(s)] = thread[Owner(s)] \/ thread'[Owner(s)].run = "ready"
        BY <1>13, <4>1
      <4> QED BY <3>1, <4>2 DEF WaitsIn
    <3> QED BY <3>2, <3>3
  <2> QED BY <2>1, <2>2
<1>15. WaitsOk'
  <2>1. ASSUME NEW s \in Net!Socks
        PROVE  IF WaitsIn(thread', s) THEN Watched(sock'[s], s) ELSE Unwatched(sock'[s])
    <3>1. CASE s \in Polled(n)
      BY <1>13, <1>14, <3>1
    <3>2. CASE s \notin Polled(n)
      <4>1. ~WaitsIn(thread', s) /\ ~WaitsIn(thread, s) /\ sock'[s] = sock[s]
        BY <1>2, <1>13, <1>14, <3>2
      <4> QED BY <4>1 DEF SocksInv, WaitsOk
    <3> QED BY <3>1, <3>2
  <2>2. WaitsIn(thread', "client") => state' = 1
    <3>1. "client" \in Net!Socks
      BY DEF Net!Socks
    <3>2. WaitsIn(thread', "client") => WaitsIn(thread, "client")
      BY <1>2, <1>13, <1>14, <3>1
    <3> QED BY <1>8, <3>2 DEF SocksInv, WaitsOk
  <2> QED BY <2>1, <2>2 DEF WaitsOk
<1>16. readfds' = FdsOf(bqueue)' /\ FdsOk'
  <2>1. readfds' = FdsOf(bqueue)'
    BY <1>13 DEF FdsOf
  <2>2. FdsOk'
    BY <1>8, <1>13 DEF SocksInv, FdsOk, Net!Socks
  <2> QED BY <2>1, <2>2
<1>17. QueueOk'
  BY <1>13, <1>14, <1>16 DEF QueueOk
(* serviced is touched only if it waits for a socket of its. *)
<1>18. thread["serviced"].run # "asleep" \/ thread["serviced"].on = <<"lookup", "none">>
         => thread'["serviced"] = thread["serviced"]
  <2> SUFFICES ASSUME thread["serviced"].run # "asleep" \/ thread["serviced"].on = <<"lookup", "none">>
               PROVE  \A s \in Polled(n) : Owner(s) # "serviced"
    BY <1>13 DEF Net!Threads
  <2> SUFFICES ASSUME NEW s \in Polled(n), Owner(s) = "serviced" PROVE FALSE
    OBVIOUS
  <2>1. thread["serviced"].run = "asleep" /\ thread["serviced"].on = <<s, "read">>
    BY <1>2, <1>3 DEF WaitsIn
  <2>2. <<s, "read">>[2] = "read" /\ <<"lookup", "none">>[2] = "none"
    OBVIOUS
  <2> QED BY <2>1, <2>2
<1>19. ServicedOk'
  <2>1. timer => thread'["serviced"] = thread["serviced"]
    BY <1>18 DEF SocksInv, ServicedOk
  <2> QED BY <1>8, <2>1 DEF SocksInv, ServicedOk
<1>20. SocksInv'
  BY <1>13, <1>15, <1>16, <1>17, <1>19 DEF SocksInv
<1>21. Net!PassKeepsWakeups
  <2>1. thread["serviced"].run = "ready" => thread'["serviced"].run = "ready"
    BY <1>18
  <2>2. ASSUME NEW t \in Net!Threads, NEW s \in Net!Socks, Net!Readable(s),
               thread[t] = [run |-> "asleep", on |-> <<s, "read">>]
        PROVE  thread'[t].run = "ready"
    <3>1. t = Owner(s) /\ WaitsIn(thread, s)
      <4>1. thread[t].run = "asleep" /\ thread[t].on = <<s, "read">>
        BY <2>2
      <4>2. thread[t].on \in On(t)
        BY <1>1 DEF ThreadsOk
      <4>3. t = Owner(s)
        BY <4>1, <4>2 DEF On, Owner, Net!Threads, Net!Socks
      <4> QED BY <4>1, <4>3 DEF WaitsIn
    <3>2. s \in Polled(n) /\ sock[s].fd \in readfds
      BY <1>1, <1>2, <3>1 DEF FdsOf
    <3>3. sock[s].fd \in C
      BY <1>5, <2>2, <3>2
    <3> QED BY <1>13, <3>1, <3>2, <3>3
  <2> QED BY <2>1, <2>2 DEF Net!PassKeepsWakeups
<1> QED BY <1>20, <1>21
SameWaits(r, q) == r.flag = q.flag /\ r.jrd = q.jrd /\ r.jwr = q.jwr

LEMMA NobodyWaits ==
  ASSUME SocksInv, NEW s \in Net!Socks, thread[Owner(s)].run # "asleep"
  PROVE  ~WaitsIn(thread, s) /\ Unwatched(sock[s]) /\ ~In(bqueue, s)
<1>1. ~WaitsIn(thread, s)
  BY DEF WaitsIn
<1> QED BY <1>1 DEF SocksInv, WaitsOk, QueueOk

(* A step that leaves the waiting sockets and the waits as they are. *)
LEMMA WaitsKept ==
  ASSUME SocksInv, ThreadsOk(thread'), sock' \in [Net!Socks -> SockType],
         UNCHANGED <<bqueue, readfds, writefds>>,
         \A r \in Net!Socks : SameWaits(sock[r], sock'[r]) /\ (WaitsIn(thread, r) => sock'[r] = sock[r])
                              /\ (WaitsIn(thread', r) <=> WaitsIn(thread, r)),
         WaitsIn(thread, "client") => state' = 1
  PROVE  WaitsOk' /\ QueueOk'
<1>1. ASSUME NEW r \in Net!Socks
      PROVE  IF WaitsIn(thread', r) THEN Watched(sock'[r], r) ELSE Unwatched(sock'[r])
  <2>1. IF WaitsIn(thread, r) THEN Watched(sock[r], r) ELSE Unwatched(sock[r])
    BY DEF SocksInv, WaitsOk
  <2> QED BY <2>1 DEF SameWaits, Unwatched
<1>2. WaitsIn(thread', "client") => state' = 1
  BY DEF Net!Socks
<1>3. WaitsOk'
  BY <1>1, <1>2 DEF WaitsOk
<1>4. \A r \in Net!Socks : In(bqueue', r) <=> WaitsIn(thread', r)
  BY DEF SocksInv, QueueOk
<1>5. FdsOf(bqueue)' = FdsOf(bqueue)
  <2>1. \A r \in {r \in Net!Socks : In(bqueue, r)} : sock'[r].fd = sock[r].fd
    BY DEF SocksInv, QueueOk
  <2>2. {r \in Net!Socks : In(bqueue, r)}' = {r \in Net!Socks : In(bqueue, r)}
    OBVIOUS
  <2> QED BY <2>1, <2>2 DEF FdsOf
<1>6. QueueOk'
  BY <1>4, <1>5 DEF SocksInv, QueueOk
<1> QED BY <1>3, <1>6

(* q_read() by the owner, which was running; only a socket that nobody      *)
(* waits for may have changed before.                                       *)
LEMMA WaitStarts ==
  ASSUME SocksInv, NEW s \in Net!Socks, thread[Owner(s)].run = "running",
         NEW sk \in [Net!Socks -> SockType],
         \A r \in Net!Socks : SameWaits(sock[r], sk[r]) /\ (WaitsIn(thread, r) => sk[r] = sock[r]),
         NEW st, st = [sock |-> sk, bqueue |-> bqueue, readfds |-> readfds, writefds |-> writefds,
                       thread |-> thread],
         Net!Become(Net!QRead(st, s, Owner(s))),
         WaitsIn(thread, "client") \/ s = "client" => state' = 1
  PROVE  /\ sock' \in [Net!Socks -> SockType] /\ ThreadsOk(thread') /\ WaitsOk' /\ QueueOk'
         /\ \A r \in Net!Socks : sock'[r].fd = sk[r].fd
         /\ \A t \in Net!Threads \ {Owner(s)} : thread'[t] = thread[t]
<1>0. /\ sock \in [Net!Socks -> SockType] /\ ThreadsOk(thread) /\ bqueue \in Seq(Net!Socks)
      /\ writefds = {} /\ readfds = FdsOf(bqueue) /\ Once(bqueue)
  BY DEF SocksInv, QueueOk
<1>1. st \in NowType
  <2>1. readfds \in SUBSET Int
    <3>1. \A r \in Net!Socks : sock[r].fd \in Int
      BY <1>0 DEF SockType
    <3> QED BY <1>0, <3>1 DEF FdsOf
  <2>2. thread \in {th \in [Net!Threads -> [run : {"running", "ready", "asleep"},
                                    on : On("bdhtnet") \cup On("serviced")]] : ThreadsOk(th)}
    BY <1>0 DEF ThreadsOk
  <2> QED BY <1>0, <2>1, <2>2 DEF NowType
<1>2. ~WaitsIn(thread, s) /\ Unwatched(sock[s]) /\ ~In(bqueue, s)
  BY NobodyWaits
<1>3. st.sock[s].flag = {} /\ st.sock[s].jwr = "none" /\ st.sock = sk /\ st.bqueue = bqueue
      /\ st.readfds = readfds /\ st.writefds = {} /\ st.thread = thread
  BY <1>0, <1>2 DEF SameWaits, Unwatched
<1>4. PICK T : T = Net!QRead(st, s, Owner(s))
  OBVIOUS
<1>5. /\ T \in NowType /\ T.readfds = st.readfds \cup {st.sock[s].fd} /\ T.writefds = st.writefds
      /\ T.bqueue = Append(st.bqueue, s)
      /\ T.sock[s].fd = st.sock[s].fd /\ T.sock[s].flag = {"read", "queue"}
      /\ T.sock[s].jrd = Owner(s) /\ T.sock[s].jwr = st.sock[s].jwr
      /\ \A r \in Net!Socks \ {s} : T.sock[r] = st.sock[r]
      /\ \A t \in Net!Threads \ {Owner(s)} : T.thread[t] = st.thread[t]
      /\ T.thread[Owner(s)] = IF st.thread[Owner(s)].run = "asleep" THEN st.thread[Owner(s)]
                              ELSE [run |-> "asleep", on |-> <<s, "read">>]
  BY <1>1, <1>3, <1>4, QReadIs
<1>6. sock' = T.sock /\ bqueue' = T.bqueue /\ readfds' = T.readfds /\ writefds' = T.writefds
      /\ thread' = T.thread
  BY <1>4 DEF Net!Become
<1>7. sock' \in [Net!Socks -> SockType] /\ ThreadsOk(thread') /\ bqueue' \in Seq(Net!Socks)
  BY <1>5, <1>6 DEF NowType
<1>8. /\ \A r \in Net!Socks : sock'[r].fd = sk[r].fd
      /\ \A t \in Net!Threads \ {Owner(s)} : thread'[t] = thread[t]
      /\ Watched(sock'[s], s) /\ \A r \in Net!Socks \ {s} : sock'[r] = sk[r]
  BY <1>3, <1>5, <1>6 DEF Watched
<1>9. thread'[Owner(s)] = [run |-> "asleep", on |-> <<s, "read">>]
  BY <1>3, <1>5, <1>6
<1>10. ASSUME NEW r \in Net!Socks PROVE WaitsIn(thread', r) <=> WaitsIn(thread, r) \/ r = s
  <2>1. CASE Owner(r) = Owner(s)
    <3>1. ~WaitsIn(thread, r)
      BY <2>1 DEF WaitsIn
    <3>2. WaitsIn(thread', r) <=> <<s, "read">> = <<r, "read">>
      BY <1>9, <2>1 DEF WaitsIn
    <3>3. <<s, "read">> = <<r, "read">> <=> r = s
      OBVIOUS
    <3> QED BY <3>1, <3>2, <3>3
  <2>2. CASE Owner(r) # Owner(s)
    <3>1. thread'[Owner(r)] = thread[Owner(r)]
      BY <1>8, <2>2 DEF Owner, Net!Threads
    <3> QED BY <2>2, <3>1 DEF WaitsIn
  <2> QED BY <2>1, <2>2
<1>11. WaitsOk'
  <2>1. ASSUME NEW r \in Net!Socks
        PROVE  IF WaitsIn(thread', r) THEN Watched(sock'[r], r) ELSE Unwatched(sock'[r])
    <3>1. CASE r = s
      BY <1>8, <1>10, <3>1
    <3>2. CASE r # s
      <4>1. IF WaitsIn(thread, r) THEN Watched(sock[r], r) ELSE Unwatched(sock[r])
        BY DEF SocksInv, WaitsOk
      <4>2. sock'[r] = sk[r] /\ (WaitsIn(thread', r) <=> WaitsIn(thread, r))
        BY <1>8, <1>10, <3>2
      <4> QED BY <4>1, <4>2 DEF SameWaits, Unwatched
    <3> QED BY <3>1, <3>2
  <2>2. WaitsIn(thread', "client") => state' = 1
    BY <1>10 DEF Net!Socks
  <2> QED BY <2>1, <2>2 DEF WaitsOk
<1>12. Once(bqueue') /\ \A r : In(bqueue', r) <=> In(bqueue, r) \/ r = s
  <2>1. PICK S, q, p : S = Net!Socks /\ q = bqueue /\ p = bqueue'
    OBVIOUS
  <2>2. q \in Seq(S) /\ s \in S /\ Once(q) /\ ~In(q, s) /\ p = Append(q, s)
    BY <1>0, <1>2, <1>3, <1>5, <1>6, <2>1
  <2>3. Once(p) /\ \A r : In(p, r) <=> In(q, r) \/ r = s
    BY ONLY <2>2, InAppended
  <2> QED BY <2>1, <2>3
<1>13. \A r \in Net!Socks : In(bqueue', r) <=> WaitsIn(thread', r)
  BY <1>10, <1>12 DEF SocksInv, QueueOk
<1>14. writefds' = {} /\ readfds' = FdsOf(bqueue)'
  <2>1. \A r \in Net!Socks : In(bqueue, r) => sk[r].fd = sock[r].fd
    BY DEF SocksInv, QueueOk
  <2>2. readfds' = readfds \cup {sk[s].fd} /\ writefds' = {}
    BY <1>3, <1>5, <1>6
  <2>3. FdsOf(bqueue)' = {sk[r].fd : r \in {r \in Net!Socks : In(bqueue', r)}}
    BY <1>8 DEF FdsOf
  <2>4. ASSUME NEW x PROVE x \in readfds' <=> x \in {sk[r].fd : r \in {r \in Net!Socks : In(bqueue', r)}}
    <3>1. x \in readfds <=> \E r \in Net!Socks : In(bqueue, r) /\ x = sock[r].fd
      BY <1>0 DEF FdsOf
    <3>2. x \in {sk[r].fd : r \in {r \in Net!Socks : In(bqueue', r)}}
            <=> \E r \in Net!Socks : In(bqueue', r) /\ x = sk[r].fd
      OBVIOUS
    <3> QED BY <1>12, <2>1, <2>2, <3>1, <3>2
  <2> QED BY <2>2, <2>3, <2>4
<1>15. QueueOk'
  BY <1>7, <1>12, <1>13, <1>14 DEF QueueOk
<1> QED BY <1>7, <1>8, <1>11, <1>15
LEMMA RunKeeps ==
  ASSUME SocksInv, NEW t \in Net!Threads, Net!Run(t)
  PROVE  SocksInv'
<1>1. /\ thread[t].run = "ready" /\ thread' = [thread EXCEPT ![t].run = "running"]
      /\ UNCHANGED <<sock, bqueue, readfds, writefds, state, timer, open, crashed>>
  BY DEF Net!Run, Net!net, Net!kernel
<1>2. /\ ThreadsOk(thread') /\ thread'[t].run = "running"
      /\ \A u \in Net!Threads \ {t} : thread'[u] = thread[u]
  <2>1. thread \in [Net!Threads -> [run : {"running", "ready", "asleep"}, on : On("bdhtnet") \cup On("serviced")]]
    BY DEF SocksInv, ThreadsOk
  <2>2. PICK r : r = [thread[t] EXCEPT !.run = "running"]
    OBVIOUS
  <2>3. r \in [run : {"running", "ready", "asleep"}, on : On("bdhtnet") \cup On("serviced")]
        /\ r.run = "running" /\ r.on = thread[t].on
    BY <2>1, <2>2
  <2>4. thread' = [thread EXCEPT ![t] = r]
    BY <1>1, <2>2
  <2> QED BY <2>1, <2>3, <2>4 DEF SocksInv, ThreadsOk
<1>3. \A r \in Net!Socks : WaitsIn(thread', r) <=> WaitsIn(thread, r)
  BY <1>1, <1>2 DEF WaitsIn, Owner, Net!Threads
<1>4. WaitsOk' /\ QueueOk'
  <2>1. \A r \in Net!Socks : SameWaits(sock[r], sock'[r]) /\ sock'[r] = sock[r]
    BY <1>1 DEF SameWaits
  <2>2. WaitsIn(thread, "client") => state' = 1
    BY <1>1 DEF SocksInv, WaitsOk
  <2>3. sock' \in [Net!Socks -> SockType]
    BY <1>1 DEF SocksInv
  <2> QED BY <1>1, <1>2, <1>3, <2>1, <2>2, <2>3, WaitsKept
<1>5. ServicedOk'
  BY <1>1, <1>2 DEF SocksInv, ServicedOk, Net!Threads
<1> QED BY <1>1, <1>2, <1>4, <1>5 DEF SocksInv, FdsOk

(* A step that only moves what the kernel has, and serviced's state. *)
LEMMA KernelKeeps ==
  ASSUME SocksInv, UNCHANGED <<sock, bqueue, readfds, writefds, thread, timer, open, crashed>>,
         \/ UNCHANGED state
         \/ Net!Running("serviced") /\ state = 1 /\ state' \in {0, 5}
         \/ Net!Running("serviced") /\ state = 5 /\ state' = 0
  PROVE  SocksInv'
<1>1. WaitsIn(thread, "client") => state' = 1
  <2>1. CASE UNCHANGED state
    BY <2>1 DEF SocksInv, WaitsOk
  <2>2. CASE Net!Running("serviced")
    BY <2>2 DEF Net!Running, WaitsIn, Owner
  <2> QED BY <2>1, <2>2
<1>2. WaitsOk' /\ QueueOk'
  <2>1. \A r \in Net!Socks : SameWaits(sock[r], sock'[r]) /\ sock'[r] = sock[r]
                             /\ (WaitsIn(thread', r) <=> WaitsIn(thread, r))
    BY DEF SameWaits
  <2>2. sock' \in [Net!Socks -> SockType] /\ ThreadsOk(thread')
    BY DEF SocksInv
  <2> QED BY <1>1, <2>1, <2>2, WaitsKept
<1> QED BY <1>2 DEF SocksInv, FdsOk, ServicedOk

LEMMA NetReceiveKeeps ==
  ASSUME SocksInv, Net!NetReceive
  PROVE  SocksInv'
<1>1. /\ thread["bdhtnet"].run = "running" /\ Net!Become(Net!QRead(Net!Now, "udp", "bdhtnet"))
      /\ UNCHANGED <<state, timer, open, crashed>>
  BY DEF Net!NetReceive, Net!Running
<1>2. PICK st : st = [sock |-> sock, bqueue |-> bqueue, readfds |-> readfds, writefds |-> writefds,
                      thread |-> thread]
  OBVIOUS
<1>3. Owner("udp") = "bdhtnet" /\ "udp" \in Net!Socks
  BY DEF Owner, Net!Socks
<1>4. Net!Become(Net!QRead(st, "udp", Owner("udp")))
  BY <1>1, <1>2, <1>3 DEF Net!Now
<1>5. /\ sock' \in [Net!Socks -> SockType] /\ ThreadsOk(thread') /\ WaitsOk' /\ QueueOk'
      /\ \A r \in Net!Socks : sock'[r].fd = sock[r].fd
      /\ \A t \in Net!Threads \ {Owner("udp")} : thread'[t] = thread[t]
  <2>1. sock \in [Net!Socks -> SockType]
    BY DEF SocksInv
  <2>2. \A r \in Net!Socks : SameWaits(sock[r], sock[r]) /\ (WaitsIn(thread, r) => sock[r] = sock[r])
    BY DEF SameWaits
  <2>3. WaitsIn(thread, "client") \/ "udp" = "client" => state' = 1
    BY <1>1 DEF SocksInv, WaitsOk
  <2> QED BY <1>1, <1>2, <1>3, <1>4, <2>1, <2>2, <2>3, WaitStarts
<1>6. FdsOk' /\ ServicedOk'
  <2>1. thread'["serviced"] = thread["serviced"]
    BY <1>3, <1>5 DEF Net!Threads
  <2> QED BY <1>1, <1>5, <2>1 DEF SocksInv, FdsOk, ServicedOk, Net!Socks
<1> QED BY <1>5, <1>6 DEF SocksInv

LEMMA ReceiveNoneKeeps ==
  ASSUME SocksInv, Net!ReceiveNone
  PROVE  SocksInv'
<1>1. /\ thread["serviced"].run = "running" /\ Net!Become(Net!QRead(Net!Now, "client", "serviced"))
      /\ state = 1 /\ UNCHANGED <<state, timer, open, crashed>>
  BY DEF Net!ReceiveNone, Net!Running, Net!kernel
<1>2. PICK st : st = [sock |-> sock, bqueue |-> bqueue, readfds |-> readfds, writefds |-> writefds,
                      thread |-> thread]
  OBVIOUS
<1>3. Owner("client") = "serviced" /\ "client" \in Net!Socks
  BY DEF Owner, Net!Socks
<1>4. Net!Become(Net!QRead(st, "client", Owner("client")))
  BY <1>1, <1>2, <1>3 DEF Net!Now
<1>5. /\ sock' \in [Net!Socks -> SockType] /\ ThreadsOk(thread') /\ WaitsOk' /\ QueueOk'
      /\ \A r \in Net!Socks : sock'[r].fd = sock[r].fd
  <2>1. sock \in [Net!Socks -> SockType]
    BY DEF SocksInv
  <2>2. \A r \in Net!Socks : SameWaits(sock[r], sock[r]) /\ (WaitsIn(thread, r) => sock[r] = sock[r])
    BY DEF SameWaits
  <2> QED BY <1>1, <1>2, <1>3, <1>4, <2>1, <2>2, WaitStarts
<1>6. FdsOk' /\ ServicedOk'
  <2>1. ~timer
    BY <1>1 DEF SocksInv, ServicedOk
  <2> QED BY <1>1, <1>5, <2>1 DEF SocksInv, FdsOk, ServicedOk, Net!Socks
<1> QED BY <1>5, <1>6 DEF SocksInv

LEMMA AcceptNoneKeeps ==
  ASSUME SocksInv, Net!AcceptNone
  PROVE  SocksInv'
<1> DEFINE sk == [sock EXCEPT !["client"].fd = -1]
<1>1. /\ thread["serviced"].run = "running" /\ state = 0 /\ open' = open \ {sock["client"].fd}
      /\ Net!Become(Net!QRead([Net!Now EXCEPT !.sock["client"].fd = -1], "listener", "serviced"))
      /\ UNCHANGED <<state, timer, crashed>>
  BY DEF Net!AcceptNone, Net!Running
<1>2. PICK st : st = [sock |-> sk, bqueue |-> bqueue, readfds |-> readfds, writefds |-> writefds,
                      thread |-> thread]
  OBVIOUS
<1>3. Owner("listener") = "serviced" /\ "listener" \in Net!Socks /\ Owner("client") = "serviced"
      /\ "client" \in Net!Socks
  BY DEF Owner, Net!Socks
<1>4. Net!Become(Net!QRead(st, "listener", Owner("listener")))
  <2>1. st = [Net!Now EXCEPT !.sock["client"].fd = -1]
    BY <1>2 DEF Net!Now
  <2> QED BY <1>1, <1>3, <2>1
<1>5. /\ sk \in [Net!Socks -> SockType] /\ sk["client"].fd = -1
      /\ SameWaits(sock["client"], sk["client"])
      /\ \A r \in Net!Socks \ {"client"} : sk[r] = sock[r]
  <2>1. sock \in [Net!Socks -> SockType] /\ sock["client"] \in SockType
    BY <1>3 DEF SocksInv
  <2>2. PICK q : q = [sock["client"] EXCEPT !.fd = -1]
    OBVIOUS
  <2>3. q \in SockType /\ q.fd = -1 /\ SameWaits(sock["client"], q)
    BY <2>1, <2>2 DEF SockType, SameWaits
  <2>4. sk = [sock EXCEPT !["client"] = q]
    BY <2>2
  <2> QED BY <1>3, <2>1, <2>3, <2>4
<1>6. ~WaitsIn(thread, "client")
  BY <1>1, <1>3, NobodyWaits
<1>7. \A r \in Net!Socks : SameWaits(sock[r], sk[r]) /\ (WaitsIn(thread, r) => sk[r] = sock[r])
  BY <1>5, <1>6 DEF SameWaits
<1> HIDE DEF sk
<1>8. /\ sock' \in [Net!Socks -> SockType] /\ ThreadsOk(thread') /\ WaitsOk' /\ QueueOk'
      /\ \A r \in Net!Socks : sock'[r].fd = sk[r].fd
  BY <1>1, <1>2, <1>3, <1>4, <1>5, <1>6, <1>7, WaitStarts
<1>9. FdsOk'
  <2>1. sock'["listener"].fd = 1 /\ sock'["udp"].fd = 2 /\ sock'["client"].fd = -1
    BY <1>5, <1>8 DEF SocksInv, FdsOk, Net!Socks
  <2>2. open' = {1, 2}
    BY <1>1 DEF SocksInv, FdsOk
  <2> QED BY <1>1, <2>1, <2>2 DEF FdsOk
<1>10. ServicedOk'
  BY <1>1 DEF SocksInv, ServicedOk
<1> QED BY <1>8, <1>9, <1>10 DEF SocksInv
LEMMA AcceptKeeps ==
  ASSUME Net!BsocketAssumption, SocksInv, Net!Accept
  PROVE  SocksInv'
<1> DEFINE free == 1 .. MaxFd \ open
           fd == CHOOSE f \in free : \A g \in free : f <= g
<1>1. /\ thread["serviced"].run = "running" /\ state = 0 /\ state' = 1
      /\ open' = (open \cup {fd}) \ {sock["client"].fd}
      /\ sock' = [sock EXCEPT !["client"].fd = fd]
      /\ UNCHANGED <<bqueue, readfds, writefds, thread, timer, crashed>>
  BY DEF Net!Accept, Net!Running, Net!net
<1>2. fd \in 3 .. MaxFd /\ fd # sock["client"].fd
  <2>1. \E f \in free : TRUE
    <3>1. 3 \in 1 .. MaxFd /\ 4 \in 1 .. MaxFd
      BY DEF Net!BsocketAssumption
    <3>2. 3 \in free \/ 4 \in free
      BY <3>1 DEF SocksInv, FdsOk
    <3> QED BY <3>2
  <2>2. free \in SUBSET Nat /\ free # {}
    BY <2>1
  <2> HIDE DEF free
  <2>3. \E f \in free : \A g \in free : f <= g
    BY <2>2, LeastExists
  <2>4. fd \in free
    BY <2>3
  <2> HIDE DEF fd
  <2>5. fd \in 1 .. MaxFd /\ fd \notin open /\ MaxFd \in Nat
    BY <2>4 DEF free, Net!BsocketAssumption
  <2>6. fd # 1 /\ fd # 2 /\ (sock["client"].fd # -1 => fd # sock["client"].fd) /\ fd # -1
    BY <2>5 DEF SocksInv, FdsOk
  <2> QED BY <2>5, <2>6
<1> HIDE DEF fd
<1>3. fd \in Int /\ fd # -1 /\ fd # 1 /\ fd # 2 /\ MaxFd \in Nat
  BY <1>2 DEF Net!BsocketAssumption
<1>4. Owner("client") = "serviced" /\ "client" \in Net!Socks
  BY DEF Owner, Net!Socks
<1>5. /\ sock' \in [Net!Socks -> SockType] /\ sock'["client"].fd = fd
      /\ SameWaits(sock["client"], sock'["client"])
      /\ \A r \in Net!Socks \ {"client"} : sock'[r] = sock[r]
  <2>1. sock \in [Net!Socks -> SockType] /\ sock["client"] \in SockType
    BY <1>4 DEF SocksInv
  <2>2. PICK q : q = [sock["client"] EXCEPT !.fd = fd]
    OBVIOUS
  <2>3. q \in SockType /\ q.fd = fd /\ SameWaits(sock["client"], q)
    BY <1>3, <2>1, <2>2 DEF SockType, SameWaits
  <2>4. sock' = [sock EXCEPT !["client"] = q]
    BY <1>1, <2>2
  <2> QED BY <1>4, <2>1, <2>3, <2>4
<1>6. ~WaitsIn(thread, "client")
  BY <1>1, <1>4, NobodyWaits
<1>7. WaitsOk' /\ QueueOk'
  <2>1. \A r \in Net!Socks : SameWaits(sock[r], sock'[r]) /\ (WaitsIn(thread, r) => sock'[r] = sock[r])
                             /\ (WaitsIn(thread', r) <=> WaitsIn(thread, r))
    BY <1>1, <1>5, <1>6 DEF SameWaits
  <2>2. ThreadsOk(thread')
    BY <1>1 DEF SocksInv
  <2> QED BY <1>1, <1>5, <1>6, <2>1, <2>2, WaitsKept
<1>8. FdsOk'
  <2>1. sock'["listener"].fd = 1 /\ sock'["udp"].fd = 2
    BY <1>5 DEF SocksInv, FdsOk, Net!Socks
  <2>2. open' = {1, 2} \cup {fd}
    <3>1. sock["client"].fd \in {-1} \cup 3 .. MaxFd
          /\ open = {1, 2} \cup ({sock["client"].fd} \ {-1})
      BY DEF SocksInv, FdsOk
    <3>2. sock["client"].fd # 1 /\ sock["client"].fd # 2
      BY <1>3, <3>1
    <3> QED BY <1>1, <1>2, <3>1, <3>2
  <2> QED BY <1>2, <1>3, <1>5, <2>1, <2>2 DEF FdsOk
<1>9. ServicedOk'
  BY <1>1 DEF SocksInv, ServicedOk
<1> QED BY <1>1, <1>5, <1>7, <1>8, <1>9 DEF SocksInv

(* serviced does something other than wait for a socket, before and after. *)
LEMMA ElsewhereKeeps ==
  ASSUME SocksInv, UNCHANGED <<sock, bqueue, readfds, writefds, open, crashed>>,
         NEW r \in {"running", "ready", "asleep"}, NEW on \in On("serviced"),
         thread' = [thread EXCEPT !["serviced"] = [run |-> r, on |-> on]],
         thread["serviced"].run # "asleep" \/ thread["serviced"].on = <<"lookup", "none">>,
         r # "asleep" \/ on = <<"lookup", "none">>,
         state' \in {0, 1, 5}, state' # 0 => state # 0,
         timer' \in BOOLEAN, timer' => r = "asleep" /\ on = <<"lookup", "none">>
  PROVE  SocksInv'
<1>1. /\ ThreadsOk(thread') /\ thread'["serviced"].run = r /\ thread'["serviced"].on = on
      /\ \A t \in Net!Threads \ {"serviced"} : thread'[t] = thread[t]
  <2>1. PICK rec : rec = [run |-> r, on |-> on]
    OBVIOUS
  <2>2. rec \in [run : {"running", "ready", "asleep"}, on : On("bdhtnet") \cup On("serviced")]
        /\ rec.run = r /\ rec.on = on
    BY <2>1
  <2>3. thread' = [thread EXCEPT !["serviced"] = rec]
    BY <2>1
  <2>4. thread \in [Net!Threads -> [run : {"running", "ready", "asleep"}, on : On("bdhtnet") \cup On("serviced")]]
        /\ \A t \in Net!Threads : thread[t].on \in On(t)
    BY DEF SocksInv, ThreadsOk
  <2> QED BY <2>2, <2>3, <2>4 DEF ThreadsOk, Net!Threads
<1>2. \A s \in Net!Socks : <<"lookup", "none">> # <<s, "read">>
  <2>1. \A s \in Net!Socks : <<s, "read">>[2] = "read" /\ <<"lookup", "none">>[2] = "none"
    OBVIOUS
  <2> QED BY <2>1
<1>3. ASSUME NEW s \in Net!Socks
      PROVE  (WaitsIn(thread', s) <=> WaitsIn(thread, s)) /\ (Owner(s) = "serviced" => ~WaitsIn(thread, s))
  <2>1. CASE Owner(s) = "serviced"
    BY <1>1, <1>2, <2>1 DEF WaitsIn
  <2>2. CASE Owner(s) # "serviced"
    BY <1>1, <2>2 DEF WaitsIn, Owner, Net!Threads
  <2> QED BY <2>1, <2>2
<1>4. ~WaitsIn(thread, "client")
  BY <1>3 DEF Owner, Net!Socks
<1>5. WaitsOk' /\ QueueOk'
  <2>1. \A s \in Net!Socks : SameWaits(sock[s], sock'[s]) /\ sock'[s] = sock[s]
    BY DEF SameWaits
  <2>2. sock' \in [Net!Socks -> SockType]
    BY DEF SocksInv
  <2> QED BY <1>1, <1>3, <1>4, <2>1, <2>2, WaitsKept
<1>6. FdsOk' /\ ServicedOk'
  BY <1>1 DEF SocksInv, FdsOk, ServicedOk
<1> QED BY <1>1, <1>5, <1>6 DEF SocksInv

LEMMA ServicedRecord ==
  ASSUME SocksInv
  PROVE  /\ thread["serviced"] = [run |-> thread["serviced"].run, on |-> thread["serviced"].on]
         /\ thread["serviced"].run \in {"running", "ready", "asleep"} /\ thread["serviced"].on \in On("serviced")
         /\ thread \in [Net!Threads -> [run : {"running", "ready", "asleep"}, on : On("bdhtnet") \cup On("serviced")]]
         /\ "serviced" \in Net!Threads
  BY DEF SocksInv, ThreadsOk, Net!Threads

LEMMA LookupKeeps ==
  ASSUME Slow = FALSE, Gone = FALSE, SocksInv, Net!Lookup
  PROVE  SocksInv'
<1>1. PICK asleep \in BOOLEAN :
        LET called == IF asleep
                      THEN [Net!Now EXCEPT !.thread = Net!Tsleep(@, "serviced", <<"lookup", Net!None>>)]
                      ELSE Net!Now
            rearmed(st) == [st EXCEPT !.thread["serviced"].run = "running"]
        IN
        /\ timer' = (timer \/ asleep)
        /\ \/ Net!Become(called) /\ state' = (IF asleep THEN 5 ELSE Net!Done)
           \/ Gone /\ Net!Become(rearmed(called)) /\ state' = 0
           \/ Slow /\ Net!Become(rearmed(Net!QWrite(called, "client", "serviced"))) /\ state' = 0
  BY Zenon DEF Net!Lookup
<1>2. /\ thread["serviced"].run = "running" /\ state = 5 /\ UNCHANGED <<open, crashed>> /\ timer = FALSE
  BY DEF Net!Lookup, Net!Running, Net!kernel, SocksInv, ServicedOk
<1>3. CASE asleep
  <2>1. /\ Net!Become([Net!Now EXCEPT !.thread = Net!Tsleep(@, "serviced", <<"lookup", Net!None>>)])
        /\ state' = 5 /\ timer' = TRUE
    BY <1>1, <1>3
  <2>2. thread' = [thread EXCEPT !["serviced"] = [run |-> "asleep", on |-> <<"lookup", "none">>]]
        /\ UNCHANGED <<sock, bqueue, readfds, writefds>>
    BY <1>2, <2>1 DEF Net!Become, Net!Now, Net!Tsleep, Net!None
  <2>3. <<"lookup", "none">> \in On("serviced")
    BY DEF On
  <2> QED BY <1>2, <2>1, <2>2, <2>3, ElsewhereKeeps
<1>4. CASE ~asleep
  <2>1. Net!Become(Net!Now) /\ state' = 0 /\ timer' = timer
    BY <1>1, <1>2, <1>4 DEF Net!Done
  <2>2. UNCHANGED <<sock, bqueue, readfds, writefds, thread>>
    BY <2>1 DEF Net!Become, Net!Now
  <2>3. Net!Running("serviced")
    BY DEF Net!Lookup
  <2> QED BY <1>2, <2>1, <2>2, <2>3, KernelKeeps
<1> QED BY <1>3, <1>4

LEMMA ExpireKeeps ==
  ASSUME SocksInv, Net!Expire
  PROVE  SocksInv'
<1>1. /\ timer /\ timer' = FALSE /\ UNCHANGED <<sock, bqueue, readfds, writefds, state, open, crashed>>
      /\ thread' = Net!Bwakeup(thread, "serviced", thread["serviced"].on)
  BY DEF Net!Expire, Net!net, Net!kernel
<1>2. thread["serviced"].run = "asleep" /\ thread["serviced"].on = <<"lookup", "none">>
  BY <1>1 DEF SocksInv, ServicedOk
<1>3. thread["serviced"] = [run |-> "asleep", on |-> <<"lookup", "none">>]
  BY <1>2, ServicedRecord
<1>4. thread' = [thread EXCEPT !["serviced"].run = "ready"]
  BY <1>1, <1>2, <1>3 DEF Net!Bwakeup
<1>5. thread' = [thread EXCEPT !["serviced"] = [run |-> "ready", on |-> <<"lookup", "none">>]]
  <2>1. [thread["serviced"] EXCEPT !.run = "ready"] = [run |-> "ready", on |-> <<"lookup", "none">>]
    BY <1>3
  <2> QED BY <1>4, <2>1
<1>6. <<"lookup", "none">> \in On("serviced")
  BY DEF On
<1>7. state' \in {0, 1, 5}
  BY <1>1 DEF SocksInv, ServicedOk
<1> QED BY <1>1, <1>2, <1>5, <1>6, <1>7, ElsewhereKeeps
LEMMA SocksInit ==
  ASSUME Net!BsocketAssumption, Net!Init
  PROVE  SocksInv
<1>1. /\ sock = [s \in Net!Socks |-> Net!Fresh(CASE s = "listener" -> 1 [] s = "udp" -> 2 [] OTHER -> -1)]
      /\ bqueue = <<>> /\ readfds = {} /\ writefds = {}
      /\ thread = [t \in Net!Threads |-> [run |-> "ready", on |-> <<"none", "none">>]]
      /\ state = 0 /\ timer = FALSE /\ open = {1, 2} /\ crashed = FALSE
  BY DEF Net!Init, Net!None
<1>2. /\ sock["listener"] = Net!Fresh(1) /\ sock["udp"] = Net!Fresh(2) /\ sock["client"] = Net!Fresh(-1)
      /\ sock = [s \in Net!Socks |-> sock[s]]
  BY <1>1 DEF Net!Socks
<1>3. ASSUME NEW f \in Int
      PROVE  Net!Fresh(f) \in SockType /\ Unwatched(Net!Fresh(f)) /\ Net!Fresh(f).fd = f
  BY DEF Net!Fresh, SockType, Unwatched, Net!None
<1>4. sock \in [Net!Socks -> SockType] /\ \A s \in Net!Socks : Unwatched(sock[s])
  BY <1>2, <1>3 DEF Net!Socks
<1>5. ThreadsOk(thread)
  <2>1. <<"none", "none">> \in On("bdhtnet") /\ <<"none", "none">> \in On("serviced")
    BY DEF On
  <2>2. \A t \in Net!Threads : <<"none", "none">> \in On(t)
    BY <2>1 DEF Net!Threads
  <2> QED BY <1>1, <2>1, <2>2 DEF ThreadsOk
<1>6. \A s \in Net!Socks : ~WaitsIn(thread, s)
  BY <1>1 DEF WaitsIn, Owner, Net!Threads
<1>7. WaitsOk
  BY <1>4, <1>6 DEF WaitsOk, Net!Socks
<1>8. QueueOk
  <2>1. bqueue \in Seq(Net!Socks) /\ Once(bqueue) /\ \A s : ~In(bqueue, s)
    BY <1>1 DEF Once, In
  <2> QED BY <1>1, <1>6, <2>1 DEF QueueOk, FdsOf
<1>9. FdsOk
  BY <1>1, <1>2, <1>3 DEF FdsOk
<1>10. ServicedOk
  BY <1>1 DEF ServicedOk
<1> QED BY <1>4, <1>5, <1>7, <1>8, <1>9, <1>10 DEF SocksInv

LEMMA SocksStep ==
  ASSUME Net!BsocketAssumption, Slow = FALSE, Gone = FALSE, SocksInv, [Net!Next]_Net!vars
  PROVE  SocksInv' /\ Net!PassKeepsWakeups
<1>0. SUFFICES ASSUME ~Net!Select
               PROVE  SocksInv' /\ (Net!Quiet => UNCHANGED bqueue)
  BY SelectKeeps DEF Net!PassKeepsWakeups
<1>1. ASSUME NEW t \in Net!Threads, Net!Run(t) PROVE SocksInv' /\ UNCHANGED bqueue
  BY <1>1, RunKeeps DEF Net!Run, Net!net
<1>2. ASSUME Net!NetReceive PROVE SocksInv' /\ ~Net!Quiet
  BY <1>2, NetReceiveKeeps DEF Net!NetReceive, Net!Running, Net!Quiet, Net!Threads
<1>3. ASSUME Net!Accept PROVE SocksInv' /\ ~Net!Quiet
  BY <1>3, AcceptKeeps DEF Net!Accept, Net!Running, Net!Quiet, Net!Threads
<1>4. ASSUME Net!AcceptNone PROVE SocksInv' /\ ~Net!Quiet
  BY <1>4, AcceptNoneKeeps DEF Net!AcceptNone, Net!Running, Net!Quiet, Net!Threads
<1>5. ASSUME Net!Receive PROVE SocksInv' /\ ~Net!Quiet
  <2>1. /\ Net!Running("serviced") /\ state = 1 /\ state' \in {0, 5}
        /\ UNCHANGED <<sock, bqueue, readfds, writefds, thread, timer, open, crashed>>
    BY <1>5 DEF Net!Receive, Net!net
  <2> QED BY <2>1, KernelKeeps DEF Net!Running, Net!Quiet, Net!Threads
<1>6. ASSUME Net!ReceiveNone PROVE SocksInv' /\ ~Net!Quiet
  BY <1>6, ReceiveNoneKeeps DEF Net!ReceiveNone, Net!Running, Net!Quiet, Net!Threads
<1>7. ASSUME Net!Lookup PROVE SocksInv' /\ ~Net!Quiet
  BY <1>7, LookupKeeps DEF Net!Lookup, Net!Running, Net!Quiet, Net!Threads
<1>8. ASSUME Net!Expire PROVE SocksInv' /\ UNCHANGED bqueue
  BY <1>8, ExpireKeeps DEF Net!Expire, Net!net
<1>9. ASSUME Net!Connect \/ Net!ClientSends \/ Net!Datagram \/ UNCHANGED Net!vars
      PROVE  SocksInv' /\ UNCHANGED bqueue
  <2>1. UNCHANGED <<sock, bqueue, readfds, writefds, thread, timer, state, open, crashed>>
    BY <1>9 DEF Net!Connect, Net!ClientSends, Net!Datagram, Net!vars, Net!net, Net!kernel
  <2> QED BY <2>1, KernelKeeps
<1> QED BY <1>0, <1>1, <1>2, <1>3, <1>4, <1>5, <1>6, <1>7, <1>8, <1>9 DEF Net!Next, Net!Serve

LEMMA SocksSound ==
  ASSUME Net!BsocketAssumption, SocksInv
  PROVE  Net!TypeOK /\ Net!QueuedOnce /\ Net!WaiterWatched /\ ~crashed
<1>1. Net!TypeOK
  <2>1. ASSUME NEW s \in Net!Socks
        PROVE  sock[s] \in [fd : -1 .. MaxFd, flag : SUBSET {"read", "write", "queue"},
                            jrd : Net!Threads \cup {Net!None}, jwr : Net!Threads \cup {Net!None}]
    <3>1. sock[s].fd \in {1, 2, -1} \cup 3 .. MaxFd
      BY DEF SocksInv, FdsOk, Net!Socks
    <3>2. sock[s].fd \in -1 .. MaxFd
      BY <3>1 DEF Net!BsocketAssumption
    <3>3. sock[s] \in SockType
      BY DEF SocksInv
    <3> QED BY <3>2, <3>3 DEF SockType, Net!Threads, Net!None
  <2>2. readfds \cup writefds \subseteq 1 .. MaxFd
    <3>1. ASSUME NEW s \in Net!Socks, In(bqueue, s) PROVE sock[s].fd \in 1 .. MaxFd
      <4>1. sock[s].fd # -1
        BY <3>1, WatchedFds DEF SocksInv, QueueOk
      <4>2. sock[s].fd \in {1, 2, -1} \cup 3 .. MaxFd
        BY DEF SocksInv, FdsOk, Net!Socks
      <4> QED BY <4>1, <4>2 DEF Net!BsocketAssumption
    <3> QED BY <3>1 DEF SocksInv, QueueOk, FdsOf
  <2> QED BY <2>1, <2>2 DEF Net!TypeOK, SocksInv, ServicedOk
<1>2. ASSUME NEW s \in Net!Socks
      PROVE  Net!Cardinality({i \in DOMAIN bqueue : bqueue[i] = s})
               = (IF "queue" \in sock[s].flag THEN 1 ELSE 0)
  <2>1. \A S : Net!Cardinality(S) = Cardinality(S)
    BY Zenon DEF Net!Cardinality, Cardinality
  <2>2. DOMAIN bqueue = 1 .. Len(bqueue) /\ Once(bqueue)
    BY DEF SocksInv, QueueOk
  <2>3. CASE In(bqueue, s)
    <3>1. PICK k \in 1 .. Len(bqueue) : bqueue[k] = s
      BY <2>3 DEF In
    <3>2. {i \in DOMAIN bqueue : bqueue[i] = s} = {k}
      BY <2>2, <3>1 DEF Once
    <3>3. "queue" \in sock[s].flag
      BY <2>3 DEF SocksInv, WaitsOk, QueueOk, Watched
    <3> QED BY <2>1, <3>2, <3>3, FS_Singleton
  <2>4. CASE ~In(bqueue, s)
    <3>1. {i \in DOMAIN bqueue : bqueue[i] = s} = {}
      BY <2>2, <2>4 DEF In
    <3>2. "queue" \notin sock[s].flag
      BY <2>4 DEF SocksInv, WaitsOk, QueueOk, Unwatched
    <3> QED BY <2>1, <3>1, <3>2, FS_EmptySet
  <2> QED BY <2>3, <2>4
<1>3. ASSUME NEW t \in Net!Threads, NEW s \in Net!Socks,
             thread[t] = [run |-> "asleep", on |-> <<s, "read">>]
      PROVE  sock[s].jrd = t /\ {"read", "queue"} \subseteq sock[s].flag /\ sock[s].fd \in readfds
  <2>1. thread[t].run = "asleep" /\ thread[t].on = <<s, "read">>
    BY <1>3
  <2>2. thread[t].on \in On(t)
    BY DEF SocksInv, ThreadsOk
  <2>3. t = Owner(s)
    BY <2>1, <2>2 DEF On, Owner, Net!Threads, Net!Socks
  <2>4. WaitsIn(thread, s) /\ Watched(sock[s], s)
    BY <2>1, <2>3 DEF WaitsIn, SocksInv, WaitsOk
  <2>5. sock[s].fd \in readfds
    BY <2>4 DEF SocksInv, QueueOk, FdsOf
  <2> QED BY <2>3, <2>4, <2>5 DEF Watched
<1> QED BY <1>1, <1>2, <1>3 DEF Net!QueuedOnce, Net!WaiterWatched, SocksInv, ServicedOk

(* As long as no send() fails: whoever waits for a socket is found by the   *)
(* next pass, a socket stands in the queue once, no select() is given a     *)
(* closed descriptor, and the pass wakes whom it should and takes nobody's  *)
(* wake-up away.                                                            *)
THEOREM SocketsSoundHolds ==
  ASSUME Net!BsocketAssumption, Slow = FALSE, Gone = FALSE
  PROVE  Net!Spec => /\ [](Net!TypeOK /\ Net!QueuedOnce /\ Net!WaiterWatched /\ ~crashed)
                     /\ [][Net!PassKeepsWakeups]_Net!vars
<1>1. Net!Init => SocksInv
  BY SocksInit
<1>2. SocksInv /\ [Net!Next]_Net!vars => SocksInv' /\ Net!PassKeepsWakeups
  BY SocksStep
<1>3. SocksInv => Net!TypeOK /\ Net!QueuedOnce /\ Net!WaiterWatched /\ ~crashed
  BY SocksSound
<1> QED BY <1>1, <1>2, <1>3, PTL DEF Net!Spec
=============================================================================
