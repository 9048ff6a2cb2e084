-------------------------------- MODULE Kboot --------------------------------
(***************************************************************************)
(* The start of the node (main() of bloader.cc, load_session(),            *)
(* bdhtnet_start()) and the two daemons that keep its table filled:        *)
(* bootupd looks for the node's own id again and again, checkerd for an    *)
(* id in every bucket.  The table is what find_nodes() makes of it: it     *)
(* knows "none", some ("known"), or some that answered ("valid"); it is    *)
(* changed by the lookups and, between turns, by pingd and queries.        *)
(* A deadline is "set" until it has passed ("due").                        *)
(***************************************************************************)
EXTENDS Integers

CONSTANTS
  Routers,  \* the hosts main() puts in the table by name
  Session,  \* the contacts of the session file
  MaxBoot,  \* bound on the nodes of the seed files (8 boot contacts in the code)
  MaxSize   \* bound on b_nbucket0

KbootAssumption == MaxBoot \in Nat /\ MaxSize \in Nat /\ MaxSize > 4

Daemons == {"bootupd", "checkerd"}

VARIABLES
  step,     \* where main() is: "routers", "session", "start", or "loop"
  tableid,  \* "zero", "random" or "saved"
  wireid,   \* the id in the packets, copied by bdhtnet_start()
  placed,   \* contact |-> the table's id when its bucket was chosen
  boot,     \* boot contacts
  size,     \* size_of_table(), b_nbucket0: the buckets beyond the closest contacts
  nodes,    \* what find_nodes() finds: "none", "known" or "valid"
  run,      \* "null": asleep on NULL; "asleep", "ready" or "running"
  due,      \* "none", "set" or "due"
  b,        \* bootupd: state, b_refresh, b_usevalid
  c,        \* checkerd: state, __index, __retry
  answered  \* buckets whose lookup was answered since __index was 0

table == <<size, nodes>>
start == <<step, tableid, wireid, placed, boot>>
vars == <<start, table, run, due, b, c, answered>>

Init ==
  /\ step = "routers" /\ tableid = "zero" /\ wireid = "none"
  /\ placed = [x \in {} |-> "zero"]
  /\ boot \in 0 .. MaxBoot
  /\ size = 0 /\ nodes = "none"
  /\ run = [t \in Daemons |-> "null"] /\ due = [t \in Daemons |-> "none"]
  /\ b = [state |-> 0, refresh |-> TRUE, usevalid |-> FALSE]
  /\ c = [state |-> 0, index |-> 0, retry |-> FALSE]
  /\ answered = {}

-----------------------------------------------------------------------------
(* update_contact() for contacts that only have been heard of.  Each stands  *)
(* for any number of them: up to eight leave b_nbucket0 at 0.                *)
Place(S) ==
  /\ placed' = [x \in S \cup DOMAIN placed |->
                  IF x \in DOMAIN placed THEN placed[x] ELSE tableid']
  /\ nodes' = (IF S = {} THEN nodes ELSE "known")
  /\ size' \in (IF S = {} THEN {size} ELSE size .. MaxSize)

(* A router may have no address. *)
NameRouters ==
  /\ step = "routers" /\ step' = "session"
  /\ UNCHANGED tableid
  /\ \E S \in SUBSET Routers : Place(S)
  /\ UNCHANGED <<wireid, boot, run, due, b, c, answered>>

(* load_session(): a random id, the one of the file if there is one, and its nodes. *)
LoadSession ==
  /\ step = "session" /\ step' = "start"
  /\ \/ tableid' = "random" /\ Place({})
     \/ \E S \in SUBSET Session : tableid' \in {"random", "saved"} /\ Place(S)
  /\ UNCHANGED <<wireid, boot, run, due, b, c, answered>>

(* bdhtnet_start() *)
NetStart ==
  /\ step = "start" /\ step' = "loop"
  /\ wireid' = tableid
  /\ run' = [t \in Daemons |-> "ready"]
  /\ UNCHANGED <<tableid, placed, boot, table, due, b, c, answered>>

-----------------------------------------------------------------------------
Idle == \A t \in Daemons : run[t] # "running"

Turn(t) ==
  /\ Idle /\ run[t] = "ready" /\ run' = [run EXCEPT ![t] = "running"]
  /\ UNCHANGED <<start, table, due, b, c, answered>>

Sleep(t, how) == run' = [run EXCEPT ![t] = how]

(* find_nodes() of btkad.cc returns something. *)
Finds(valid) == nodes = "valid" \/ (nodes = "known" /\ ~valid)

(* What a lookup that ends makes of the table. *)
Learns ==
  /\ nodes' \in {"none", "known", "valid"}
  /\ size' \in size .. MaxSize

(* vcall() sleeps on the lookup's timer. *)
VcallSleeps(t) ==
  /\ Sleep(t, "asleep") /\ due' = [due EXCEPT ![t] = "set"]
  /\ UNCHANGED <<start, table, b, c, answered>>

(* Whom bootupd's lookup may start from. *)
StartNodes == Finds(b.usevalid) \/ Finds(FALSE) \/ boot > 0

(* bootupd, states 0 and 1 *)
BootFind ==
  /\ run["bootupd"] = "running" /\ b.state = 0
  /\ IF StartNodes
     THEN b' = [b EXCEPT !.state = 2] /\ UNCHANGED run
     ELSE Sleep("bootupd", "null") /\ UNCHANGED b
  /\ UNCHANGED <<start, table, due, c, answered>>

BootLookupSleeps ==
  run["bootupd"] = "running" /\ b.state = 2 /\ VcallSleeps("bootupd")

(* A lookup sends before it ends: it has slept. *)
Slept(t) == due[t] # "none"

(* States 2 and 3; the wait starts from the time the lookup was made. *)
BootLookupEnds ==
  /\ run["bootupd"] = "running" /\ b.state = 2 /\ Slept("bootupd")
  /\ \E few \in BOOLEAN : b' = [b EXCEPT !.state = 4, !.usevalid = few]
  /\ due' = [due EXCEPT !["bootupd"] = "none"]
  /\ Learns
  /\ UNCHANGED <<start, run, c, answered>>

(* Mutant: checkerd is not told. *)
RefreshedNot(r) == r

(* refresh_routing_table() *)
Refreshed(r) == IF r["checkerd"] = "null" THEN [r EXCEPT !["checkerd"] = "ready"] ELSE r

(* State 4; a thread that was woken early comes back here and waits again. *)
BootWait ==
  /\ run["bootupd"] = "running" /\ b.state = 4
  /\ LET big == size > 4
         told == IF big /\ b.refresh THEN Refreshed(run) ELSE run
         refresh == b.refresh /\ ~big
     IN  \/ /\ big /\ due["bootupd"] # "due"
            /\ run' = [told EXCEPT !["bootupd"] = "asleep"]
            /\ due' = [due EXCEPT !["bootupd"] = "set"]
            /\ b' = [b EXCEPT !.refresh = refresh]
         \/ /\ big => due["bootupd"] # "set"
            /\ run' = told /\ due' = [due EXCEPT !["bootupd"] = "none"]
            /\ b' = [b EXCEPT !.refresh = refresh, !.state = 0]
  /\ UNCHANGED <<start, table, c, answered>>

-----------------------------------------------------------------------------
CheckFound == c.index < size /\ Finds(c.retry)

(* checkerd, state 0; the index is below b_nbucket0 but when that is 0. *)
CheckFind ==
  /\ run["checkerd"] = "running" /\ c.state = 0
  /\ IF CheckFound
     THEN /\ c' = [state |-> 1, index |-> c.index + 1, retry |-> FALSE]
          /\ UNCHANGED run
     ELSE Sleep("checkerd", "null") /\ UNCHANGED c
  /\ UNCHANGED <<start, table, due, b, answered>>

CheckLookupSleeps ==
  run["checkerd"] = "running" /\ c.state = 1 /\ VcallSleeps("checkerd")

(* Mutant: an unanswered lookup is not made again. *)
NextIndexOn(heard) == c.index

NextIndex(heard) == IF heard THEN c.index ELSE c.index - 1

(* States 1 to 3: a lookup without an answer is made again, from nodes that *)
(* have answered.                                                           *)
CheckLookupEnds ==
  /\ run["checkerd"] = "running" /\ c.state = 1 /\ Slept("checkerd")
  /\ Learns
  /\ \E heard \in BOOLEAN :
       /\ answered' = (IF heard THEN answered \cup {c.index - 1} ELSE answered)
       /\ c' = [state |-> IF NextIndex(heard) < size' THEN 0 ELSE 4,
                index |-> NextIndex(heard), retry |-> ~heard]
  /\ due' = [due EXCEPT !["checkerd"] = "none"]
  /\ UNCHANGED <<start, run, b>>

(* States 4 and 5 *)
CheckWait ==
  /\ run["checkerd"] = "running" /\ c.state = 4
  /\ \/ /\ due["checkerd"] # "due"
        /\ due' = [due EXCEPT !["checkerd"] = "set"] /\ Sleep("checkerd", "asleep")
        /\ UNCHANGED <<c, answered>>
     \/ /\ due["checkerd"] = "due"
        /\ due' = [due EXCEPT !["checkerd"] = "none"]
        /\ c' = [c EXCEPT !.state = 0, !.index = 0] /\ answered' = {}
        /\ UNCHANGED run
  /\ UNCHANGED <<start, table, b>>

-----------------------------------------------------------------------------
(* btimerd: the deadline of a sleeping daemon has passed. *)
Expire(t) ==
  /\ Idle /\ run[t] = "asleep" /\ due[t] = "set"
  /\ run' = [run EXCEPT ![t] = "ready"] /\ due' = [due EXCEPT ![t] = "due"]
  /\ UNCHANGED <<start, table, b, c, answered>>

(* An older timer of the lookup wakes its thread too early. *)
ExpireOld(t) ==
  /\ Idle /\ run[t] = "asleep"
  /\ run' = [run EXCEPT ![t] = "ready"]
  /\ UNCHANGED <<start, table, due, b, c, answered>>

(* pingd, serviced and the peers' queries *)
TableChanges ==
  /\ Idle /\ step = "loop" /\ Learns
  /\ UNCHANGED <<start, run, due, b, c, answered>>

Bootupd == BootFind \/ BootLookupSleeps \/ BootLookupEnds \/ BootWait
Checkerd == CheckFind \/ CheckLookupSleeps \/ CheckLookupEnds \/ CheckWait

Next ==
  \/ NameRouters \/ LoadSession \/ NetStart
  \/ Bootupd \/ Checkerd \/ TableChanges
  \/ \E t \in Daemons : Turn(t) \/ Expire(t) \/ ExpireOld(t)

Spec == Init /\ [][Next]_vars

(* main() goes on, threads get their turns and finish them (RunnableRuns of  *)
(* Bthread), timers fire (TimedJobWakes), lookups end (AlwaysEnds of Kfind). *)
FairSpec ==
  /\ Spec
  /\ WF_vars(NameRouters \/ LoadSession \/ NetStart)
  /\ WF_vars(Bootupd \/ Checkerd)
  /\ SF_vars(BootLookupEnds) /\ SF_vars(CheckLookupEnds)
  /\ \A t \in Daemons : SF_vars(Turn(t)) /\ SF_vars(Expire(t))

-----------------------------------------------------------------------------
TypeOK ==
  /\ size \in 0 .. MaxSize
  /\ b.state \in {0, 2, 4} /\ c.state \in {0, 1, 4}
  /\ c.index \in 0 .. MaxSize /\ answered \subseteq 0 .. MaxSize - 1

(* Once the daemons run the packets carry the id of the table, and the      *)
(* contacts of the session are in the buckets that id gives them; only the  *)
(* routers were placed by another.                                          *)
OneId ==
  step = "loop" =>
    /\ wireid = tableid
    /\ \A x \in DOMAIN placed : placed[x] # tableid => x \in Routers

(* checkerd waits only after a lookup in every bucket below b_nbucket0 was   *)
(* answered.                                                                *)
EveryBucketAnswered ==
  [][c.state # 4 /\ c'.state = 4 => 0 .. size' - 1 \subseteq answered']_vars

(* checkerd stops only for want of nodes, none known, or none that ever      *)
(* answered after a lookup that nobody did; or for want of buckets, at its   *)
(* first turn, when a lookup was never made, with no contact beyond the      *)
(* closest eight.  A refresh that has begun never runs off the table.        *)
StopsForWantOfNodes ==
  [][run["checkerd"] = "running" /\ run'["checkerd"] = "null" =>
       \/ nodes = "none" \/ (c.retry /\ nodes # "valid")
       \/ size = 0 /\ c.index = 0 /\ answered = {}]_vars

(* With a boot contact bootupd never gives up.                              *)
BootupdGoesOn == boot > 0 => []<>(b.state = 2)

(* checkerd, stopped for want of nodes or buckets before the table was large*)
(* enough to be refreshed, is started again once it is.                     *)
RefreshRestarts ==
  (boot > 0 /\ run["checkerd"] = "null" /\ b.refresh /\ size > 4) ~> (run["checkerd"] # "null")
=============================================================================
