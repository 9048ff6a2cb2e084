-------------------------------- MODULE Knode --------------------------------
(***************************************************************************)
(* A contact as the routing table keeps it (knode.cc): who it is, when it  *)
(* answered last and how often it failed since.  The port and b_birthday   *)
(* are left out: nothing is decided by them.                               *)
(***************************************************************************)
EXTENDS Integers

CONSTANTS
  NullId,    \* the all-zero id of an emptied backup slot
  DoubtAge,  \* 900: seconds after which a silent node is doubtful
  MaxFailed  \* bound on b_failed: from 3 on, failures are all alike

ASSUME KnodeAssumption == DoubtAge \in Nat /\ MaxFailed \in Nat /\ MaxFailed >= 3

(* knode(id, addr, port): never seen, b_last_seen = 0. *)
NewNode(item) == [id |-> item.id, host |-> item.host, seen |-> 0, failed |-> 0]

Touch(n, now) == [n EXCEPT !.seen = now, !.failed = 0]

(* contacted && touch() *)
Meet(n, contacted, now) == IF contacted THEN Touch(n, now) ELSE n

SetItem(n, item) == [n EXCEPT !.id = item.id, !.host = item.host]

Failed(n) == [n EXCEPT !.failed = IF @ < MaxFailed THEN @ + 1 ELSE @]

IsBad(n) == n.failed >= (IF n.seen = 0 THEN 2 ELSE 3)

IsDoubt(n, now) == ~IsBad(n) /\ (n.seen = 0 \/ n.seen + DoubtAge < now)

(* A node that was never seen and failed twice is both bad and good. *)
IsGood(n, now) == ~IsDoubt(n, now) /\ n.failed < 3
=============================================================================
