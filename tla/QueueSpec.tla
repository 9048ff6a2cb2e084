------------------------------ MODULE QueueSpec ------------------------------
(***************************************************************************)
(* What a request queue of libbt is to its callers: a sequence, and what   *)
(* each call returns.                                                      *)
(***************************************************************************)
EXTENDS Integers, SequencesExt

CONSTANTS Requests, TooLong, QUEUESIZE, Zero


VARIABLES queue, result

Times(q, r) == Cardinality({i \in DOMAIN q : q[i] = r})

(* What is left when r is removed: of equal requests every one is counted,  *)
(* and as many entries go, but it is the i-th entry that makes room for the *)
(* one its number of predecessors further on.                               *)
Unqueued(q, r) ==
  [i \in 1..Len(q) - Times(q, r) |-> q[i + Times(SubSeq(q, 1, i), r)]]

Init == queue = <<>> /\ result = 0

Put(r) ==
  \/ r \in TooLong /\ result' = -1 /\ UNCHANGED queue
  \/ r \notin TooLong /\ Len(queue) = QUEUESIZE - 1 /\ result' = -2 /\ UNCHANGED queue
  \/ r \notin TooLong /\ Len(queue) < QUEUESIZE - 1 /\ result' = 0 /\ queue' = Append(queue, r)

Withdraw(r) == result' = Times(queue, r) /\ queue' = Unqueued(queue, r)

Take ==
  \/ queue = <<>> /\ result' = Zero /\ UNCHANGED queue
  \/ queue # <<>> /\ result' = Head(queue) /\ queue' = Tail(queue)

Clear == queue' = <<>> /\ result' = Zero

Next == (\E r \in Requests : Put(r) \/ Withdraw(r)) \/ Take \/ Clear

Spec == Init /\ [][Next]_<<queue, result>>
=============================================================================
