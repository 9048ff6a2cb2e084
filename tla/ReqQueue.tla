------------------------------ MODULE ReqQueue ------------------------------
(***************************************************************************)
(* btRequestQueue of libbt's peer.c: a ring with one slot always free.     *)
(***************************************************************************)
EXTENDS Integers, SequencesExt

CONSTANTS
  Requests, TooLong,  \* TooLong: those over MAXREQUEST
  QUEUESIZE,
  Zero                \* a slot never used, and no request

ReqQueueAssumption == QUEUESIZE \in Nat \ {0} /\ TooLong \subseteq Requests

VARIABLES
  req, head, tail,
  result   \* what the last call returned; Zero also for nothing

vars == <<req, head, tail, result>>

Slots == 0..QUEUESIZE-1

Init == req = [i \in Slots |-> Zero] /\ head = 0 /\ tail = 0 /\ result = 0

QueueRequest(r) ==
  LET newtail == (tail + 1) % QUEUESIZE
      fits == r \notin TooLong /\ newtail # head
  IN /\ req' = IF fits THEN [req EXCEPT ![tail] = r] ELSE req
     /\ tail' = IF fits THEN newtail ELSE tail
     /\ result' = IF r \in TooLong THEN -1 ELSE IF fits THEN 0 ELSE -2
     /\ UNCHANGED head

ClearRequestQueue == head' = tail /\ result' = Zero /\ UNCHANGED <<req, tail>>

DequeueRequest ==
  /\ head' = IF head = tail THEN head ELSE (head + 1) % QUEUESIZE
  /\ result' = IF head = tail THEN Zero ELSE req[head]
  /\ UNCHANGED <<req, tail>>

QueueLen == IF tail < head THEN tail + QUEUESIZE - head ELSE tail - head

(* The slots in queue order, and how many of them, the i-th included, hold r. *)
At(i) == (head + i - 1) % QUEUESIZE
Upto(r, i) == Cardinality({j \in 1..i : req[At(j)] = r})

(* Mutant: the tail is not wrapped. *)
RemoveUnwrapped(r) ==
  /\ tail' = tail - Upto(r, QueueLen)
  /\ result' = Upto(r, QueueLen) /\ UNCHANGED <<req, head>>

(* Each slot from the first match on takes the one `offby` further. *)
RemoveQueuedRequest(r) ==
  LET offby == Upto(r, QueueLen) IN
  /\ req' = [s \in Slots |->
       IF \E i \in 1..QueueLen : At(i) = s
       THEN LET i == CHOOSE j \in 1..QueueLen : At(j) = s IN req[(s + Upto(r, i)) % QUEUESIZE]
       ELSE req[s]]
  /\ tail' = (tail + QUEUESIZE - offby) % QUEUESIZE
  /\ result' = offby /\ UNCHANGED head

Next ==
  \/ \E r \in Requests : QueueRequest(r) \/ RemoveQueuedRequest(r)
  \/ ClearRequestQueue \/ DequeueRequest

Spec == Init /\ [][Next]_vars

-----------------------------------------------------------------------------

Queued == [i \in 1..QueueLen |-> req[At(i)]]

(* The ring holds requests only, fewer than its slots. *)
TypeOK == head \in Slots /\ tail \in Slots /\ Queued \in Seq(Requests)

(* To its callers the ring is the sequence module QueueSpec says, whatever  *)
(* slots it wraps over and whatever equal requests are in it.               *)
Abstract == INSTANCE QueueSpec WITH queue <- Queued
IsAQueue == Abstract!Spec
=============================================================================
