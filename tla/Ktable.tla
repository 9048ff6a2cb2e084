------------------------------- MODULE Ktable -------------------------------
(***************************************************************************)
(* The routing table (ktable.cc): a bucket for every length of the prefix  *)
(* an id may share with the table's own, the range of buckets in use, and  *)
(* the flag that calls pingd.  Each bucket is used as KbucketSpec says.    *)
(***************************************************************************)
EXTENDS Kbucket, SequencesExt

CONSTANTS
  Ids, Hosts,
  NBuckets,  \* 160
  Index,     \* Index[id] = bit1_index_of(id): the bits id shares with b_tableid
  BootTime, MaxClock

ASSUME KtableAssumption ==
  /\ NullId \notin Ids /\ K \in Nat \ {0} /\ NBuckets \in Nat \ {0}
  /\ Index \in [Ids -> 0 .. NBuckets]  \* NBuckets: the table's own id
  /\ BootTime \in Nat /\ BootTime > DoubtAge /\ MaxClock \in Nat

VARIABLES
  buckets,   \* b_buckets
  nbucket0,  \* b_nbucket0: the buckets from here on hold the K closest
  nbucket1,  \* b_nbucket1: the buckets from here on were never used
  needPing,  \* b_need_ping
  clock,
  calls      \* the last call each bucket had

vars == <<buckets, nbucket0, nbucket1, needPing, clock, calls>>

Slots == 0 .. NBuckets - 1
Items == [id : Ids, host : Hosts]
NoCall == [op |-> "none", id |-> NullId]

Init ==
  /\ buckets = [i \in Slots |-> EmptyBucket]
  /\ nbucket0 = 0 /\ nbucket1 = 1
  /\ needPing = FALSE
  /\ clock = BootTime
  /\ calls = [i \in Slots |-> NoCall]

(* How many contacts are in the buckets from .. to - 1. *)
CountIn(bs, from, to) == Cardinality(UNION {{i} \X DOMAIN bs[i].nodes : i \in from .. to - 1})

(* Far buckets leave the window while it holds more than K contacts. *)
WindowFrom(bs, from, to) == Min({n \in from .. to : CountIn(bs, n, to) <= K})

-----------------------------------------------------------------------------
Used(i) == Max({nbucket1, i + 1})

(* insert_node(): nothing is done for the table's own id. *)
InsertNode(item, contacted) ==
  LET i == Index[item.id] IN
  /\ i < NBuckets
  /\ buckets' = [buckets EXCEPT ![i] = UpdateContact(@, item, contacted, clock)]
  /\ nbucket1' = Used(i)
  /\ nbucket0' = WindowFrom(buckets', nbucket0, nbucket1')
  /\ needPing' = (needPing \/ buckets'[i].needPing)
  /\ calls' = [calls EXCEPT ![i] = [op |-> "update", id |-> item.id]]
  /\ UNCHANGED clock

FailContact(item) ==
  LET i == Index[item.id] IN
  /\ i < nbucket1
  /\ buckets' = [buckets EXCEPT ![i] = FailedContact(@, item, clock)]
  /\ calls' = [calls EXCEPT ![i] = [op |-> "failed", id |-> item.id]]
  /\ UNCHANGED <<nbucket0, nbucket1, needPing, clock>>

(* get_ping() asks the buckets in turn until it has size contacts: how many *)
(* it has when it comes to bucket i.                                        *)
Collected(size) ==
  LET got[i \in 0 .. nbucket1] ==
        IF i = 0 THEN 0
        ELSE got[i - 1] + (IF buckets[i - 1].needPing
                           THEN Len(PingItems(buckets[i - 1], size - got[i - 1], clock))
                           ELSE 0)
  IN  got

(* Mutant: the flag goes down with every call. *)
StillNeedNone(got, size) == FALSE

StillNeed(got, size) == got > 0

(* Mutant: a bucket is asked whether it needs a ping or not. *)
AskedAll(got, size) == {i \in 0 .. nbucket1 - 1 : got[i] < size}

AskedBuckets(got, size) == {i \in 0 .. nbucket1 - 1 : buckets[i].needPing /\ got[i] < size}

GetTablePing(size) ==
  LET got == Collected(size)
      asked == AskedBuckets(got, size)
  IN
  /\ needPing
  /\ buckets' = [i \in Slots |-> IF i \in asked THEN GetPing(buckets[i], size - got[i], clock)
                                 ELSE buckets[i]]
  /\ needPing' = StillNeed(got[nbucket1], size)
  /\ calls' = [i \in Slots |-> IF i \in asked THEN [op |-> "ping", id |-> NullId] ELSE calls[i]]
  /\ UNCHANGED <<nbucket0, nbucket1, clock>>

Tick ==
  /\ clock < MaxClock
  /\ clock' = clock + 1
  /\ calls' = [i \in Slots |-> NoCall]
  /\ UNCHANGED <<buckets, nbucket0, nbucket1, needPing>>

Next ==
  \/ \E item \in Items, contacted \in BOOLEAN : InsertNode(item, contacted)
  \/ \E item \in Items : FailContact(item)
  \/ \E size \in 1 .. K : GetTablePing(size)
  \/ Tick

Spec == Init /\ [][Next]_vars

-----------------------------------------------------------------------------
(* find_nodes(): the bucket of the target and those closer to the table's   *)
(* own id, then the farther ones, the nearest of them first.                *)

(* Mutant: the farther buckets are taken from the far end. *)
SearchOrderFar(offset) ==
  [n \in 1 .. Max({nbucket1 - offset, 0}) |-> offset + n - 1] \o
  [n \in 1 .. Min({offset, nbucket1}) |-> n - 1]

SearchOrder(offset) ==
  [n \in 1 .. Max({nbucket1 - offset, 0}) |-> offset + n - 1] \o
  [n \in 1 .. Min({offset, nbucket1}) |-> Min({offset, nbucket1}) - n]

FindClosest(offset, validate) ==
  LET order == SearchOrder(offset)
      found == FlattenSeq([n \in DOMAIN order |-> FindNodes(buckets[order[n]], validate, clock)])
  IN  SubSeq(found, 1, Min({K, Len(found)}))

-----------------------------------------------------------------------------
Node == [id : Ids, host : Hosts, seen : Nat, failed : 0 .. MaxFailed]
          \cup [id : {NullId}, host : {NullId}, seen : Nat, failed : 0 .. MaxFailed]

TypeOK ==
  /\ buckets \in [Slots -> [nodes : Seq(Node), backups : Seq(Node), needPing : BOOLEAN]]
  /\ \A i \in Slots : Len(buckets[i].nodes) <= K /\ Len(buckets[i].backups) <= K
  /\ nbucket0 \in 0 .. nbucket1 /\ nbucket1 \in 1 .. NBuckets
  /\ needPing \in BOOLEAN
  /\ clock \in Nat
  /\ calls \in [Slots -> [op : {"none", "update", "failed", "ping"}, id : Ids \cup {NullId}]]

(* size(), which says how many buckets checkerd refreshes, is the number of *)
(* buckets farther than those that hold the K closest contacts: the window  *)
(* holds no more than K, and would with one bucket more.                    *)
WindowIsClosest ==
  /\ CountIn(buckets, nbucket0, nbucket1) <= K
  /\ nbucket0 > 0 => CountIn(buckets, nbucket0 - 1, nbucket1) > K

(* A contact is only ever found in the bucket its id belongs to, and none   *)
(* is in a bucket that get_ping() and find_nodes() do not look at.          *)
Placed ==
  \A i \in Slots :
    \A n \in ToSet(buckets[i].nodes) \cup ToSet(buckets[i].backups) :
      n.id # NullId => Index[n.id] = i /\ i < nbucket1

(* pingd is called as long as some bucket needs it, also when one call      *)
(* returned as many contacts as it has room for and left buckets unasked.   *)
PingableSync == (\E i \in Slots : buckets[i].needPing) => needPing

(* Where a bucket is, seen from a target that shares offset bits with the   *)
(* table's own id.  Contacts of the bucket offset share more bits with the  *)
(* target, those of every bucket beyond it just offset, and those of a      *)
(* bucket before it as many as its number.  Within a rank the buckets are   *)
(* not told apart: the XOR distances of two contacts may be either way.     *)
Rank(i, offset) ==
  CASE i = offset -> 0
    [] i > offset -> 1
    [] i < offset -> 1 + offset - i

(* find_nodes() returns as many usable contacts as there are, up to K, and  *)
(* none of a farther rank while it leaves out one of a nearer.  It goes     *)
(* from bucket to bucket: of the last rank it takes from, it may return     *)
(* contacts farther from the target than some it leaves out.                *)
FindsClosest ==
  \A offset \in 0 .. NBuckets, validate \in BOOLEAN :
    LET found    == FindClosest(offset, validate)
        eligible == UNION {{[bucket |-> i, slot |-> s] :
                              s \in {t \in DOMAIN buckets[i].nodes :
                                       validate => IsGood(buckets[i].nodes[t], clock)}} : i \in Slots}
    IN  /\ Len(found) = Min({K, Cardinality(eligible)})
        /\ \A k \in DOMAIN found :
             Cardinality({e \in eligible : Rank(e.bucket, offset) < Rank(Index[found[k].id], offset)}) < k

(* What the table is asked for: how far it is filled, and contacts of the   *)
(* nearest ranks.                                                           *)
ClosestKnown == WindowIsClosest /\ FindsClosest

(* Every bucket of the table is used the way KbucketSpec says a bucket is.  *)
Bucket(i) == INSTANCE KbucketSpec WITH
  Ids <- {id \in Ids : Index[id] = i}, bucket <- buckets[i], call <- calls[i]

(* The buckets do what KbucketSpec says, and keep what it promises. *)
BucketsWork ==
  /\ \A i \in Slots : Bucket(i)!Init
  /\ [][\A i \in Slots : /\ [Bucket(i)!Next]_(Bucket(i)!vars)
                         /\ Bucket(i)!DropsForCause
                         /\ Bucket(i)!ClearsWhenAllGood]_vars

(* Contacts are where their ids put them, b_nbucket0 delimits the closest,  *)
(* pingd is called as long as some bucket needs it, and every bucket is     *)
(* sound (ktable.cc, insert_node, get_ping; kbucket.cc).                    *)
TableSound ==
  TypeOK /\ Placed /\ WindowIsClosest /\ PingableSync /\ \A i \in Slots : Bucket(i)!BucketSound
=============================================================================
