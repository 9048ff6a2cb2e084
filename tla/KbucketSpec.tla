----------------------------- MODULE KbucketSpec -----------------------------
(***************************************************************************)
(* One bucket as the routing table uses it: contacts are reported to it,   *)
(* with or without an answer, others are reported failed, pingd asks it    *)
(* whom to ping, and time passes.                                          *)
(***************************************************************************)
EXTENDS Kbucket

CONSTANTS
  Ids,      \* the ids that fall into this bucket
  Hosts,
  BootTime, \* time(NULL) at the start: far beyond DoubtAge
  MaxClock  \* bound on the clock

KbucketAssumption ==
  /\ NullId \notin Ids /\ K \in Nat \ {0}
  /\ BootTime \in Nat /\ BootTime > DoubtAge /\ MaxClock \in Nat

VARIABLES
  bucket,
  clock,
  call   \* the last call, and the contact it was about

vars == <<bucket, clock, call>>

Items == [id : Ids, host : Hosts]

Init ==
  /\ bucket = EmptyBucket
  /\ clock = BootTime
  /\ call = [op |-> "none", id |-> NullId]

Update(item, contacted) ==
  /\ bucket' = UpdateContact(bucket, item, contacted, clock)
  /\ call' = [op |-> "update", id |-> item.id]
  /\ UNCHANGED clock

Fail(item) ==
  /\ bucket' = FailedContact(bucket, item, clock)
  /\ call' = [op |-> "failed", id |-> item.id]
  /\ UNCHANGED clock

Ping(size) ==
  /\ bucket.needPing
  /\ bucket' = GetPing(bucket, size, clock)
  /\ call' = [op |-> "ping", id |-> NullId]
  /\ UNCHANGED clock

Tick ==
  /\ clock < MaxClock
  /\ clock' = clock + 1
  /\ call' = [op |-> "none", id |-> NullId]
  /\ UNCHANGED bucket

Next ==
  \/ \E item \in Items, contacted \in BOOLEAN : Update(item, contacted)
  \/ \E item \in Items : Fail(item)
  \/ \E size \in 1 .. K : Ping(size)
  \/ Tick

Spec == Init /\ [][Next]_vars

-----------------------------------------------------------------------------
Node == [id : Ids, host : Hosts, seen : Nat, failed : 0 .. MaxFailed]
          \cup [id : {NullId}, host : {NullId}, seen : Nat, failed : 0 .. MaxFailed]

TypeOK ==
  /\ bucket \in [nodes : Seq(Node), backups : Seq(Node), needPing : BOOLEAN]
  /\ Len(bucket.nodes) <= K /\ Len(bucket.backups) <= K
  /\ clock \in Nat
  /\ call \in [op : {"none", "update", "failed", "ping"}, id : Ids \cup {NullId}]

Has(s, id) == \E i \in DOMAIN s : s[i].id = id

(* A node only leaves the bucket when it is bad, or when it is reported     *)
(* failed after a silence of more than DoubtAge: no flood of new contacts   *)
(* drives out a node that answers.                                          *)
DropsForCause ==
  \A i \in DOMAIN bucket.nodes :
    LET n == bucket.nodes[i] IN
    ~Has(bucket'.nodes, n.id) =>
      IsBad(n) \/ (call'.op = "failed" /\ call'.id = n.id /\ n.seen + DoubtAge < clock)

(* "all node is good, clear backup node": a contact is turned away for good *)
(* only when every node answered recently.                                  *)
ClearsWhenAllGood ==
  call'.op = "update" /\ bucket.backups # <<>> /\ bucket'.backups = <<>> =>
    \A i \in DOMAIN bucket.nodes :
      bucket.nodes[i].seen # 0 /\ bucket.nodes[i].seen + DoubtAge >= clock

(* A node leaves its bucket only when it is bad or failed after a long      *)
(* silence, and contacts are turned away for good only when every node of   *)
(* the bucket answered recently (kbucket.cc, update_contact).               *)
BucketKeeps == [][DropsForCause /\ ClearsWhenAllGood]_vars

(* No id is twice among the backups, and at most one slot is empty. *)
BackupsDistinct ==
  \A i, j \in DOMAIN bucket.backups :
    bucket.backups[i].id = bucket.backups[j].id => i = j

(* The nodes of a bucket are never the emptied slots of the backups.       *)
NoEmptyNode == ~Has(bucket.nodes, NullId)

(* A node whose failure made place for another is not a backup as well, so  *)
(* that the next failure could not put it back.                             *)
NotItsOwnBackup ==
  call.op = "failed" => ~Has(bucket.backups, call.id)

(* A bucket has no empty node, no id twice among its backups, and a node    *)
(* that lost its place to a backup is not left behind as one, which the     *)
(* next failure could put back (kbucket.cc, failed_contact, update_backup). *)
BucketSound == TypeOK /\ BackupsDistinct /\ NoEmptyNode /\ NotItsOwnBackup

(* "aready in this bucket": an id has one slot in the bucket. *)
NoDuplicate ==
  \A i, j \in DOMAIN bucket.nodes : bucket.nodes[i].id = bucket.nodes[j].id => i = j

(* "replace with good node": what takes the place of a failed node is good. *)
ReplacedByGood ==
  [][\A i \in DOMAIN bucket.nodes :
       call'.op = "failed" /\ bucket'.nodes[i].id # bucket.nodes[i].id =>
         IsGood(bucket'.nodes[i], clock)]_vars
=============================================================================
