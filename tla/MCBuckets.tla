------------------------------ MODULE MCBuckets ------------------------------
(***************************************************************************)
(* The routing table and, as a part of its own, one bucket under contacts, *)
(* failures and pings in any order, which the table would make only with   *)
(* many more ids.  The initial state chooses the part that moves, the      *)
(* other rests, so that one run goes through the states of both and not    *)
(* through their product.                                                  *)
(***************************************************************************)
EXTENDS MCKtable

CONSTANTS p, q, r, s  \* the ids of the bucket

VARIABLES part, oBucket, oClock, oCall

ovars == <<oBucket, oClock, oCall>>

(* A bucket of two nodes and two backups. *)
One == INSTANCE KbucketSpec WITH
  Ids <- {p, q, r, s}, K <- 2, DoubtAge <- 1, BootTime <- 2, MaxClock <- 4,
  bucket <- oBucket, clock <- oClock, call <- oCall

ASSUME BucketsAssumption == One!KbucketAssumption

BucketsInit == part \in {"table", "bucket"} /\ Init /\ One!Init

BucketsNext ==
  \/ part = "table" /\ Next /\ UNCHANGED <<part, ovars>>
  \/ part = "bucket" /\ One!Next /\ UNCHANGED <<part, vars>>

BucketsSpec == BucketsInit /\ [][BucketsNext]_<<part, vars, ovars>>

SymmetryBuckets == SymmetryPing \cup Permutations({p, q, r, s})

-----------------------------------------------------------------------------
(* A bucket has no empty node, no id twice among its backups, and a node    *)
(* that lost its place to a backup is not left behind as one, which the     *)
(* next failure could put back (kbucket.cc, failed_contact, update_backup). *)
BucketSound == One!BucketSound

(* A node leaves its bucket only when it is bad or failed after a long      *)
(* silence, and contacts are turned away for good only when every node of   *)
(* the bucket answered recently (kbucket.cc, update_contact).               *)
BucketKeeps == One!BucketKeeps
=============================================================================
