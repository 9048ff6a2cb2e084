------------------------------ MODULE MCKbucket ------------------------------
(* KbucketSpec for TLC: a bucket of two nodes and two backups. *)
EXTENDS KbucketSpec, TLC

CONSTANTS a, b, c, d, h

MCIds == {a, b, c, d}
MCHosts == {h}
Symmetry == Permutations(MCIds)
=============================================================================
