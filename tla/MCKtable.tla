------------------------------ MODULE MCKtable ------------------------------
(* Ktable for TLC: three buckets, and the table's own id. *)
EXTENDS Ktable, TLC

CONSTANTS a, b, c, d, me, h

(* Two buckets that overflow when they have room for one contact. *)
IdsPing == {a, b, c, d, me}
IndexPing == (a :> 0 @@ b :> 0 @@ c :> 1 @@ d :> 1 @@ me :> 3)

(* A far bucket that overflows when there is room for two, and a nearer one. *)
IdsWindow == {a, b, c, d}
IndexWindow == (a :> 0 @@ b :> 0 @@ c :> 0 @@ d :> 1)

MCHosts == {h}
SymmetryPing == Permutations({a, b}) \cup Permutations({c, d})
SymmetryWindow == Permutations({a, b, c})
=============================================================================
