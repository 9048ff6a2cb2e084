------------------------------- MODULE MCKfind -------------------------------
(* Kfind for TLC: four distances, four hosts, the two closest looked for. *)
EXTENDS Kfind

C(i, h) == [id |-> i, host |-> h]
P(i, h, cs) == [id |-> i, host |-> h, nodes |-> cs]

MCIds == 1 .. 4
MCHosts == {"ha", "hb", "hc", "hd"}

(* A far node knows nearer ones; "hd" is named under two ids; "ha" may send *)
(* garbage.                                                                 *)
MCStarts == {<<C(4, "hd"), C(3, "hc")>>, <<C(4, "hd"), C(2, "hd"), C(3, "hc")>>}
MCPackets == {
  P(4, "hd", <<C(3, "hc"), C(2, "hb")>>),
  P(3, "hc", <<C(1, "ha"), C(1, "hd")>>),
  P(2, "hb", <<C(1, "ha"), C(4, "hd")>>),
  P(1, "ha", <<C(2, "hb")>>),
  P(NoId, "ha", <<>>), P(NoId, "hc", <<>>) }
=============================================================================
