------------------------------ MODULE Bitset ------------------------------
(***************************************************************************)
(* The bitsets of libbt (bitset.c), byte by byte.  A byte is the set of    *)
(* the places, from the left, of its bits that are 1.  The bits of the     *)
(* last byte that lie beyond nbits can be 1 too: kBitSet_readBytes()       *)
(* copies them and bs_not() makes them.                                    *)
(***************************************************************************)
EXTENDS Integers, FiniteSets

CONSTANTS
  BYTE,    \* bits in a byte: 8 in the code
  Names,   \* the bitsets
  Sizes    \* values of nbits

BitsetAssumption == BYTE \in Nat \ {0} /\ Sizes \subseteq Nat \ {0}

VARIABLE sets   \* [nbits, bits] of each

Ones == 0..BYTE-1
Bytes(nbits) == 0..(nbits + BYTE - 1) \div BYTE - 1
Zeros(nbits) == [nbits |-> nbits, bits |-> [b \in Bytes(nbits) |-> {}]]

Init == sets = [s \in Names |-> Zeros(0)]

Create(s, nbits) == sets' = [sets EXCEPT ![s] = Zeros(nbits)]

CreateCopy(s, t) == sets' = [sets EXCEPT ![s] = sets[t]]

(* Peers send whole bytes. *)
ReadBytes(s) ==
  \E len \in 0..Cardinality(DOMAIN sets[s].bits) : \E bits \in [0..len-1 -> SUBSET Ones] :
    sets' = [sets EXCEPT ![s].bits = [b \in DOMAIN @ |-> IF b < len THEN bits[b] ELSE @[b]]]

With(a, bit) == [a EXCEPT !.bits[bit \div BYTE] = @ \cup {bit % BYTE}]

Set(s, bit) == bit < sets[s].nbits /\ sets' = [sets EXCEPT ![s] = With(@, bit)]

Clr(s, bit) == bit < sets[s].nbits /\ sets' = [sets EXCEPT ![s].bits[bit \div BYTE] = @ \ {bit % BYTE}]

IsSet(a, bit) == bit % BYTE \in a.bits[bit \div BYTE]

AndOf(a, c) == [a EXCEPT !.bits = [b \in DOMAIN @ |-> @[b] \cap c.bits[b]]]
NotOf(a) == [a EXCEPT !.bits = [b \in DOMAIN @ |-> Ones \ @[b]]]

And(s, t, u) ==
  /\ sets[s].nbits = sets[t].nbits /\ sets[t].nbits = sets[u].nbits
  /\ sets' = [sets EXCEPT ![s] = AndOf(sets[t], sets[u])]

Not(s, t) ==
  /\ sets[s].nbits = sets[t].nbits
  /\ sets' = [sets EXCEPT ![s] = NotOf(sets[t])]

(* Mutant: a byte is filled whole when the range ends in it. *)
FilledFrom(a, bit, endplus1) == bit % BYTE = 0 /\ bit < endplus1

(* The bytes that bs_setRange() sets at one stroke: never the one the range *)
(* ends in, nor the last whole one.                                         *)
Filled(a, bit, endplus1) == bit % BYTE = 0 /\ bit + BYTE < endplus1

SetRange(s, start, endplus1) ==
  LET a == sets[s]
      whole == {bit \in start..endplus1-1 : Filled(a, bit, endplus1)}
  IN /\ endplus1 <= a.nbits
     /\ sets' = [sets EXCEPT ![s].bits =
          [b \in DOMAIN @ |-> @[b] \cup {i \in Ones :
             \/ b * BYTE \in whole
             \/ b * BYTE + i \in start..endplus1-1}]]

Next ==
  \E s \in Names :
    \/ \E nbits \in Sizes : Create(s, nbits)
    \/ ReadBytes(s)
    \/ \E bit \in 0..sets[s].nbits-1 : Set(s, bit) \/ Clr(s, bit)
    \/ \E start, endplus1 \in 0..sets[s].nbits : SetRange(s, start, endplus1)
    \/ \E t \in Names : CreateCopy(s, t) \/ Not(s, t)
    \/ \E t, u \in Names : And(s, t, u)

Spec == Init /\ [][Next]_sets

-----------------------------------------------------------------------------
(* The questions.                                                           *)

(* The bits of the last byte that count. *)
BstestMask(nbits) == IF nbits % BYTE = 0 THEN Ones ELSE 0..(nbits % BYTE)-1

IsEmpty(a) ==
  LET last == Cardinality(DOMAIN a.bits) - 1
  IN (\A b \in 0..last-1 : a.bits[b] = {}) /\ a.bits[last] \cap BstestMask(a.nbits) = {}

IsFull(a) == IsEmpty(NotOf(a))

FirstClr(a) ==
  LET clear == {i \in 0..a.nbits-1 : ~IsSet(a, i)}
  IN IF clear = {} THEN 0 ELSE CHOOSE i \in clear : \A j \in clear : i <= j

SparseSet(a) == {n \in 0..a.nbits-1 : IsSet(a, n)}
CountBits(a) == Cardinality(SparseSet(a))

(* Of the blocks the peer has, those nobody was asked for that are wanted.  *)
Wanted(r, p, i) == AndOf(AndOf(NotOf(r), p), i)
HasInteresting(r, p, i) == ~IsEmpty(Wanted(r, p, i))

(* bs_pickblock: what it may return; -1 for none, and its assertion fails   *)
(* if there is nothing to pick from all the same.                           *)
PickBlock(r, p, i) ==
  IF ~HasInteresting(r, p, i) THEN {-1} ELSE SparseSet(Wanted(r, p, i))

-----------------------------------------------------------------------------

Members(s) == SparseSet(sets[s])
Range(s) == 0..sets[s].nbits-1
Created == {s \in Names : sets[s].nbits > 0}

(* The variables keep their types: no operation changes a size. *)
TypeOK == \A s \in Names :
  /\ sets[s].nbits \in Sizes \cup {0}
  /\ sets[s].bits \in [Bytes(sets[s].nbits) -> SUBSET Ones]

(* The questions are answered for the set, whatever bits lie beyond its     *)
(* end: also by bs_isFull() and bs_isEmpty(), which go by bytes.            *)
AsSets ==
  \A s \in Created :
    /\ IsEmpty(sets[s]) <=> Members(s) = {}
    /\ IsFull(sets[s]) <=> Members(s) = Range(s)
    /\ IsFull(sets[s]) <=> CountBits(sets[s]) = sets[s].nbits
    /\ ~IsFull(sets[s]) => FirstClr(sets[s]) \in Range(s) \ Members(s)

(* bs_hasInteresting() and bs_pickblock() agree: when the peer has a block  *)
(* that is wanted and not asked for, one such is picked, and the assertion  *)
(* that there is one holds.                                                 *)
PicksWanted ==
  \A r, p, i \in Created :
    sets[r].nbits = sets[p].nbits /\ sets[p].nbits = sets[i].nbits =>
      LET wanted == (Members(p) \cap Members(i)) \ Members(r)
      IN PickBlock(sets[r], sets[p], sets[i]) = IF wanted = {} THEN {-1} ELSE wanted

(* The operations do to the set what their names say, and nothing to the    *)
(* others: a range is set to its very end and not beyond it.                *)
AsNamed ==
  \A s \in Names :
    /\ \A bit \in Range(s) : /\ Set(s, bit) => Members(s)' = Members(s) \cup {bit}
                             /\ Clr(s, bit) => Members(s)' = Members(s) \ {bit}
    /\ \A start, endplus1 \in Range(s) \cup {sets[s].nbits} :
         SetRange(s, start, endplus1) => Members(s)' = Members(s) \cup start..endplus1-1
    /\ \A t \in Names : Not(s, t) => Members(s)' = Range(t) \ Members(t)
    /\ \A t, u \in Names : And(s, t, u) => Members(s)' = Members(t) \cap Members(u)
=============================================================================
