------------------------------- MODULE Kbucket -------------------------------
(***************************************************************************)
(* The operations of one bucket of the routing table (kbucket.cc), as      *)
(* operators from a bucket and the time to a bucket.                       *)
(***************************************************************************)
EXTENDS Knode, Sequences, FiniteSets, FiniteSetsExt

CONSTANT K \* _K: nodes in a bucket, and backups beside them

EmptyBucket == [nodes |-> <<>>, backups |-> <<>>, needPing |-> FALSE]

(* The slots that hold id: cmpid() == 0. *)
SlotsOf(s, id) == {i \in DOMAIN s : s[i].id = id}

(* The first slot whose node was seen last, or longest ago. *)
Latest(s) == Min({i \in DOMAIN s : \A j \in DOMAIN s : s[j].seen <= s[i].seen})
Oldest(s) == Min({i \in DOMAIN s : \A j \in DOMAIN s : s[i].seen <= s[j].seen})

(* The entries of s at the positions in I, in their order. *)
Entries(s, I) ==
  LET at == CHOOSE f \in [1 .. Cardinality(I) -> I] :
              \A i, j \in 1 .. Cardinality(I) : i < j => f[i] < f[j]
  IN  [i \in 1 .. Cardinality(I) |-> s[at[i]]]

-----------------------------------------------------------------------------
(* A full list of backups gives up the one seen longest ago, unless that    *)
(* one answered once and the newcomer has not.                              *)
UpdateBackup(s, item, contacted, now) ==
  LET mine  == SlotsOf(s, item.id)
      fresh == Meet(NewNode(item), contacted, now)
      old   == Oldest(s)
  IN  CASE mine # {} -> [s EXCEPT ![Min(mine)] = Meet(@, contacted, now)]
        [] mine = {} /\ Len(s) < K -> Append(s, fresh)
        [] OTHER -> IF contacted \/ s[old].seen = 0 THEN [s EXCEPT ![old] = fresh] ELSE s

(* A newcomer to a full bucket takes the place of a bad node; it becomes a  *)
(* backup while some node is doubtful, and otherwise the backups go too.    *)
UpdateContact(b, item, contacted, now) ==
  LET mine  == SlotsOf(b.nodes, item.id)
      bad   == {i \in DOMAIN b.nodes : IsBad(b.nodes[i])}
      doubt == {i \in DOMAIN b.nodes : IsDoubt(b.nodes[i], now)}
      fresh == Meet(NewNode(item), contacted, now)
  IN  CASE mine # {} ->
             [b EXCEPT !.nodes[Min(mine)] = Meet(SetItem(@, item), contacted, now)]
        [] mine = {} /\ Len(b.nodes) < K ->
             [b EXCEPT !.nodes = Append(@, fresh)]
        [] mine = {} /\ Len(b.nodes) >= K /\ bad # {} ->
             [b EXCEPT !.nodes[Min(bad)] = fresh]
        [] mine = {} /\ Len(b.nodes) >= K /\ bad = {} /\ doubt = {} ->
             [b EXCEPT !.backups = <<>>]
        [] OTHER ->
             [b EXCEPT !.backups = UpdateBackup(@, item, contacted, now), !.needPing = TRUE]

-----------------------------------------------------------------------------
(* Mutants: the failed id stays among the backups; the silence of the       *)
(* failed node is not tested.                                               *)
UsableFailed(s, id) == Entries(s, {i \in DOMAIN s : s[i].id # NullId})
ReplaceAtOnce(n, now) == TRUE

(* What a failure leaves of the backups: not the failed id, no empty slots. *)
Usable(s, id) == Entries(s, {i \in DOMAIN s : s[i].id # id /\ s[i].id # NullId})

(* A node silent for too long is replaced at its first failure by the       *)
(* backup seen last, be it one that was never seen at all.                  *)
Replaceable(n, now) == n.seen + DoubtAge < now

FailedContact(b, item, now) ==
  LET mine   == SlotsOf(b.nodes, item.id)
      slot   == Min(mine)
      struck == IF mine = {} THEN b.nodes ELSE [b.nodes EXCEPT ![slot] = Failed(@)]
      left   == Usable(b.backups, item.id)
      null   == NewNode([id |-> NullId, host |-> NullId])
  IN  IF mine # {} /\ left # <<>> /\ Replaceable(struck[slot], now)
      THEN [b EXCEPT !.nodes = [struck EXCEPT ![slot] = left[Latest(left)]],
                     !.backups = [left EXCEPT ![Latest(left)] = null]]
      ELSE [b EXCEPT !.nodes = struck, !.backups = left]

-----------------------------------------------------------------------------
FindNodes(b, validate, now) ==
  Entries(b.nodes, {i \in DOMAIN b.nodes : validate => IsGood(b.nodes[i], now)})

(* The doubtful nodes to ping, no more than there are backups for them; the *)
(* flag stays up while there are any.                                       *)
PingItems(b, size, now) ==
  LET doubtful == Entries(b.nodes, {i \in DOMAIN b.nodes : IsDoubt(b.nodes[i], now)})
  IN  SubSeq(doubtful, 1, Min({size, Len(b.backups), Len(doubtful)}))

GetPing(b, size, now) ==
  IF size = 0 THEN b ELSE [b EXCEPT !.needPing = PingItems(b, size, now) # <<>>]
=============================================================================
