---------------------------- MODULE KtableProofs ----------------------------
(***************************************************************************)
(* Proofs about the routing table, for any ids, any number of buckets, any *)
(* K and any times: the table is sound, every bucket of it is used as      *)
(* KbucketSpec says and keeps what that promises, and a search returns     *)
(* contacts out of the ranks of buckets nearest to its target.             *)
(***************************************************************************)
EXTENDS Ktable, KbucketProofs

USE KtableAssumption

IdsOf(i) == {id \in Ids : Index[id] = i}

(* Numbers of buckets and contacts. *)
LEMMA MaxOfTwo ==
  ASSUME NEW a \in Nat, NEW b \in Nat
  PROVE  /\ Max({a, b}) \in {a, b}
         /\ a <= Max({a, b}) /\ b <= Max({a, b})
<1>1. \E x \in {a, b} : \A y \in {a, b} : x >= y
  OBVIOUS
<1>2. Max({a, b}) \in {a, b} /\ \A y \in {a, b} : Max({a, b}) >= y
  BY <1>1 DEF Max
<1> QED BY <1>2

(* The slots in use in a range of buckets. *)
Cells(bs, from, to) == UNION {{i} \X DOMAIN bs[i].nodes : i \in from .. to - 1}

SoundBuckets(bs) ==
  /\ bs = [i \in Slots |-> bs[i]]
  /\ \A i \in Slots : SoundBucket(bs[i], IdsOf(i), Hosts)

LEMMA CellsFinite ==
  ASSUME NEW bs, SoundBuckets(bs), NEW from \in Nat, NEW to \in 0 .. NBuckets
  PROVE  IsFiniteSet(Cells(bs, from, to)) /\ CountIn(bs, from, to) \in Nat
<1>1. Cells(bs, from, to) \subseteq (0 .. NBuckets - 1) \X (1 .. K)
  <2> SUFFICES ASSUME NEW i \in from .. to - 1, NEW s \in DOMAIN bs[i].nodes
               PROVE  i \in 0 .. NBuckets - 1 /\ s \in 1 .. K
    BY DEF Cells
  <2>1. i \in Slots
    BY DEF Slots
  <2>2. bs[i].nodes \in Seq(Nodes(IdsOf(i), Hosts)) /\ Len(bs[i].nodes) <= K
    BY <2>1 DEF SoundBuckets, SoundBucket
  <2>3. Len(bs[i].nodes) \in Nat /\ DOMAIN bs[i].nodes = 1 .. Len(bs[i].nodes)
    BY <2>2, SeqProperties
  <2> QED BY <2>1, <2>2, <2>3 DEF Slots
<1>2. IsFiniteSet((0 .. NBuckets - 1) \X (1 .. K))
  <2>1. IsFiniteSet(0 .. NBuckets - 1) /\ IsFiniteSet(1 .. K)
    BY FS_Interval
  <2> QED BY <2>1, FS_Product
<1>3. IsFiniteSet(Cells(bs, from, to))
  BY <1>1, <1>2, FS_Subset
<1> QED BY <1>3, FS_CardinalityType DEF CountIn, Cells

LEMMA CountEmpty ==
  ASSUME NEW bs, NEW to \in Nat
  PROVE  CountIn(bs, to, to) = 0
<1>1. to .. to - 1 = {}
  OBVIOUS
<1>2. UNION {{i} \X DOMAIN bs[i].nodes : i \in to .. to - 1} = {}
  BY <1>1
<1> QED BY <1>2, FS_EmptySet DEF CountIn

(* A table that only grows counts no less. *)
LEMMA CountGrows ==
  ASSUME NEW bs, NEW cs, SoundBuckets(bs), SoundBuckets(cs),
         \A i \in Slots : Len(bs[i].nodes) <= Len(cs[i].nodes),
         NEW from \in Nat, NEW to \in 0 .. NBuckets, NEW end \in 0 .. NBuckets, to <= end
  PROVE  CountIn(bs, from, to) <= CountIn(cs, from, end)
<1>1. Cells(bs, from, to) \subseteq Cells(cs, from, end)
  <2> SUFFICES ASSUME NEW i \in from .. to - 1, NEW s \in DOMAIN bs[i].nodes
               PROVE  i \in from .. end - 1 /\ s \in DOMAIN cs[i].nodes
    BY DEF Cells
  <2>1. i \in Slots
    BY DEF Slots
  <2>2. /\ bs[i].nodes \in Seq(Nodes(IdsOf(i), Hosts))
        /\ cs[i].nodes \in Seq(Nodes(IdsOf(i), Hosts))
    BY <2>1 DEF SoundBuckets, SoundBucket
  <2>3. /\ Len(bs[i].nodes) \in Nat /\ DOMAIN bs[i].nodes = 1 .. Len(bs[i].nodes)
        /\ Len(cs[i].nodes) \in Nat /\ DOMAIN cs[i].nodes = 1 .. Len(cs[i].nodes)
    BY <2>2, SeqProperties
  <2> QED BY <2>1, <2>3
<1>2. IsFiniteSet(Cells(cs, from, end))
  BY CellsFinite
<1>3. Cardinality(Cells(bs, from, to)) <= Cardinality(Cells(cs, from, end))
  BY <1>1, <1>2, FS_Subset
<1> QED BY <1>3 DEF CountIn, Cells

LEMMA CountKept ==
  ASSUME NEW bs, NEW cs, SoundBuckets(bs), SoundBuckets(cs),
         \A i \in Slots : Len(bs[i].nodes) = Len(cs[i].nodes),
         NEW from \in Nat, NEW to \in 0 .. NBuckets
  PROVE  CountIn(bs, from, to) = CountIn(cs, from, to)
<1>1. \A i \in Slots : Len(bs[i].nodes) <= Len(cs[i].nodes) /\ Len(cs[i].nodes) <= Len(bs[i].nodes)
  <2> SUFFICES ASSUME NEW i \in Slots PROVE Len(bs[i].nodes) \in Nat /\ Len(cs[i].nodes) \in Nat
    OBVIOUS
  <2>1. /\ bs[i].nodes \in Seq(Nodes(IdsOf(i), Hosts))
        /\ cs[i].nodes \in Seq(Nodes(IdsOf(i), Hosts))
    BY DEF SoundBuckets, SoundBucket
  <2> QED BY <2>1, SeqProperties
<1>2. /\ CountIn(bs, from, to) <= CountIn(cs, from, to)
      /\ CountIn(cs, from, to) <= CountIn(bs, from, to)
  BY <1>1, CountGrows
<1>3. CountIn(bs, from, to) \in Nat /\ CountIn(cs, from, to) \in Nat
  BY CellsFinite
<1> QED BY <1>2, <1>3

LEMMA WindowProperties ==
  ASSUME NEW bs, SoundBuckets(bs), NEW to \in 1 .. NBuckets, NEW from \in 0 .. to
  PROVE  LET n == WindowFrom(bs, from, to) IN
         /\ n \in from .. to
         /\ CountIn(bs, n, to) <= K
         /\ n # from => CountIn(bs, n - 1, to) > K
<1> DEFINE S == {n \in from .. to : CountIn(bs, n, to) <= K}
<1>1. S \in SUBSET Nat
  OBVIOUS
<1>2. to \in S
  BY CountEmpty
<1>3. Min(S) \in S /\ \A y \in S : Min(S) <= y
  <2> HIDE DEF S
  <2> QED BY <1>1, <1>2, MinProperties
<1> DEFINE n == Min(S)
<1>4. n \in from .. to /\ CountIn(bs, n, to) <= K
  BY <1>3
<1>5. ASSUME n # from PROVE CountIn(bs, n - 1, to) > K
  <2>1. n - 1 \in from .. to /\ n - 1 \in Nat /\ ~(n <= n - 1)
    BY <1>4, <1>5
  <2>2. n - 1 \notin S
    BY <1>3, <2>1
  <2>3. CountIn(bs, n - 1, to) \in Nat
    BY <2>1, CellsFinite
  <2> QED BY <2>1, <2>2, <2>3
<1> QED BY <1>4, <1>5 DEF WindowFrom

-----------------------------------------------------------------------------
(* get_ping() asks one bucket after the other: there is a function that     *)
(* counts on from each bucket to the next, and it stays within size and     *)
(* never counts back.                                                       *)
Asked(size, i, got) ==
  IF buckets[i].needPing THEN Len(PingItems(buckets[i], size - got, clock)) ELSE 0

CountsTo(size, g, m) ==
  g = [i \in 0 .. m |-> IF i = 0 THEN 0 ELSE g[i - 1] + Asked(size, i - 1, g[i - 1])]

LEMMA CountExtends ==
  ASSUME NEW size, NEW m \in Nat, m # 0, NEW g, CountsTo(size, g, m - 1)
  PROVE  \E h : CountsTo(size, h, m)
<1> DEFINE h == [i \in 0 .. m |-> IF i = m THEN g[m - 1] + Asked(size, m - 1, g[m - 1]) ELSE g[i]]
<1>1. \A i \in 0 .. m - 1 :
        g[i] = IF i = 0 THEN 0 ELSE g[i - 1] + Asked(size, i - 1, g[i - 1])
  BY DEF CountsTo
<1>2. \A i \in 0 .. m : i # m => i \in 0 .. m - 1
  OBVIOUS
<1>3. ASSUME NEW i \in 0 .. m
      PROVE  h[i] = IF i = 0 THEN 0 ELSE h[i - 1] + Asked(size, i - 1, h[i - 1])
  <2>1. CASE i = 0
    BY <1>1, <1>2, <2>1
  <2>2. CASE i # 0
    <3>1. i - 1 \in 0 .. m /\ i - 1 # m
      BY <2>2
    <3>2. h[i - 1] = g[i - 1]
      BY <3>1
    <3>3. h[i] = g[i - 1] + Asked(size, i - 1, g[i - 1])
      BY <1>1, <1>2, <2>2
    <3> QED BY <2>2, <3>2, <3>3
  <2> QED BY <2>1, <2>2
<1>4. h = [i \in 0 .. m |-> h[i]]
  OBVIOUS
<1> HIDE DEF h
<1>5. CountsTo(size, h, m)
  BY <1>3, <1>4 DEF CountsTo
<1> QED BY <1>5

LEMMA CountExists ==
  ASSUME NEW size, NEW n \in Nat
  PROVE  \E g : CountsTo(size, g, n)
<1> DEFINE Bad == {m \in 0 .. n : ~\E g : CountsTo(size, g, m)}
<1> SUFFICES ASSUME Bad # {} PROVE FALSE
  <2>1. n \in 0 .. n
    OBVIOUS
  <2> QED BY <2>1
<1>1. PICK m \in Bad : \A k \in Bad : m <= k
  <2>1. Bad \in SUBSET Nat
    OBVIOUS
  <2> HIDE DEF Bad
  <2> QED BY <2>1, LeastExists
<1>2. m \in 0 .. n /\ ~\E g : CountsTo(size, g, m)
  BY <1>1
<1>3. CASE m = 0
  <2>1. CountsTo(size, [i \in 0 .. m |-> 0], m)
    BY <1>3 DEF CountsTo
  <2> QED BY <1>2, <2>1
<1>4. CASE m # 0
  <2>1. m - 1 \in 0 .. n /\ ~(m <= m - 1) /\ m \in Nat
    BY <1>2, <1>4
  <2>2. \E g : CountsTo(size, g, m - 1)
    BY <1>1, <2>1
  <2> QED BY <1>2, <1>4, <2>1, <2>2, CountExtends
<1> QED BY <1>3, <1>4

LEMMA CollectedCounts ==
  ASSUME NEW size, nbucket1 \in Nat
  PROVE  CountsTo(size, Collected(size), nbucket1)
<1>1. \E g : CountsTo(size, g, nbucket1)
  BY CountExists
<1>2. CountsTo(size, CHOOSE g : CountsTo(size, g, nbucket1), nbucket1)
  BY <1>1
<1>3. Collected(size) = CHOOSE g : CountsTo(size, g, nbucket1)
  BY Zenon DEF Collected, CountsTo, Asked
<1> QED BY <1>2, <1>3

LEMMA CollectedProperties ==
  ASSUME SoundBuckets(buckets), nbucket1 \in 1 .. NBuckets, clock \in Nat,
         NEW size \in Nat
  PROVE  LET got == Collected(size) IN
         /\ \A i \in 0 .. nbucket1 : got[i] \in 0 .. size
         /\ \A i \in 0 .. nbucket1 - 1 :
              /\ got[i + 1] = got[i] + Asked(size, i, got[i])
              /\ got[i] <= got[nbucket1] /\ got[i + 1] <= got[nbucket1]
<1> DEFINE got == Collected(size)
<1>1. \A i \in 0 .. nbucket1 :
        got[i] = IF i = 0 THEN 0 ELSE got[i - 1] + Asked(size, i - 1, got[i - 1])
  BY CollectedCounts DEF CountsTo
<1> HIDE DEF got
<1>2. ASSUME NEW i \in 0 .. nbucket1 - 1, got[i] \in 0 .. size
      PROVE  /\ got[i + 1] = got[i] + Asked(size, i, got[i])
             /\ got[i + 1] \in 0 .. size /\ got[i] <= got[i + 1]
  <2>1. i + 1 \in 0 .. nbucket1 /\ i + 1 # 0 /\ (i + 1) - 1 = i
    OBVIOUS
  <2>2. got[i + 1] = got[i] + Asked(size, i, got[i])
    BY <1>1, <2>1
  <2>3. SoundBucket(buckets[i], IdsOf(i), Hosts) /\ size - got[i] \in Nat
    BY <1>2 DEF SoundBuckets, Slots
  <2>4. Asked(size, i, got[i]) \in Nat /\ Asked(size, i, got[i]) <= size - got[i]
    BY <2>3, PingItemsBounded DEF Asked
  <2> QED BY <1>2, <2>2, <2>4
<1>3. \A i \in 0 .. nbucket1 : got[i] \in 0 .. size
  <2> DEFINE Bad == {i \in 0 .. nbucket1 : got[i] \notin 0 .. size}
  <2> SUFFICES ASSUME Bad # {} PROVE FALSE
    OBVIOUS
  <2>1. PICK m \in Bad : \A k \in Bad : m <= k
    <3>1. Bad \in SUBSET Nat
      OBVIOUS
    <3> HIDE DEF Bad
    <3> QED BY <3>1, LeastExists
  <2>2. m \in 0 .. nbucket1 /\ got[m] \notin 0 .. size
    BY <2>1
  <2>3. m # 0
    BY <1>1, <2>2
  <2>4. m - 1 \in 0 .. nbucket1 - 1 /\ (m - 1) + 1 = m /\ ~(m <= m - 1)
    BY <2>2, <2>3
  <2>5. got[m - 1] \in 0 .. size
    BY <2>1, <2>4
  <2> QED BY <1>2, <2>2, <2>4, <2>5
<1>4. \A i \in 0 .. nbucket1 : got[i] <= got[nbucket1]
  <2> DEFINE Bad == {k \in 0 .. nbucket1 : ~(got[nbucket1 - k] <= got[nbucket1])}
  <2>1. Bad = {}
    <3> SUFFICES ASSUME Bad # {} PROVE FALSE
      OBVIOUS
    <3>1. PICK m \in Bad : \A k \in Bad : m <= k
      <4>1. Bad \in SUBSET Nat
        OBVIOUS
      <4> HIDE DEF Bad
      <4> QED BY <4>1, LeastExists
    <3>2. m \in 0 .. nbucket1 /\ ~(got[nbucket1 - m] <= got[nbucket1])
      BY <3>1
    <3>3. got[nbucket1] \in 0 .. size
      BY <1>3
    <3>4. m # 0
      BY <3>2, <3>3
    <3>5. /\ m - 1 \in 0 .. nbucket1 /\ ~(m <= m - 1)
          /\ nbucket1 - m \in 0 .. nbucket1 - 1
          /\ (nbucket1 - m) + 1 = nbucket1 - (m - 1)
          /\ nbucket1 - (m - 1) \in 0 .. nbucket1
      BY <3>2, <3>4
    <3>6. got[nbucket1 - (m - 1)] <= got[nbucket1]
      BY <3>1, <3>5
    <3>7. /\ got[nbucket1 - m] \in 0 .. size /\ got[nbucket1 - (m - 1)] \in 0 .. size
          /\ got[nbucket1 - m] <= got[nbucket1 - (m - 1)]
      BY <1>2, <1>3, <3>5
    <3> QED BY <3>2, <3>3, <3>6, <3>7
  <2>2. ASSUME NEW i \in 0 .. nbucket1 PROVE got[i] <= got[nbucket1]
    <3>1. nbucket1 - i \in 0 .. nbucket1 /\ nbucket1 - (nbucket1 - i) = i
      OBVIOUS
    <3>2. nbucket1 - i \notin Bad
      BY <2>1
    <3> QED BY <3>1, <3>2
  <2> QED BY <2>2
<1>5. ASSUME NEW i \in 0 .. nbucket1 - 1
      PROVE  /\ got[i + 1] = got[i] + Asked(size, i, got[i])
             /\ got[i] <= got[nbucket1] /\ got[i + 1] <= got[nbucket1]
  <2>1. i \in 0 .. nbucket1 /\ i + 1 \in 0 .. nbucket1
    OBVIOUS
  <2> QED BY <1>2, <1>3, <1>4, <2>1
<1> QED BY <1>3, <1>5 DEF got

-----------------------------------------------------------------------------
(* The inductive invariant: every bucket is sound, those behind nbucket1    *)
(* were never used, and what a failed contact left behind is seen from the  *)
(* last call.                                                               *)
Calls(i) == [op : {"none", "update", "failed", "ping"}, id : IdsOf(i) \cup {NullId}]

Ranges ==
  /\ nbucket1 \in 1 .. NBuckets /\ nbucket0 \in 0 .. nbucket1
  /\ needPing \in BOOLEAN /\ clock \in Nat

Unused == \A i \in Slots : i >= nbucket1 => buckets[i] = EmptyBucket

CallsSound ==
  /\ calls = [i \in Slots |-> calls[i]]
  /\ \A i \in Slots :
       calls[i] \in Calls(i)
       /\ (calls[i].op = "failed" => WithoutId(buckets[i].backups, calls[i].id))

TableInv ==
  Ranges /\ SoundBuckets(buckets) /\ Unused /\ CallsSound /\ WindowIsClosest /\ PingableSync

LEMMA Sizes == /\ K \in Nat \ {0} /\ NBuckets \in Nat \ {0} /\ NullId \notin Ids
               /\ \A id \in Ids : Index[id] \in 0 .. NBuckets
               /\ BootTime \in Nat
  BY DEF KtableAssumption

LEMMA InitSound == Init => TableInv
<1> SUFFICES ASSUME Init PROVE TableInv
  OBVIOUS
<1>1. Ranges
  <2>1. nbucket0 = 0 /\ nbucket1 = 1 /\ needPing = FALSE /\ clock = BootTime
    BY DEF Init
  <2>2. nbucket1 \in 1 .. NBuckets /\ nbucket0 \in 0 .. nbucket1
    BY <2>1, Sizes
  <2> QED BY <2>1, <2>2, Sizes DEF Ranges
<1>2. SoundBuckets(buckets)
  BY EmptyBucketSound DEF Init, SoundBuckets
<1>3. Unused
  BY DEF Init, Unused
<1>4. CallsSound
  BY DEF Init, CallsSound, Calls, NoCall
<1>5. WindowIsClosest
  <2>1. CountIn(buckets, 0, 1) = 0
    <3>1. Cells(buckets, 0, 1) = {}
      <4> SUFFICES ASSUME NEW i \in 0 .. 1 - 1 PROVE DOMAIN buckets[i].nodes = {}
        BY DEF Cells
      <4>1. i \in Slots
        BY DEF Slots
      <4>2. buckets[i].nodes = <<>>
        BY <4>1 DEF Init, EmptyBucket
      <4> QED BY <4>2
    <3> QED BY <3>1, FS_EmptySet DEF CountIn, Cells
  <2> QED BY <2>1 DEF Init, WindowIsClosest
<1>6. PingableSync
  BY DEF Init, PingableSync, EmptyBucket
<1> QED BY <1>1, <1>2, <1>3, <1>4, <1>5, <1>6 DEF TableInv

(* The bucket an item falls into. *)
LEMMA ItemBucket ==
  ASSUME NEW item \in Items, Index[item.id] < NBuckets
  PROVE  /\ Index[item.id] \in Slots
         /\ item \in [id : IdsOf(Index[item.id]), host : Hosts]
         /\ item.id \in IdsOf(Index[item.id]) /\ item.id # NullId
  BY DEF Items, Slots, IdsOf

LEMMA InsertNodeSound ==
  ASSUME TableInv, NEW item \in Items, NEW contacted \in BOOLEAN, InsertNode(item, contacted)
  PROVE  TableInv'
<1> DEFINE i == Index[item.id]
           r == UpdateContact(buckets[i], item, contacted, clock)
<1>1. /\ i \in Slots /\ i \in Nat /\ i < NBuckets
      /\ item \in [id : IdsOf(i), host : Hosts]
      /\ item.id \in IdsOf(i)
  BY ItemBucket DEF InsertNode, Slots
<1>2. Ranges /\ SoundBuckets(buckets) /\ Unused /\ CallsSound /\ WindowIsClosest /\ PingableSync
  BY DEF TableInv
<1>3. /\ SoundBucket(r, IdsOf(i), Hosts)
      /\ Len(buckets[i].nodes) <= Len(r.nodes)
  <2>1. NullId \notin IdsOf(i) /\ SoundBucket(buckets[i], IdsOf(i), Hosts) /\ clock \in Nat
    BY <1>1, <1>2 DEF IdsOf, SoundBuckets, Ranges
  <2>2. SoundBucket(r, IdsOf(i), Hosts) /\ UpdateKeeps(buckets[i], r, clock)
    BY <1>1, <2>1, UpdateContactSound
  <2> QED BY <2>2 DEF UpdateKeeps
<1>4. /\ buckets' = [buckets EXCEPT ![i] = r]
      /\ nbucket1' = Max({nbucket1, i + 1})
      /\ nbucket0' = WindowFrom(buckets', nbucket0, nbucket1')
      /\ needPing' = (needPing \/ buckets'[i].needPing)
      /\ calls' = [calls EXCEPT ![i] = [op |-> "update", id |-> item.id]]
      /\ clock' = clock
  BY DEF InsertNode, Used
<1> HIDE DEF i, r
<1>5. /\ buckets' = [j \in Slots |-> buckets'[j]]
      /\ buckets'[i] = r
      /\ \A j \in Slots : j # i => buckets'[j] = buckets[j]
  BY <1>1, <1>2, <1>4 DEF SoundBuckets
<1>6. SoundBuckets(buckets')
  BY <1>2, <1>3, <1>5 DEF SoundBuckets
<1>7. nbucket1' \in 1 .. NBuckets /\ nbucket1 <= nbucket1' /\ i < nbucket1'
  <2>1. /\ nbucket1' \in {nbucket1, i + 1} /\ nbucket1 <= nbucket1' /\ i + 1 <= nbucket1'
    BY <1>1, <1>2, <1>4, MaxOfTwo DEF Ranges
  <2> QED BY <1>1, <1>2, <2>1 DEF Ranges
<1>8. /\ nbucket0' \in nbucket0 .. nbucket1'
      /\ CountIn(buckets', nbucket0', nbucket1') <= K
      /\ nbucket0' # nbucket0 => CountIn(buckets', nbucket0' - 1, nbucket1') > K
  <2>1. nbucket0 \in 0 .. nbucket1'
    BY <1>2, <1>7 DEF Ranges
  <2> QED BY <1>4, <1>6, <1>7, <2>1, WindowProperties
<1>9. Ranges'
  BY <1>2, <1>4, <1>5, <1>6, <1>7, <1>8 DEF Ranges, SoundBuckets, SoundBucket
<1>10. Unused'
  <2> SUFFICES ASSUME NEW j \in Slots, j >= nbucket1' PROVE buckets'[j] = EmptyBucket
    BY DEF Unused
  <2>1. j # i /\ j >= nbucket1
    BY <1>1, <1>2, <1>7 DEF Ranges, Slots
  <2> QED BY <1>2, <1>5, <2>1 DEF Unused
<1>11. CallsSound'
  <2>1. /\ calls' = [j \in Slots |-> calls'[j]]
        /\ calls'[i] = [op |-> "update", id |-> item.id]
        /\ \A j \in Slots : j # i => calls'[j] = calls[j]
    BY <1>1, <1>2, <1>4 DEF CallsSound
  <2>2. calls'[i] \in Calls(i) /\ calls'[i].op # "failed"
    BY <1>1, <2>1 DEF Calls
  <2> QED BY <1>2, <1>5, <2>1, <2>2 DEF CallsSound
<1>12. WindowIsClosest'
  <2>1. CASE nbucket0' = nbucket0 /\ nbucket0 > 0
    <3>1. CountIn(buckets, nbucket0 - 1, nbucket1) > K
      BY <1>2, <2>1 DEF WindowIsClosest
    <3>2. \A j \in Slots : Len(buckets[j].nodes) <= Len(buckets'[j].nodes)
      <4> SUFFICES ASSUME NEW j \in Slots PROVE Len(buckets[j].nodes) <= Len(buckets'[j].nodes)
        OBVIOUS
      <4>1. buckets[j].nodes \in Seq(Nodes(IdsOf(j), Hosts))
        BY <1>2 DEF SoundBuckets, SoundBucket
      <4>2. Len(buckets[j].nodes) \in Nat
        BY <4>1, SeqProperties
      <4> QED BY <1>3, <1>5, <4>2
    <3>3. nbucket0 - 1 \in Nat /\ nbucket1 \in 0 .. NBuckets /\ nbucket1' \in 0 .. NBuckets
      BY <1>2, <1>7, <2>1 DEF Ranges
    <3>4. CountIn(buckets, nbucket0 - 1, nbucket1) <= CountIn(buckets', nbucket0 - 1, nbucket1')
      BY <1>2, <1>6, <1>7, <3>2, <3>3, CountGrows
    <3>5. /\ CountIn(buckets, nbucket0 - 1, nbucket1) \in Nat
          /\ CountIn(buckets', nbucket0 - 1, nbucket1') \in Nat
      BY <1>2, <1>6, <3>3, CellsFinite
    <3>6. CountIn(buckets', nbucket0' - 1, nbucket1') > K
      BY <2>1, <3>1, <3>4, <3>5
    <3> QED BY <1>8, <3>6 DEF WindowIsClosest
  <2>2. CASE nbucket0' = nbucket0 /\ ~(nbucket0 > 0)
    BY <1>8, <2>2 DEF WindowIsClosest
  <2>3. CASE nbucket0' # nbucket0
    BY <1>8, <2>3 DEF WindowIsClosest
  <2> QED BY <2>1, <2>2, <2>3
<1>13. PingableSync'
  BY <1>2, <1>4, <1>5 DEF PingableSync
<1> QED BY <1>6, <1>9, <1>10, <1>11, <1>12, <1>13 DEF TableInv

(* What leaves the buckets their sizes leaves the window where it is. *)
LEMMA WindowKept ==
  ASSUME Ranges, SoundBuckets(buckets), SoundBuckets(buckets'),
         \A i \in Slots : Len(buckets[i].nodes) = Len(buckets'[i].nodes),
         nbucket0' = nbucket0, nbucket1' = nbucket1, WindowIsClosest
  PROVE  WindowIsClosest'
<1>1. nbucket0 \in Nat /\ nbucket1 \in 0 .. NBuckets
  BY DEF Ranges
<1>2. CountIn(buckets, nbucket0, nbucket1) = CountIn(buckets', nbucket0, nbucket1)
  BY <1>1, CountKept
<1>3. ASSUME nbucket0 > 0
      PROVE  CountIn(buckets, nbucket0 - 1, nbucket1) = CountIn(buckets', nbucket0 - 1, nbucket1)
  <2>1. nbucket0 - 1 \in Nat
    BY <1>1, <1>3
  <2> QED BY <1>1, <2>1, CountKept
<1> QED BY <1>2, <1>3 DEF WindowIsClosest

LEMMA FailContactSound ==
  ASSUME TableInv, NEW item \in Items, FailContact(item)
  PROVE  TableInv'
<1> DEFINE i == Index[item.id]
           r == FailedContact(buckets[i], item, clock)
<1>1. Ranges /\ SoundBuckets(buckets) /\ Unused /\ CallsSound /\ WindowIsClosest /\ PingableSync
  BY DEF TableInv
<1>2. i < NBuckets /\ i < nbucket1
  BY <1>1 DEF FailContact, Ranges, Items
<1>3. /\ i \in Slots /\ i \in Nat
      /\ item \in [id : IdsOf(i), host : Hosts]
      /\ item.id \in IdsOf(i) /\ item.id # NullId
  BY <1>2, ItemBucket DEF Slots
<1>4. /\ SoundBucket(r, IdsOf(i), Hosts)
      /\ Len(r.nodes) = Len(buckets[i].nodes) /\ r.needPing = buckets[i].needPing
      /\ WithoutId(r.backups, item.id)
  <2>1. NullId \notin IdsOf(i) /\ SoundBucket(buckets[i], IdsOf(i), Hosts) /\ clock \in Nat
    BY <1>1, <1>3 DEF IdsOf, SoundBuckets, Ranges
  <2>2. SoundBucket(r, IdsOf(i), Hosts) /\ FailedKeeps(buckets[i], r, item, clock)
    BY <1>3, <2>1, FailedContactSound
  <2> QED BY <2>2 DEF FailedKeeps
<1>5. /\ buckets' = [buckets EXCEPT ![i] = r]
      /\ calls' = [calls EXCEPT ![i] = [op |-> "failed", id |-> item.id]]
      /\ UNCHANGED <<nbucket0, nbucket1, needPing, clock>>
  BY DEF FailContact
<1> HIDE DEF i, r
<1>6. /\ buckets' = [j \in Slots |-> buckets'[j]]
      /\ buckets'[i] = r
      /\ \A j \in Slots : j # i => buckets'[j] = buckets[j]
  BY <1>1, <1>3, <1>5 DEF SoundBuckets
<1>7. SoundBuckets(buckets')
  BY <1>1, <1>4, <1>6 DEF SoundBuckets
<1>8. Ranges'
  BY <1>1, <1>5 DEF Ranges
<1>9. Unused'
  BY <1>1, <1>2, <1>3, <1>5, <1>6 DEF Unused, Ranges
<1>10. CallsSound'
  <2>1. /\ calls' = [j \in Slots |-> calls'[j]]
        /\ calls'[i] = [op |-> "failed", id |-> item.id]
        /\ \A j \in Slots : j # i => calls'[j] = calls[j]
    BY <1>1, <1>3, <1>5 DEF CallsSound
  <2>2. calls'[i] \in Calls(i) /\ WithoutId(buckets'[i].backups, calls'[i].id)
    BY <1>3, <1>4, <1>6, <2>1 DEF Calls
  <2> QED BY <1>1, <1>6, <2>1, <2>2 DEF CallsSound
<1>11. WindowIsClosest'
  <2>1. \A j \in Slots : Len(buckets[j].nodes) = Len(buckets'[j].nodes)
    BY <1>4, <1>6
  <2> QED BY <1>1, <1>5, <1>7, <2>1, WindowKept
<1>12. PingableSync'
  BY <1>1, <1>4, <1>5, <1>6 DEF PingableSync
<1> QED BY <1>7, <1>8, <1>9, <1>10, <1>11, <1>12 DEF TableInv

(* What a call of get_ping() does to each bucket. *)
LEMMA TablePingSteps ==
  ASSUME TableInv, NEW size \in 1 .. K, GetTablePing(size)
  PROVE  LET got == Collected(size)
             asked == AskedBuckets(got, size) IN
         /\ buckets' = [j \in Slots |-> buckets'[j]] /\ calls' = [j \in Slots |-> calls'[j]]
         /\ \A j \in asked :
              /\ j \in Slots /\ j < nbucket1 /\ buckets[j].needPing
              /\ size - got[j] \in 1 .. K
              /\ buckets'[j] = GetPing(buckets[j], size - got[j], clock)
              /\ calls'[j] = [op |-> "ping", id |-> NullId]
         /\ \A j \in Slots \ asked : buckets'[j] = buckets[j] /\ calls'[j] = calls[j]
         /\ needPing' = (got[nbucket1] > 0)
         /\ UNCHANGED <<nbucket0, nbucket1, clock>>
<1> DEFINE got == Collected(size)
           asked == AskedBuckets(got, size)
<1>1. Ranges /\ SoundBuckets(buckets)
  BY DEF TableInv
<1>2. \A j \in 0 .. nbucket1 : got[j] \in 0 .. size
  BY <1>1, CollectedProperties DEF Ranges
<1>3. /\ buckets' = [j \in Slots |-> IF j \in asked THEN GetPing(buckets[j], size - got[j], clock)
                                     ELSE buckets[j]]
      /\ needPing' = (got[nbucket1] > 0)
      /\ calls' = [j \in Slots |-> IF j \in asked THEN [op |-> "ping", id |-> NullId] ELSE calls[j]]
      /\ UNCHANGED <<nbucket0, nbucket1, clock>>
  BY DEF GetTablePing, StillNeed
<1> HIDE DEF got
<1>4. ASSUME NEW j \in asked
      PROVE  j \in Slots /\ j < nbucket1 /\ buckets[j].needPing /\ size - got[j] \in 1 .. K
  <2>1. j \in 0 .. nbucket1 - 1 /\ buckets[j].needPing /\ got[j] < size
    BY DEF AskedBuckets
  <2>2. got[j] \in 0 .. size
    BY <1>1, <1>2, <2>1 DEF Ranges
  <2> QED BY <1>1, <2>1, <2>2 DEF Ranges, Slots
<1> HIDE DEF asked
<1> QED BY <1>3, <1>4 DEF got, asked

LEMMA GetTablePingSound ==
  ASSUME TableInv, NEW size \in 1 .. K, GetTablePing(size)
  PROVE  TableInv'
<1> DEFINE got == Collected(size)
           asked == AskedBuckets(got, size)
<1>1. Ranges /\ SoundBuckets(buckets) /\ Unused /\ CallsSound /\ WindowIsClosest
  BY DEF TableInv
<1>2. /\ buckets' = [j \in Slots |-> buckets'[j]] /\ calls' = [j \in Slots |-> calls'[j]]
      /\ \A j \in asked :
           /\ j \in Slots /\ j < nbucket1 /\ buckets[j].needPing
           /\ size - got[j] \in 1 .. K
           /\ buckets'[j] = GetPing(buckets[j], size - got[j], clock)
           /\ calls'[j] = [op |-> "ping", id |-> NullId]
      /\ \A j \in Slots \ asked : buckets'[j] = buckets[j] /\ calls'[j] = calls[j]
      /\ needPing' = (got[nbucket1] > 0)
      /\ UNCHANGED <<nbucket0, nbucket1, clock>>
  BY TablePingSteps
<1>3. /\ \A j \in 0 .. nbucket1 : got[j] \in 0 .. size
      /\ \A j \in 0 .. nbucket1 - 1 :
           /\ got[j + 1] = got[j] + Asked(size, j, got[j])
           /\ got[j] <= got[nbucket1] /\ got[j + 1] <= got[nbucket1]
  BY <1>1, CollectedProperties DEF Ranges
<1>4. \A j \in 0 .. nbucket1 - 1 : buckets[j].needPing /\ ~(j \in asked) => ~(got[j] < size)
  BY DEF AskedBuckets
<1> HIDE DEF got, asked
<1>5. ASSUME NEW j \in asked
      PROVE  /\ SoundBucket(buckets'[j], IdsOf(j), Hosts)
             /\ buckets'[j].nodes = buckets[j].nodes
             /\ buckets'[j].needPing => Len(PingItems(buckets[j], size - got[j], clock)) > 0
  <2>1. SoundBucket(buckets[j], IdsOf(j), Hosts) /\ size - got[j] \in Nat \ {0} /\ clock \in Nat
    BY <1>1, <1>2 DEF SoundBuckets, Ranges
  <2> DEFINE b == buckets[j]
             n == size - got[j]
  <2>2. SoundBucket(b, IdsOf(j), Hosts) /\ n \in Nat \ {0} /\ clock \in Nat
    BY <2>1
  <2> HIDE DEF b, n
  <2>3. /\ SoundBucket(GetPing(b, n, clock), IdsOf(j), Hosts)
        /\ GetPing(b, n, clock).nodes = b.nodes
        /\ GetPing(b, n, clock).needPing => Len(PingItems(b, n, clock)) > 0
    BY <2>2, GetPingSound
  <2> QED BY <1>2, <2>3 DEF b, n
<1>6. \A j \in Slots : /\ SoundBucket(buckets'[j], IdsOf(j), Hosts)
                       /\ buckets'[j].nodes = buckets[j].nodes
  BY <1>1, <1>2, <1>5 DEF SoundBuckets
<1>7. SoundBuckets(buckets')
  BY <1>2, <1>6 DEF SoundBuckets
<1>8. Ranges'
  BY <1>1, <1>2 DEF Ranges
<1>9. Unused'
  <2> SUFFICES ASSUME NEW j \in Slots, j >= nbucket1' PROVE buckets'[j] = EmptyBucket
    BY DEF Unused
  <2>1. j \notin asked /\ j >= nbucket1
    BY <1>1, <1>2 DEF Ranges, Slots
  <2> QED BY <1>1, <1>2, <2>1 DEF Unused
<1>10. CallsSound'
  <2>1. \A j \in asked : calls'[j] \in Calls(j) /\ calls'[j].op # "failed"
    BY <1>2 DEF Calls
  <2> QED BY <1>1, <1>2, <2>1 DEF CallsSound
<1>11. WindowIsClosest'
  BY <1>1, <1>2, <1>6, <1>7, WindowKept
<1>12. PingableSync'
  <2> SUFFICES ASSUME NEW j \in Slots, buckets'[j].needPing PROVE got[nbucket1] > 0
    BY <1>2 DEF PingableSync
  <2>1. CASE j \in asked
    <3>1. j \in 0 .. nbucket1 - 1 /\ j + 1 \in 0 .. nbucket1 /\ j \in 0 .. nbucket1
      BY <1>1, <1>2, <2>1 DEF Ranges, Slots
    <3>2. Len(PingItems(buckets[j], size - got[j], clock)) > 0 /\ buckets[j].needPing
      BY <1>2, <1>5, <2>1
    <3>3. Len(PingItems(buckets[j], size - got[j], clock)) \in Nat
      <4>1. SoundBucket(buckets[j], IdsOf(j), Hosts) /\ size - got[j] \in Nat /\ clock \in Nat
        BY SMTT(30), <1>1, <1>2, <2>1 DEF SoundBuckets, Ranges
      <4> QED BY <4>1, PingItemsBounded
    <3>4. got[j + 1] = got[j] + Len(PingItems(buckets[j], size - got[j], clock))
      BY <1>3, <3>1, <3>2 DEF Asked
    <3>5. got[j] \in Nat /\ got[nbucket1] \in 0 .. size /\ got[j + 1] <= got[nbucket1]
      BY <1>1, <1>3, <3>1 DEF Ranges
    <3> QED BY <3>2, <3>3, <3>4, <3>5
  <2>2. CASE j \notin asked
    <3>1. buckets'[j] = buckets[j] /\ buckets[j].needPing
      BY <1>2, <2>2
    <3>2. j \in 0 .. nbucket1 - 1
      BY <1>1, <3>1 DEF Unused, EmptyBucket, Slots, Ranges
    <3>3. ~(got[j] < size) /\ got[j] <= got[nbucket1]
      BY <1>3, <1>4, <2>2, <3>1, <3>2
    <3>4. got[j] \in 0 .. size /\ got[nbucket1] \in 0 .. size
      BY <1>1, <1>3, <3>2 DEF Ranges
    <3> QED BY <3>3, <3>4
  <2> QED BY <2>1, <2>2
<1> QED BY <1>7, <1>8, <1>9, <1>10, <1>11, <1>12 DEF TableInv

LEMMA TickSound == TableInv /\ Tick => TableInv'
<1> SUFFICES ASSUME TableInv, Tick PROVE TableInv'
  OBVIOUS
<1>1. Ranges /\ SoundBuckets(buckets) /\ Unused /\ CallsSound /\ WindowIsClosest /\ PingableSync
  BY DEF TableInv
<1>2. clock' = clock + 1 /\ calls' = [i \in Slots |-> NoCall]
      /\ UNCHANGED <<buckets, nbucket0, nbucket1, needPing>>
  BY DEF Tick
<1>3. Ranges'
  BY <1>1, <1>2 DEF Ranges
<1>4. CallsSound'
  BY <1>2 DEF CallsSound, Calls, NoCall
<1>5. Unused' /\ WindowIsClosest' /\ PingableSync' /\ SoundBuckets(buckets')
  BY <1>1, <1>2 DEF Unused, WindowIsClosest, PingableSync
<1> QED BY <1>3, <1>4, <1>5 DEF TableInv

LEMMA StepSound == TableInv /\ [Next]_vars => TableInv'
<1> SUFFICES ASSUME TableInv, [Next]_vars PROVE TableInv'
  OBVIOUS
<1>1. ASSUME NEW item \in Items, NEW contacted \in BOOLEAN, InsertNode(item, contacted)
      PROVE  TableInv'
  BY <1>1, InsertNodeSound
<1>2. ASSUME NEW item \in Items, FailContact(item) PROVE TableInv'
  BY <1>2, FailContactSound
<1>3. ASSUME NEW size \in 1 .. K, GetTablePing(size) PROVE TableInv'
  BY <1>3, GetTablePingSound
<1>4. CASE Tick
  BY <1>4, TickSound
<1>5. CASE UNCHANGED vars
  BY <1>5 DEF vars, TableInv, Ranges, Unused, CallsSound, WindowIsClosest, PingableSync
<1> QED BY <1>1, <1>2, <1>3, <1>4, <1>5 DEF Next

(* The table is in order after every call: the invariant the properties     *)
(* below rest on (ktable.cc).                                               *)
THEOREM TableInvHolds == Spec => []TableInv
  BY InitSound, StepSound, PTL DEF Spec

-----------------------------------------------------------------------------
(* The invariant says what TableSound promises. *)
LEMMA SeqGrows ==
  ASSUME NEW S, NEW T, S \subseteq T, NEW s \in Seq(S)
  PROVE  s \in Seq(T)
<1>1. Len(s) \in Nat /\ s \in [1 .. Len(s) -> S]
  OBVIOUS
<1>2. s \in [1 .. Len(s) -> T]
  BY <1>1
<1> QED BY <1>1, <1>2

LEMMA BucketTyped ==
  ASSUME NEW i, NEW b, SoundBucket(b, IdsOf(i), Hosts)
  PROVE  /\ b \in [nodes : Seq(Node), backups : Seq(Node), needPing : BOOLEAN]
         /\ Len(b.nodes) <= K /\ Len(b.backups) <= K
<1>1. Nodes(IdsOf(i), Hosts) \subseteq Node
  BY DEF Nodes, Node, IdsOf
<1>2. /\ b \in [nodes : Seq(Nodes(IdsOf(i), Hosts)), backups : Seq(Nodes(IdsOf(i), Hosts)),
                needPing : BOOLEAN]
      /\ Len(b.nodes) <= K /\ Len(b.backups) <= K
  BY DEF SoundBucket
<1>3. b.nodes \in Seq(Node) /\ b.backups \in Seq(Node)
  BY <1>1, <1>2, SeqGrows
<1> QED BY <1>2, <1>3

LEMMA InvTyped == TableInv => TypeOK
<1> SUFFICES ASSUME TableInv PROVE TypeOK
  OBVIOUS
<1>1. Ranges /\ SoundBuckets(buckets) /\ CallsSound
  BY DEF TableInv
<1>2. \A i \in Slots : /\ buckets[i] \in [nodes : Seq(Node), backups : Seq(Node), needPing : BOOLEAN]
                       /\ Len(buckets[i].nodes) <= K /\ Len(buckets[i].backups) <= K
  BY <1>1, BucketTyped DEF SoundBuckets
<1>3. buckets \in [Slots -> [nodes : Seq(Node), backups : Seq(Node), needPing : BOOLEAN]]
  BY <1>1, <1>2 DEF SoundBuckets
<1>4. \A i \in Slots : calls[i] \in [op : {"none", "update", "failed", "ping"}, id : Ids \cup {NullId}]
  BY <1>1 DEF CallsSound, Calls, IdsOf
<1>5. calls \in [Slots -> [op : {"none", "update", "failed", "ping"}, id : Ids \cup {NullId}]]
  BY <1>1, <1>4 DEF CallsSound
<1> QED BY <1>1, <1>2, <1>3, <1>5 DEF TypeOK, Ranges

LEMMA InvPlaced == TableInv => Placed
<1> SUFFICES ASSUME TableInv, NEW i \in Slots,
                    NEW n \in ToSet(buckets[i].nodes) \cup ToSet(buckets[i].backups), n.id # NullId
             PROVE  Index[n.id] = i /\ i < nbucket1
  BY DEF Placed
<1>1. Ranges /\ SoundBuckets(buckets) /\ Unused
  BY DEF TableInv
<1>2. /\ buckets[i].nodes \in Seq(Nodes(IdsOf(i), Hosts))
      /\ buckets[i].backups \in Seq(Nodes(IdsOf(i), Hosts))
  BY <1>1 DEF SoundBuckets, SoundBucket
<1>3. n \in Nodes(IdsOf(i), Hosts)
  BY <1>2, SeqProperties DEF ToSet
<1>4. Index[n.id] = i
  BY <1>3 DEF Nodes, IdsOf
<1>5. ASSUME i >= nbucket1 PROVE FALSE
  <2>1. buckets[i].nodes = <<>> /\ buckets[i].backups = <<>>
    BY <1>1, <1>5 DEF Unused, EmptyBucket
  <2>2. \A k \in DOMAIN <<>> : FALSE
    OBVIOUS
  <2> QED BY <2>1, <2>2 DEF ToSet
<1> QED BY <1>1, <1>4, <1>5 DEF Ranges, Slots

LEMMA InvBuckets ==
  ASSUME TableInv, NEW i \in Slots
  PROVE  Bucket(i)!BucketSound
<1>1. /\ SoundBucket(buckets[i], IdsOf(i), Hosts) /\ clock \in Nat
      /\ calls[i] \in Calls(i)
      /\ calls[i].op = "failed" => WithoutId(buckets[i].backups, calls[i].id)
  BY DEF TableInv, Ranges, SoundBuckets, CallsSound
<1>2. Bucket(i)!Node = Nodes(IdsOf(i), Hosts)
  BY DEF Bucket!Node, Nodes, IdsOf
<1>3. Bucket(i)!TypeOK
  BY <1>1, <1>2 DEF Bucket!TypeOK, SoundBucket, Calls, IdsOf
<1>4. Bucket(i)!BackupsDistinct
  BY <1>1 DEF Bucket!BackupsDistinct, SoundBucket, Distinct
<1>5. Bucket(i)!NoEmptyNode
  BY <1>1 DEF Bucket!NoEmptyNode, Bucket!Has, SoundBucket, WithoutId
<1>6. Bucket(i)!NotItsOwnBackup
  BY <1>1 DEF Bucket!NotItsOwnBackup, Bucket!Has, WithoutId
<1> QED BY <1>3, <1>4, <1>5, <1>6 DEF Bucket!BucketSound

(* Whatever contacts are reported, in whatever order and at whatever times, *)
(* a contact stands where its id puts it, b_nbucket0 delimits the closest,  *)
(* pingd is called while a bucket needs it, and every bucket is sound.      *)
THEOREM TableSoundHolds == Spec => []TableSound
<1>1. TableInv => TableSound
  BY InvTyped, InvPlaced, InvBuckets DEF TableSound, TableInv
<1> QED BY <1>1, TableInvHolds, PTL

-----------------------------------------------------------------------------
(* Refinement: a step of the table is, for each bucket, a step of           *)
(* KbucketSpec or none, and never one that it rules out.                    *)
Work(i) == /\ [Bucket(i)!Next]_(Bucket(i)!vars)
           /\ Bucket(i)!DropsForCause
           /\ Bucket(i)!ClearsWhenAllGood

LEMMA SameFunctions ==
  ASSUME NEW i
  PROVE  /\ \A b, item, contacted, now :
              Bucket(i)!UpdateContact(b, item, contacted, now) = UpdateContact(b, item, contacted, now)
         /\ \A b, item, now : Bucket(i)!FailedContact(b, item, now) = FailedContact(b, item, now)
         /\ \A b, size, now : Bucket(i)!GetPing(b, size, now) = GetPing(b, size, now)
         /\ \A n : Bucket(i)!IsBad(n) = IsBad(n)
<1>1. \A b, item, contacted, now :
        Bucket(i)!UpdateContact(b, item, contacted, now) = UpdateContact(b, item, contacted, now)
  BY DEF UpdateContact, SlotsOf, IsBad, IsDoubt, Meet, Touch, NewNode, SetItem, UpdateBackup, Oldest,
         Bucket!UpdateContact, Bucket!SlotsOf, Bucket!IsBad, Bucket!IsDoubt, Bucket!Meet,
         Bucket!Touch, Bucket!NewNode, Bucket!SetItem, Bucket!UpdateBackup, Bucket!Oldest, Min, Bucket!Min
<1>2. \A b, item, now : Bucket(i)!FailedContact(b, item, now) = FailedContact(b, item, now)
  BY DEF FailedContact, SlotsOf, Failed, Usable, Entries, NewNode, Replaceable, Latest, Min, Cardinality,
         Bucket!FailedContact, Bucket!SlotsOf, Bucket!Failed, Bucket!Usable, Bucket!Entries,
         Bucket!NewNode, Bucket!Replaceable, Bucket!Latest, Bucket!Min, Bucket!Cardinality
<1>3. \A b, size, now : Bucket(i)!GetPing(b, size, now) = GetPing(b, size, now)
  BY DEF GetPing, PingItems, Entries, IsDoubt, IsBad, Min, Cardinality,
         Bucket!GetPing, Bucket!PingItems, Bucket!Entries, Bucket!IsDoubt, Bucket!IsBad, Bucket!Min,
         Bucket!Cardinality
<1>4. \A n : Bucket(i)!IsBad(n) = IsBad(n)
  BY DEF IsBad, Bucket!IsBad
<1> QED BY <1>1, <1>2, <1>3, <1>4

LEMMA Idle ==
  ASSUME NEW i, buckets'[i] = buckets[i], calls'[i] = calls[i], clock' = clock
  PROVE  Work(i)
<1>1. UNCHANGED Bucket(i)!vars
  BY DEF Bucket!vars
<1>2. Bucket(i)!DropsForCause
  BY DEF Bucket!DropsForCause, Bucket!Has
<1>3. Bucket(i)!ClearsWhenAllGood
  BY DEF Bucket!ClearsWhenAllGood
<1> QED BY <1>1, <1>2, <1>3 DEF Work

LEMMA UpdateWorks ==
  ASSUME NEW i \in Slots, TableInv, NEW item \in [id : IdsOf(i), host : Hosts],
         NEW contacted \in BOOLEAN,
         buckets'[i] = UpdateContact(buckets[i], item, contacted, clock),
         calls'[i] = [op |-> "update", id |-> item.id], clock' = clock
  PROVE  Work(i)
<1>1. SoundBucket(buckets[i], IdsOf(i), Hosts) /\ clock \in Nat /\ NullId \notin IdsOf(i)
  BY Sizes DEF TableInv, SoundBuckets, Ranges, IdsOf
<1>2. UpdateKeeps(buckets[i], UpdateContact(buckets[i], item, contacted, clock), clock)
  BY <1>1, Sizes, UpdateContactSound
<1>3. Bucket(i)!Update(item, contacted)
  BY SameFunctions DEF Bucket!Update
<1>4. Bucket(i)!Next
  BY <1>3 DEF Bucket!Next, Bucket!Items, IdsOf
<1>5. Bucket(i)!DropsForCause
  BY <1>2, SameFunctions DEF UpdateKeeps, Bucket!DropsForCause, Bucket!Has
<1>6. Bucket(i)!ClearsWhenAllGood
  <2> SUFFICES ASSUME buckets[i].backups # <<>>, buckets'[i].backups = <<>>,
                      NEW k \in DOMAIN buckets[i].nodes
               PROVE  /\ buckets[i].nodes[k].seen # 0
                      /\ buckets[i].nodes[k].seen + DoubtAge >= clock
    BY DEF Bucket!ClearsWhenAllGood
  <2>1. ~IsBad(buckets[i].nodes[k]) /\ ~IsDoubt(buckets[i].nodes[k], clock)
    BY <1>2 DEF UpdateKeeps
  <2>2. buckets[i].nodes[k].seen \in Nat
    <3>1. buckets[i].nodes \in Seq(Nodes(IdsOf(i), Hosts))
      BY <1>1 DEF SoundBucket
    <3>2. buckets[i].nodes[k] \in Nodes(IdsOf(i), Hosts)
      BY <3>1, SeqProperties
    <3> QED BY <3>2 DEF Nodes
  <2> QED BY <1>1, <2>1, <2>2, KnodeAssumption DEF IsDoubt
<1> QED BY <1>4, <1>5, <1>6 DEF Work

LEMMA FailWorks ==
  ASSUME NEW i \in Slots, TableInv, NEW item \in [id : IdsOf(i), host : Hosts],
         buckets'[i] = FailedContact(buckets[i], item, clock),
         calls'[i] = [op |-> "failed", id |-> item.id], clock' = clock
  PROVE  Work(i)
<1>1. SoundBucket(buckets[i], IdsOf(i), Hosts) /\ clock \in Nat /\ NullId \notin IdsOf(i)
  BY Sizes DEF TableInv, SoundBuckets, Ranges, IdsOf
<1>2. FailedKeeps(buckets[i], buckets'[i], item, clock)
  BY <1>1, FailedContactSound
<1>3. Bucket(i)!Fail(item)
  BY SameFunctions DEF Bucket!Fail
<1>4. Bucket(i)!Next
  BY <1>3 DEF Bucket!Next, Bucket!Items, IdsOf
<1>5. Bucket(i)!DropsForCause
  BY <1>2, SameFunctions DEF FailedKeeps, Bucket!DropsForCause, Bucket!Has
<1>6. Bucket(i)!ClearsWhenAllGood
  BY DEF Bucket!ClearsWhenAllGood
<1> QED BY <1>4, <1>5, <1>6 DEF Work

LEMMA PingWorks ==
  ASSUME NEW i \in Slots, TableInv, NEW size \in 1 .. K, buckets[i].needPing,
         buckets'[i] = GetPing(buckets[i], size, clock),
         calls'[i] = [op |-> "ping", id |-> NullId], clock' = clock
  PROVE  Work(i)
<1>1. SoundBucket(buckets[i], IdsOf(i), Hosts) /\ clock \in Nat /\ size \in Nat \ {0}
  BY Sizes DEF TableInv, SoundBuckets, Ranges
<1>2. buckets'[i].nodes = buckets[i].nodes /\ buckets'[i].backups = buckets[i].backups
  BY <1>1, GetPingSound
<1>3. Bucket(i)!Ping(size)
  BY SameFunctions DEF Bucket!Ping
<1>4. Bucket(i)!Next
  BY <1>3 DEF Bucket!Next
<1>5. Bucket(i)!DropsForCause
  BY <1>2 DEF Bucket!DropsForCause, Bucket!Has
<1>6. Bucket(i)!ClearsWhenAllGood
  BY <1>2 DEF Bucket!ClearsWhenAllGood
<1> QED BY <1>4, <1>5, <1>6 DEF Work

LEMMA TickWorks ==
  ASSUME NEW i \in Slots, Tick
  PROVE  Work(i)
<1>1. /\ clock < MaxClock /\ clock' = clock + 1
      /\ calls'[i] = [op |-> "none", id |-> NullId] /\ buckets' = buckets
  BY DEF Tick, NoCall
<1>2. Bucket(i)!Next
  BY <1>1 DEF Bucket!Next, Bucket!Tick
<1>3. Bucket(i)!DropsForCause /\ Bucket(i)!ClearsWhenAllGood
  BY <1>1 DEF Bucket!DropsForCause, Bucket!ClearsWhenAllGood, Bucket!Has
<1> QED BY <1>2, <1>3 DEF Work

LEMMA StepWorks ==
  ASSUME TableInv, [Next]_vars, NEW i \in Slots
  PROVE  Work(i)
<1>1. ASSUME NEW item \in Items, NEW contacted \in BOOLEAN, InsertNode(item, contacted)
      PROVE  Work(i)
  <2> DEFINE k == Index[item.id]
  <2>1. k \in Slots /\ item \in [id : IdsOf(k), host : Hosts]
    BY <1>1, ItemBucket DEF InsertNode
  <2>2. /\ buckets' = [buckets EXCEPT ![k] = UpdateContact(buckets[k], item, contacted, clock)]
        /\ calls' = [calls EXCEPT ![k] = [op |-> "update", id |-> item.id]]
        /\ clock' = clock
    BY <1>1 DEF InsertNode
  <2>3. buckets = [j \in Slots |-> buckets[j]] /\ calls = [j \in Slots |-> calls[j]]
    BY DEF TableInv, SoundBuckets, CallsSound
  <2> HIDE DEF k
  <2>4. CASE i = k
    <3>1. /\ buckets'[i] = UpdateContact(buckets[i], item, contacted, clock)
          /\ calls'[i] = [op |-> "update", id |-> item.id]
      BY <2>1, <2>2, <2>3, <2>4
    <3> QED BY <2>1, <2>2, <2>4, <3>1, UpdateWorks
  <2>5. CASE i # k
    <3>1. buckets'[i] = buckets[i] /\ calls'[i] = calls[i]
      BY <2>2, <2>3, <2>5
    <3> QED BY <2>2, <3>1, Idle
  <2> QED BY <2>4, <2>5
<1>2. ASSUME NEW item \in Items, FailContact(item) PROVE Work(i)
  <2> DEFINE k == Index[item.id]
  <2>1. k \in Slots /\ item \in [id : IdsOf(k), host : Hosts]
    <3>1. k < NBuckets
      BY <1>2 DEF FailContact, TableInv, Ranges, Items
    <3> QED BY <3>1, ItemBucket
  <2>2. /\ buckets' = [buckets EXCEPT ![k] = FailedContact(buckets[k], item, clock)]
        /\ calls' = [calls EXCEPT ![k] = [op |-> "failed", id |-> item.id]]
        /\ clock' = clock
    BY <1>2 DEF FailContact
  <2>3. buckets = [j \in Slots |-> buckets[j]] /\ calls = [j \in Slots |-> calls[j]]
    BY DEF TableInv, SoundBuckets, CallsSound
  <2> HIDE DEF k
  <2>4. CASE i = k
    <3>1. /\ buckets'[i] = FailedContact(buckets[i], item, clock)
          /\ calls'[i] = [op |-> "failed", id |-> item.id]
      BY <2>1, <2>2, <2>3, <2>4
    <3> QED BY <2>1, <2>2, <2>4, <3>1, FailWorks
  <2>5. CASE i # k
    <3>1. buckets'[i] = buckets[i] /\ calls'[i] = calls[i]
      BY <2>2, <2>3, <2>5
    <3> QED BY <2>2, <3>1, Idle
  <2> QED BY <2>4, <2>5
<1>3. ASSUME NEW size \in 1 .. K, GetTablePing(size) PROVE Work(i)
  <2> DEFINE got == Collected(size)
             asked == AskedBuckets(got, size)
  <2>1. /\ \A j \in asked :
             /\ j \in Slots /\ j < nbucket1 /\ buckets[j].needPing
             /\ size - got[j] \in 1 .. K
             /\ buckets'[j] = GetPing(buckets[j], size - got[j], clock)
             /\ calls'[j] = [op |-> "ping", id |-> NullId]
        /\ \A j \in Slots \ asked : buckets'[j] = buckets[j] /\ calls'[j] = calls[j]
        /\ clock' = clock
    BY <1>3, TablePingSteps
  <2> HIDE DEF got, asked
  <2>2. CASE i \in asked
    <3> DEFINE n == size - got[i]
    <3>1. /\ buckets[i].needPing /\ n \in 1 .. K
          /\ buckets'[i] = GetPing(buckets[i], n, clock)
          /\ calls'[i] = [op |-> "ping", id |-> NullId]
      BY <2>1, <2>2
    <3> HIDE DEF n
    <3> QED BY <2>1, <3>1, PingWorks
  <2>3. CASE i \notin asked
    BY <2>1, <2>3, Idle
  <2> QED BY <2>2, <2>3
<1>4. CASE Tick
  BY <1>4, TickWorks
<1>5. CASE UNCHANGED vars
  BY <1>5, Idle DEF vars
<1> QED BY <1>1, <1>2, <1>3, <1>4, <1>5 DEF Next

(* The table implements KbucketSpec in every bucket, keeps its promises on  *)
(* which nodes leave and when backups are dropped, and so a flood of new    *)
(* contacts drives out no node that answers (kbucket.cc, update_contact).   *)
THEOREM BucketsWorkHolds == Spec => BucketsWork
<1>1. Init => \A i \in Slots : Bucket(i)!Init
  BY DEF Init, Bucket!Init, EmptyBucket, Bucket!EmptyBucket, NoCall
<1>2. TableInv /\ [Next]_vars => [\A i \in Slots : Work(i)]_vars
  BY StepWorks
<1>3. Spec => [][\A i \in Slots : Work(i)]_vars
  BY <1>2, TableInvHolds, PTL DEF Spec
<1> QED BY <1>1, <1>3, PTL DEF Spec, BucketsWork, Work

-----------------------------------------------------------------------------
(* find_nodes() gathers what the buckets have, one after the other: the     *)
(* function that goes on from each sequence to the next exists, and counts  *)
(* what the sequences stand for, the disjoint sets of row.                  *)
Gathered(row, m) == UNION {row[n] : n \in 1 .. m}

FlattensTo(ss, g, m) == g = [i \in 1 .. m |-> IF i = 1 THEN ss[i] ELSE g[i - 1] \o ss[i]]

LEMMA FlattenExtends ==
  ASSUME NEW ss, NEW m \in Nat, m # 0, NEW g, FlattensTo(ss, g, m - 1)
  PROVE  \E h : FlattensTo(ss, h, m)
<1> DEFINE h == [i \in 1 .. m |-> IF i = m THEN (IF m = 1 THEN ss[m] ELSE g[m - 1] \o ss[m]) ELSE g[i]]
<1>1. \A i \in 1 .. m - 1 : g[i] = IF i = 1 THEN ss[i] ELSE g[i - 1] \o ss[i]
  BY DEF FlattensTo
<1>2. ASSUME NEW i \in 1 .. m
      PROVE  h[i] = IF i = 1 THEN ss[i] ELSE h[i - 1] \o ss[i]
  <2>1. CASE i = 1 /\ i = m
    BY <2>1
  <2>2. CASE i = 1 /\ i # m
    <3>1. i \in 1 .. m - 1
      BY <2>2
    <3> QED BY <1>1, <2>2, <3>1
  <2>3. CASE i # 1
    <3>1. i - 1 \in 1 .. m /\ i - 1 # m
      BY <2>3
    <3>2. h[i - 1] = g[i - 1]
      BY <3>1
    <3>3. h[i] = g[i - 1] \o ss[i]
      <4>1. CASE i = m
        BY <2>3, <4>1
      <4>2. CASE i # m
        <5>1. i \in 1 .. m - 1
          BY <4>2
        <5> QED BY <1>1, <2>3, <4>2, <5>1
      <4> QED BY <4>1, <4>2
    <3> QED BY <2>3, <3>2, <3>3
  <2> QED BY <2>1, <2>2, <2>3
<1>3. h = [i \in 1 .. m |-> h[i]]
  OBVIOUS
<1> HIDE DEF h
<1>4. FlattensTo(ss, h, m)
  BY <1>2, <1>3 DEF FlattensTo
<1> QED BY <1>4

LEMMA FlattenExists ==
  ASSUME NEW ss, NEW n \in Nat
  PROVE  \E g : FlattensTo(ss, g, n)
<1> DEFINE Bad == {m \in 0 .. n : ~\E g : FlattensTo(ss, g, m)}
<1> SUFFICES ASSUME Bad # {} PROVE FALSE
  <2>1. n \in 0 .. n
    OBVIOUS
  <2> QED BY <2>1
<1>1. PICK m \in Bad : \A k \in Bad : m <= k
  <2>1. Bad \in SUBSET Nat
    OBVIOUS
  <2> HIDE DEF Bad
  <2> QED BY <2>1, LeastExists
<1>2. m \in 0 .. n /\ ~\E g : FlattensTo(ss, g, m)
  BY <1>1
<1>3. CASE m = 0
  <2>1. FlattensTo(ss, [i \in 1 .. m |-> 0], m)
    BY <1>3 DEF FlattensTo
  <2> QED BY <1>2, <2>1
<1>4. CASE m # 0
  <2>1. m - 1 \in 0 .. n /\ ~(m <= m - 1) /\ m \in Nat
    BY <1>2, <1>4
  <2>2. \E g : FlattensTo(ss, g, m - 1)
    BY <1>1, <2>1
  <2> QED BY <1>2, <1>4, <2>1, <2>2, FlattenExtends
<1> QED BY <1>3, <1>4

LEMMA FlattenSteps ==
  ASSUME NEW ss, Len(ss) \in Nat \ {0}
  PROVE  \E g : FlattensTo(ss, g, Len(ss)) /\ FlattenSeq(ss) = g[Len(ss)]
<1> DEFINE g == CHOOSE g : FlattensTo(ss, g, Len(ss))
<1>1. \E h : FlattensTo(ss, h, Len(ss))
  BY FlattenExists
<1>2. FlattensTo(ss, g, Len(ss))
  BY <1>1
<1>3. FlattenSeq(ss) = g[Len(ss)]
  BY Zenon DEF FlattenSeq, FlattensTo
<1> QED BY <1>2, <1>3

(* The first m sequences, put together in s, have as many entries as their  *)
(* rows, and an entry of the nth comes after all that the rows before hold. *)
GathersIn(s, S, ss, row, m) ==
  /\ s \in Seq(S)
  /\ Len(s) = Cardinality(Gathered(row, m))
  /\ \A k \in 1 .. Len(s) : \E n \in 1 .. m :
       /\ \E j \in DOMAIN ss[n] : s[k] = ss[n][j]
       /\ Cardinality(Gathered(row, n - 1)) < k

Rows(ss, S, row) ==
  /\ Len(ss) \in Nat \ {0}
  /\ \A n \in 1 .. Len(ss) : /\ ss[n] \in Seq(S)
                             /\ IsFiniteSet(row[n]) /\ Cardinality(row[n]) = Len(ss[n])
  /\ \A n, p \in 1 .. Len(ss) : n # p => row[n] \cap row[p] = {}

LEMMA GatheredNext ==
  ASSUME NEW row, NEW m \in Nat \ {0}
  PROVE  Gathered(row, m) = Gathered(row, m - 1) \cup row[m]
<1>1. \A n : n \in 1 .. m <=> n \in 1 .. m - 1 \/ n = m
  OBVIOUS
<1> QED BY <1>1 DEF Gathered

LEMMA GatheredFinite ==
  ASSUME NEW row, NEW m \in Nat, \A n \in 1 .. m : IsFiniteSet(row[n])
  PROVE  IsFiniteSet(Gathered(row, m)) /\ Cardinality(Gathered(row, m)) \in Nat
<1> DEFINE R == {row[n] : n \in 1 .. m}
           f == [n \in 1 .. m |-> row[n]]
<1>1. f \in Surjection(1 .. m, R)
  BY DEF Surjection
<1>2. IsFiniteSet(1 .. m)
  BY FS_Interval
<1>3. IsFiniteSet(R)
  <2> HIDE DEF f, R
  <2> QED BY <1>1, <1>2, FS_Surjection
<1>4. \A T \in R : IsFiniteSet(T)
  OBVIOUS
<1>5. IsFiniteSet(UNION R)
  <2> HIDE DEF R
  <2> QED BY <1>3, <1>4, FS_UNION
<1> QED BY <1>5, FS_CardinalityType DEF Gathered

LEMMA ConcatParts ==
  ASSUME NEW S, NEW s \in Seq(S), NEW t \in Seq(S)
  PROVE  /\ s \o t \in Seq(S) /\ Len(s \o t) = Len(s) + Len(t)
         /\ Len(s) \in Nat /\ Len(t) \in Nat /\ DOMAIN t = 1 .. Len(t)
         /\ \A k \in 1 .. Len(s) : (s \o t)[k] = s[k]
         /\ \A k \in 1 .. Len(t) : (s \o t)[Len(s) + k] = t[k]
<1>1. s \o t \in Seq(S) /\ Len(s \o t) = Len(s) + Len(t)
  OBVIOUS
<1>2. Len(s) \in Nat /\ Len(t) \in Nat /\ DOMAIN t = 1 .. Len(t)
  OBVIOUS
<1>3. \A k \in 1 .. Len(s) : (s \o t)[k] = s[k]
  OBVIOUS
<1>4. \A k \in 1 .. Len(t) : (s \o t)[Len(s) + k] = t[k]
  OBVIOUS
<1> QED BY <1>1, <1>2, <1>3, <1>4

LEMMA GatherStep ==
  ASSUME NEW S, NEW ss, NEW row, Rows(ss, S, row), NEW m \in 2 .. Len(ss),
         NEW s, GathersIn(s, S, ss, row, m - 1)
  PROVE  GathersIn(s \o ss[m], S, ss, row, m)
<1> DEFINE r == s \o ss[m]
<1>1. /\ m \in Nat \ {0} /\ m - 1 \in Nat /\ m \in 1 .. Len(ss)
      /\ \A n \in 1 .. m - 1 : n \in 1 .. Len(ss) /\ n # m
  BY DEF Rows
<1>2. /\ s \in Seq(S) /\ ss[m] \in Seq(S)
      /\ Len(s) = Cardinality(Gathered(row, m - 1))
      /\ IsFiniteSet(row[m]) /\ Cardinality(row[m]) = Len(ss[m])
  BY <1>1 DEF Rows, GathersIn
<1>3. /\ r \in Seq(S) /\ Len(r) = Len(s) + Len(ss[m])
      /\ Len(s) \in Nat /\ Len(ss[m]) \in Nat /\ DOMAIN ss[m] = 1 .. Len(ss[m])
      /\ \A k \in 1 .. Len(s) : r[k] = s[k]
      /\ \A k \in 1 .. Len(ss[m]) : r[Len(s) + k] = ss[m][k]
  <2>1. s \in Seq(S) /\ ss[m] \in Seq(S)
    BY <1>2
  <2> QED BY <2>1, ConcatParts
<1> HIDE DEF r
<1>4. Cardinality(Gathered(row, m)) = Len(r)
  <2>1. IsFiniteSet(Gathered(row, m - 1))
    BY <1>1, GatheredFinite DEF Rows
  <2>2. Gathered(row, m - 1) \cap row[m] = {}
    BY <1>1 DEF Gathered, Rows
  <2>3. Cardinality(Gathered(row, m - 1) \cup row[m]) = Len(s) + Len(ss[m]) - 0
    <3>1. Cardinality(Gathered(row, m - 1) \cup row[m])
            = Cardinality(Gathered(row, m - 1)) + Cardinality(row[m]) - Cardinality({})
      BY <1>2, <2>1, <2>2, FS_Union
    <3> QED BY <1>2, <3>1, FS_EmptySet
  <2>4. Gathered(row, m) = Gathered(row, m - 1) \cup row[m]
    BY <1>1, GatheredNext
  <2> QED BY <1>3, <2>3, <2>4
<1>5. ASSUME NEW k \in 1 .. Len(r)
      PROVE  \E n \in 1 .. m : /\ \E j \in DOMAIN ss[n] : r[k] = ss[n][j]
                               /\ Cardinality(Gathered(row, n - 1)) < k
  <2>1. CASE k <= Len(s)
    <3>1. k \in 1 .. Len(s) /\ r[k] = s[k]
      BY <1>3, <2>1
    <3>2. PICK n \in 1 .. m - 1 : /\ \E j \in DOMAIN ss[n] : s[k] = ss[n][j]
                                  /\ Cardinality(Gathered(row, n - 1)) < k
      BY <3>1 DEF GathersIn
    <3>3. n \in 1 .. m
      BY <1>1
    <3> QED BY <3>1, <3>2, <3>3
  <2>2. CASE ~(k <= Len(s))
    <3>1. k - Len(s) \in 1 .. Len(ss[m]) /\ Len(s) + (k - Len(s)) = k /\ Len(s) < k
      BY SMTT(30), <1>3, <2>2
    <3>2. r[k] = ss[m][k - Len(s)]
      BY <1>3, <3>1
    <3> QED BY <1>1, <1>2, <1>3, <3>1, <3>2
  <2> QED BY <2>1, <2>2
<1> QED BY <1>3, <1>4, <1>5 DEF GathersIn, r

LEMMA FlattenGathers ==
  ASSUME NEW S, NEW ss, NEW row, Rows(ss, S, row)
  PROVE  GathersIn(FlattenSeq(ss), S, ss, row, Len(ss))
<1> DEFINE N == Len(ss)
<1>1. N \in Nat \ {0}
  BY DEF Rows
<1>2. PICK g : FlattensTo(ss, g, N) /\ FlattenSeq(ss) = g[N]
  BY <1>1, FlattenSteps
<1>3. \A i \in 1 .. N : g[i] = IF i = 1 THEN ss[i] ELSE g[i - 1] \o ss[i]
  BY <1>2 DEF FlattensTo
<1> HIDE DEF N
<1>4. GathersIn(g[1], S, ss, row, 1)
  <2>1. 1 \in 1 .. N /\ g[1] = ss[1]
    BY <1>1, <1>3
  <2>2. /\ ss[1] \in Seq(S) /\ Cardinality(row[1]) = Len(ss[1])
        /\ Len(ss[1]) \in Nat /\ DOMAIN ss[1] = 1 .. Len(ss[1])
    BY <2>1 DEF Rows, N
  <2>3. Gathered(row, 1) = row[1] /\ Gathered(row, 1 - 1) = {}
    <3>1. 1 .. 1 = {1} /\ 1 .. 1 - 1 = {}
      OBVIOUS
    <3> QED BY <3>1 DEF Gathered
  <2>4. Cardinality(Gathered(row, 1 - 1)) = 0
    BY <2>3, FS_EmptySet
  <2>5. ASSUME NEW k \in 1 .. Len(ss[1])
        PROVE  \E n \in 1 .. 1 : /\ \E j \in DOMAIN ss[n] : ss[1][k] = ss[n][j]
                                 /\ Cardinality(Gathered(row, n - 1)) < k
    BY <2>2, <2>4
  <2> QED BY <2>1, <2>2, <2>3, <2>5 DEF GathersIn
<1> DEFINE Bad == {m \in 1 .. N : ~GathersIn(g[m], S, ss, row, m)}
<1>5. Bad = {}
  <2> SUFFICES ASSUME Bad # {} PROVE FALSE
    OBVIOUS
  <2>1. PICK m \in Bad : \A k \in Bad : m <= k
    <3>1. Bad \in SUBSET Nat
      OBVIOUS
    <3> HIDE DEF Bad
    <3> QED BY <3>1, LeastExists
  <2>2. m \in 1 .. N /\ ~GathersIn(g[m], S, ss, row, m)
    BY <2>1
  <2>3. m # 1
    BY <1>4, <2>2
  <2>4. m \in 2 .. N /\ m - 1 \in 1 .. N /\ ~(m <= m - 1)
    BY <1>1, <2>2, <2>3
  <2>5. GathersIn(g[m - 1], S, ss, row, m - 1)
    BY <2>1, <2>4
  <2>6. GathersIn(g[m - 1] \o ss[m], S, ss, row, m)
    BY <2>4, <2>5, GatherStep DEF N
  <2>7. g[m] = g[m - 1] \o ss[m]
    BY <1>3, <2>2, <2>3
  <2> QED BY <2>2, <2>6, <2>7
<1>6. GathersIn(g[N], S, ss, row, N)
  <2>1. N \in 1 .. N
    BY <1>1
  <2> QED BY <1>5, <2>1
<1> QED BY <1>2, <1>6 DEF N

-----------------------------------------------------------------------------
(* The order of the search takes every bucket in use once, and never one    *)
(* that is nearer to the target than one before it.                         *)
LEMMA MinOfTwo ==
  ASSUME NEW a \in Nat, NEW b \in Nat
  PROVE  Min({a, b}) = IF a <= b THEN a ELSE b
<1>1. {a, b} \in SUBSET Nat /\ {a, b} # {}
  OBVIOUS
<1>2. Min({a, b}) \in {a, b} /\ Min({a, b}) <= a /\ Min({a, b}) <= b
  BY <1>1, MinProperties
<1> QED BY <1>2

LEMMA MaxWithZero ==
  ASSUME NEW a \in Int
  PROVE  Max({a, 0}) = IF a <= 0 THEN 0 ELSE a
<1>1. \E x \in {a, 0} : \A y \in {a, 0} : x >= y
  OBVIOUS
<1>2. Max({a, 0}) \in {a, 0} /\ \A y \in {a, 0} : Max({a, 0}) >= y
  BY <1>1 DEF Max
<1> QED BY <1>2

Farthest(offset) == IF offset <= nbucket1 THEN nbucket1 - offset ELSE 0
Nearest(offset) == IF offset <= nbucket1 THEN offset ELSE nbucket1

LEMMA OrderIs ==
  ASSUME nbucket1 \in Nat, NEW offset \in Nat
  PROVE  SearchOrder(offset) =
           [n \in 1 .. nbucket1 |-> IF n <= Farthest(offset) THEN offset + n - 1
                                    ELSE Nearest(offset) - (n - Farthest(offset))]
<1> DEFINE far == Farthest(offset)
           near == Nearest(offset)
           s == [n \in 1 .. far |-> offset + n - 1]
           t == [n \in 1 .. near |-> near - n]
<1>1. Max({nbucket1 - offset, 0}) = far
  <2>1. nbucket1 - offset \in Int
    OBVIOUS
  <2> QED BY <2>1, MaxWithZero DEF Farthest
<1>2. Min({offset, nbucket1}) = near
  BY MinOfTwo DEF Nearest
<1>3. far \in Nat /\ near \in Nat /\ far + near = nbucket1
  BY DEF Farthest, Nearest
<1>4. SearchOrder(offset) = s \o t
  BY <1>1, <1>2 DEF SearchOrder
<1> HIDE DEF far, near
<1>5. s \in Seq(Int) /\ t \in Seq(Int) /\ Len(s) = far /\ Len(t) = near
  BY <1>3
<1>6. s \o t = [n \in 1 .. far + near |-> IF n <= far THEN s[n] ELSE t[n - far]]
  BY <1>3, <1>5
<1>7. \A n \in 1 .. far + near :
        (IF n <= far THEN s[n] ELSE t[n - far])
          = (IF n <= far THEN offset + n - 1 ELSE near - (n - far))
  BY <1>3
<1> QED BY <1>3, <1>4, <1>6, <1>7 DEF far, near

LEMMA OrderProperties ==
  ASSUME nbucket1 \in Nat \ {0}, NEW offset \in Nat, NEW order, order = SearchOrder(offset)
  PROVE  /\ Len(order) = nbucket1 /\ DOMAIN order = 1 .. nbucket1
         /\ \A n \in 1 .. nbucket1 : order[n] \in 0 .. nbucket1 - 1
         /\ \A n, p \in 1 .. nbucket1 : n # p => order[n] # order[p]
         /\ \A n, p \in 1 .. nbucket1 :
              Rank(order[p], offset) < Rank(order[n], offset) => p < n
         /\ \A i \in 0 .. nbucket1 - 1 : \E n \in 1 .. nbucket1 : order[n] = i
<1> DEFINE far == Farthest(offset)
           near == Nearest(offset)
<1>1. order = [n \in 1 .. nbucket1 |-> IF n <= far THEN offset + n - 1 ELSE near - (n - far)]
  BY OrderIs
<1>2. /\ far \in Nat /\ near \in Nat /\ far + near = nbucket1
      /\ far # 0 => near = offset
      /\ far = 0 => nbucket1 <= offset
      /\ near <= offset
  BY DEF Farthest, Nearest
<1> HIDE DEF far, near
<1>3. Len(order) = nbucket1 /\ DOMAIN order = 1 .. nbucket1
  BY <1>1
<1>4. \A n \in 1 .. nbucket1 :
        /\ n <= far => order[n] = offset + n - 1
        /\ ~(n <= far) => order[n] = near - (n - far)
  BY <1>1
<1>5. \A n \in 1 .. nbucket1 : order[n] \in 0 .. nbucket1 - 1
  BY <1>2, <1>4
<1>6. \A n, p \in 1 .. nbucket1 : n # p => order[n] # order[p]
  BY <1>2, <1>4
<1>7. ASSUME NEW n \in 1 .. nbucket1
      PROVE  Rank(order[n], offset) = IF n = 1 /\ far # 0 THEN 0
                                      ELSE IF n <= far THEN 1
                                      ELSE 1 + offset - (near - (n - far))
  BY <1>2, <1>4 DEF Rank
<1>8. ASSUME NEW n \in 1 .. nbucket1, NEW p \in 1 .. nbucket1,
             Rank(order[p], offset) < Rank(order[n], offset)
      PROVE  p < n
  BY <1>2, <1>7, <1>8
<1>9. ASSUME NEW i \in 0 .. nbucket1 - 1
      PROVE  \E n \in 1 .. nbucket1 : order[n] = i
  <2>1. CASE i >= near
    <3>1. far # 0 /\ i - offset + 1 \in 1 .. nbucket1 /\ i - offset + 1 <= far
      BY <1>2, <2>1
    <3>2. order[i - offset + 1] = i
      BY <1>4, <3>1
    <3> QED BY <3>1, <3>2
  <2>2. CASE i < near
    <3>1. far + near - i \in 1 .. nbucket1 /\ ~(far + near - i <= far)
      BY <1>2, <2>2
    <3>2. order[far + near - i] = near - ((far + near - i) - far)
      BY <1>4, <3>1
    <3>3. order[far + near - i] = i
      BY <1>2, <3>2
    <3> QED BY <3>1, <3>3
  <2> QED BY <1>2, <2>1, <2>2
<1> QED BY <1>3, <1>5, <1>6, <1>8, <1>9

-----------------------------------------------------------------------------
(* What a search may return from one bucket, and from the table. *)
Eligible(i, validate) ==
  {t \in DOMAIN buckets[i].nodes : validate => IsGood(buckets[i].nodes[t], clock)}

RowOf(i, validate) == {[bucket |-> i, slot |-> s] : s \in Eligible(i, validate)}

AllEligible(validate) == UNION {RowOf(i, validate) : i \in Slots}

LEMMA RowCounts ==
  ASSUME SoundBuckets(buckets), NEW i \in Slots, NEW validate
  PROVE  /\ FindNodes(buckets[i], validate, clock) \in Seq(Nodes(IdsOf(i), Hosts))
         /\ \A j \in DOMAIN FindNodes(buckets[i], validate, clock) :
              FindNodes(buckets[i], validate, clock)[j].id \in IdsOf(i)
         /\ IsFiniteSet(RowOf(i, validate))
         /\ Cardinality(RowOf(i, validate)) = Len(FindNodes(buckets[i], validate, clock))
<1> DEFINE nodes == buckets[i].nodes
           I == Eligible(i, validate)
           found == FindNodes(buckets[i], validate, clock)
<1>1. /\ nodes \in Seq(Nodes(IdsOf(i), Hosts)) /\ WithoutId(nodes, NullId)
      /\ Len(nodes) \in Nat /\ DOMAIN nodes = 1 .. Len(nodes)
  BY SeqProperties DEF SoundBuckets, SoundBucket
<1>2. found = Entries(nodes, I) /\ I \in SUBSET (DOMAIN nodes)
  BY DEF FindNodes, Eligible
<1>3. IsFiniteSet(I) /\ Cardinality(I) \in Nat
  BY <1>1, <1>2, PositionsFinite
<1> HIDE DEF found, I, nodes
<1>4. /\ found \in Seq(Nodes(IdsOf(i), Hosts)) /\ Len(found) = Cardinality(I)
      /\ \E f : Ordered(f, I) /\ \A j \in 1 .. Cardinality(I) : found[j] = nodes[f[j]]
  BY <1>1, <1>2, EntriesProperties
<1>5. ASSUME NEW j \in DOMAIN found PROVE found[j].id \in IdsOf(i)
  <2>1. PICK f : Ordered(f, I) /\ \A k \in 1 .. Cardinality(I) : found[k] = nodes[f[k]]
    BY <1>4
  <2>2. j \in 1 .. Cardinality(I)
    BY <1>4
  <2>3. f[j] \in DOMAIN nodes /\ found[j] = nodes[f[j]]
    BY <1>2, <2>1, <2>2 DEF Ordered
  <2>4. nodes[f[j]] \in Nodes(IdsOf(i), Hosts) /\ nodes[f[j]].id # NullId
    BY <1>1, <2>3 DEF WithoutId
  <2> QED BY <2>3, <2>4 DEF Nodes
<1>6. IsFiniteSet(RowOf(i, validate)) /\ Cardinality(RowOf(i, validate)) = Cardinality(I)
  <2> DEFINE g == [s \in I |-> [bucket |-> i, slot |-> s]]
  <2>1. \A s, t \in I : g[s] = g[t] => s = t
    <3> SUFFICES ASSUME NEW s \in I, NEW t \in I, g[s] = g[t] PROVE s = t
      OBVIOUS
    <3>1. g[s].slot = s /\ g[t].slot = t
      OBVIOUS
    <3> QED BY <3>1
  <2>2. \A r \in RowOf(i, validate) : \E s \in I : g[s] = r
    BY DEF RowOf, I
  <2>3. g \in [I -> RowOf(i, validate)]
    BY DEF RowOf, I
  <2> HIDE DEF g
  <2>4. g \in Bijection(I, RowOf(i, validate))
    BY <2>1, <2>2, <2>3 DEF Bijection, Injection, Surjection, IsInjective
  <2>5. ExistsBijection(I, RowOf(i, validate))
    BY <2>4 DEF ExistsBijection
  <2> QED BY <1>3, <2>5, FS_Bijection
<1> QED BY <1>4, <1>5, <1>6 DEF found

LEMMA SearchGathers ==
  ASSUME TableInv, NEW offset \in 0 .. NBuckets, NEW validate \in BOOLEAN,
         NEW order, order = SearchOrder(offset),
         NEW ss, ss = [n \in DOMAIN order |-> FindNodes(buckets[order[n]], validate, clock)],
         NEW row, row = [n \in DOMAIN order |-> RowOf(order[n], validate)]
  PROVE  /\ Len(ss) = nbucket1
         /\ Rows(ss, Nodes(Ids, Hosts), row)
         /\ Gathered(row, nbucket1) = AllEligible(validate)
<1>1. /\ nbucket1 \in Nat \ {0} /\ nbucket1 <= NBuckets /\ NBuckets \in Nat /\ offset \in Nat
      /\ SoundBuckets(buckets) /\ Unused
  BY Sizes DEF TableInv, Ranges
<1>2. /\ Len(order) = nbucket1 /\ DOMAIN order = 1 .. nbucket1
      /\ \A n \in 1 .. nbucket1 : order[n] \in 0 .. nbucket1 - 1
      /\ \A n, p \in 1 .. nbucket1 : n # p => order[n] # order[p]
      /\ \A i \in 0 .. nbucket1 - 1 : \E n \in 1 .. nbucket1 : order[n] = i
  <2>1. nbucket1 \in Nat \ {0} /\ offset \in Nat /\ order = SearchOrder(offset)
    BY <1>1
  <2> QED BY <2>1, OrderProperties
<1>3. /\ Len(ss) = nbucket1
      /\ \A n \in 1 .. nbucket1 :
           /\ order[n] \in Slots
           /\ ss[n] = FindNodes(buckets[order[n]], validate, clock)
           /\ row[n] = RowOf(order[n], validate)
  BY <1>1, <1>2 DEF Slots
<1>4. ASSUME NEW n \in 1 .. nbucket1
      PROVE  /\ ss[n] \in Seq(Nodes(Ids, Hosts))
             /\ IsFiniteSet(row[n]) /\ Cardinality(row[n]) = Len(ss[n])
  <2>1. /\ ss[n] \in Seq(Nodes(IdsOf(order[n]), Hosts))
        /\ IsFiniteSet(row[n]) /\ Cardinality(row[n]) = Len(ss[n])
    BY <1>1, <1>3, RowCounts
  <2>2. Nodes(IdsOf(order[n]), Hosts) \subseteq Nodes(Ids, Hosts)
    BY DEF Nodes, IdsOf
  <2> QED BY <2>1, <2>2, SeqGrows
<1>5. ASSUME NEW n \in 1 .. nbucket1, NEW p \in 1 .. nbucket1, n # p
      PROVE  row[n] \cap row[p] = {}
  <2>1. order[n] # order[p]
    BY <1>2, <1>5
  <2>2. \A r \in row[n] : r.bucket = order[n]
    BY <1>3 DEF RowOf
  <2>3. \A r \in row[p] : r.bucket = order[p]
    BY <1>3 DEF RowOf
  <2> QED BY <2>1, <2>2, <2>3
<1>6. Rows(ss, Nodes(Ids, Hosts), row)
  BY <1>1, <1>3, <1>4, <1>5 DEF Rows
<1>7. ASSUME NEW i \in Slots, NEW r \in RowOf(i, validate) PROVE i \in 0 .. nbucket1 - 1
  <2>1. PICK s \in Eligible(i, validate) : TRUE
    BY DEF RowOf
  <2>2. s \in DOMAIN buckets[i].nodes
    BY DEF Eligible
  <2>3. ASSUME i >= nbucket1 PROVE FALSE
    <3>1. buckets[i].nodes = <<>>
      BY <1>1, <2>3 DEF Unused, EmptyBucket
    <3> QED BY <2>2, <3>1
  <2> QED BY <1>1, <2>3 DEF Slots
<1>8. Gathered(row, nbucket1) \subseteq AllEligible(validate)
  BY <1>3 DEF Gathered, AllEligible
<1>9. AllEligible(validate) \subseteq Gathered(row, nbucket1)
  <2> SUFFICES ASSUME NEW i \in Slots, NEW r \in RowOf(i, validate)
               PROVE  r \in Gathered(row, nbucket1)
    BY DEF AllEligible
  <2>1. PICK n \in 1 .. nbucket1 : order[n] = i
    BY <1>2, <1>7
  <2>2. row[n] = RowOf(i, validate)
    BY <1>3, <2>1
  <2> QED BY <2>2 DEF Gathered
<1> QED BY <1>3, <1>6, <1>8, <1>9

LEMMA SearchSound ==
  ASSUME TableInv, NEW offset \in 0 .. NBuckets, NEW validate \in BOOLEAN,
         NEW found, found = FindClosest(offset, validate)
  PROVE  /\ Len(found) = Min({K, Cardinality(AllEligible(validate))})
         /\ \A k \in DOMAIN found :
              Cardinality({e \in AllEligible(validate) :
                             Rank(e.bucket, offset) < Rank(Index[found[k].id], offset)}) < k
<1> DEFINE order == SearchOrder(offset)
           ss == [n \in DOMAIN order |-> FindNodes(buckets[order[n]], validate, clock)]
           row == [n \in DOMAIN order |-> RowOf(order[n], validate)]
           flat == FlattenSeq(ss)
           all == AllEligible(validate)
           S == Nodes(Ids, Hosts)
<1>1. /\ nbucket1 \in Nat \ {0} /\ nbucket1 <= NBuckets /\ NBuckets \in Nat /\ offset \in Nat
      /\ SoundBuckets(buckets) /\ K \in Nat
  BY Sizes DEF TableInv, Ranges
<1>2. /\ DOMAIN order = 1 .. nbucket1
      /\ \A n \in 1 .. nbucket1 : order[n] \in 0 .. nbucket1 - 1
      /\ \A n, p \in 1 .. nbucket1 : Rank(order[p], offset) < Rank(order[n], offset) => p < n
  BY <1>1, OrderProperties
<1>3. Len(ss) = nbucket1 /\ Rows(ss, S, row) /\ Gathered(row, nbucket1) = all
  <2> HIDE DEF order
  <2> QED BY SearchGathers DEF order
<1>4. \A n \in 1 .. nbucket1 :
        /\ order[n] \in Slots
        /\ ss[n] = FindNodes(buckets[order[n]], validate, clock)
        /\ row[n] = RowOf(order[n], validate)
  BY <1>1, <1>2 DEF Slots
<1>5. found = SubSeq(flat, 1, Min({K, Len(flat)}))
  BY DEF FindClosest
<1> HIDE DEF order, ss, row, flat, all, S
<1>6. GathersIn(flat, S, ss, row, nbucket1)
  BY <1>3, FlattenGathers DEF flat
<1>7. flat \in Seq(S) /\ Len(flat) = Cardinality(all) /\ Len(flat) \in Nat
  BY <1>3, <1>6 DEF GathersIn
<1> DEFINE m == Min({K, Len(flat)})
<1>8. m \in Nat /\ m <= Len(flat)
  BY <1>1, <1>7, MinOfTwo
<1> HIDE DEF m
<1>9. Len(found) = m /\ DOMAIN found = 1 .. m /\ \A k \in 1 .. m : found[k] = flat[k]
  <2>1. found = SubSeq(flat, 1, m)
    BY <1>5 DEF m
  <2> QED BY <1>7, <1>8, <2>1
<1>10. ASSUME NEW k \in DOMAIN found
       PROVE  Cardinality({e \in all : Rank(e.bucket, offset) < Rank(Index[found[k].id], offset)}) < k
  <2>1. k \in 1 .. Len(flat) /\ found[k] = flat[k]
    BY <1>7, <1>8, <1>9
  <2>2. PICK n \in 1 .. nbucket1 : /\ \E j \in DOMAIN ss[n] : flat[k] = ss[n][j]
                                   /\ Cardinality(Gathered(row, n - 1)) < k
    BY <1>6, <2>1 DEF GathersIn
  <2>3. Index[found[k].id] = order[n]
    <3>1. found[k].id \in IdsOf(order[n])
      BY <1>1, <1>4, <2>1, <2>2, RowCounts
    <3> QED BY <3>1 DEF IdsOf
  <2> DEFINE nearer == {e \in all : Rank(e.bucket, offset) < Rank(order[n], offset)}
  <2>4. nearer \subseteq Gathered(row, n - 1)
    <3> SUFFICES ASSUME NEW e \in nearer PROVE e \in Gathered(row, n - 1)
      OBVIOUS
    <3>1. e \in Gathered(row, nbucket1) /\ Rank(e.bucket, offset) < Rank(order[n], offset)
      BY <1>3
    <3>2. PICK p \in 1 .. nbucket1 : e \in row[p]
      BY <3>1 DEF Gathered
    <3>3. e.bucket = order[p]
      BY <1>4, <3>2 DEF RowOf
    <3>4. p < n
      BY <1>2, <3>1, <3>3
    <3>5. p \in 1 .. n - 1
      BY <3>4
    <3> QED BY <3>2, <3>5 DEF Gathered
  <2>5. IsFiniteSet(Gathered(row, n - 1)) /\ Cardinality(Gathered(row, n - 1)) \in Nat
    <3>1. \A p \in 1 .. n - 1 : p \in 1 .. nbucket1
      BY <1>1
    <3>2. \A p \in 1 .. n - 1 : IsFiniteSet(row[p])
      BY <1>3, <3>1 DEF Rows
    <3>3. n - 1 \in Nat
      OBVIOUS
    <3> QED BY <3>2, <3>3, GatheredFinite
  <2> HIDE DEF nearer
  <2>6. IsFiniteSet(nearer) /\ Cardinality(nearer) <= Cardinality(Gathered(row, n - 1))
    BY <2>4, <2>5, FS_Subset
  <2>7. Cardinality(nearer) \in Nat
    BY <2>6, FS_CardinalityType
  <2>8. Cardinality(nearer) < k
    <3>1. k \in Nat
      BY <1>7, <2>1
    <3> QED BY <2>2, <2>5, <2>6, <2>7, <3>1
  <2> QED BY <2>3, <2>8 DEF nearer
<1> QED BY <1>7, <1>9, <1>10 DEF m, all

(* A search returns as many usable contacts as the table has, up to K, and  *)
(* none while it leaves out a usable one that shares more leading bits with *)
(* the target, the bucket of the target being one rank and the buckets      *)
(* beyond it another; nothing is said of the distances within a rank.       *)
(* Also, the window holds as much as b_nbucket0 says (ktable.cc,            *)
(* find_nodes, insert_node).                                                *)
THEOREM ClosestKnownHolds == Spec => []ClosestKnown
<1>1. TableInv => FindsClosest
  <2> SUFFICES ASSUME TableInv, NEW offset \in 0 .. NBuckets, NEW validate \in BOOLEAN
               PROVE  LET found    == FindClosest(offset, validate)
                          eligible == AllEligible(validate)
                      IN  /\ Len(found) = Min({K, Cardinality(eligible)})
                          /\ \A k \in DOMAIN found :
                               Cardinality({e \in eligible : Rank(e.bucket, offset)
                                               < Rank(Index[found[k].id], offset)}) < k
    BY Zenon DEF FindsClosest, AllEligible, RowOf, Eligible
  <2> QED BY SearchSound
<1>2. TableInv => WindowIsClosest
  BY DEF TableInv
<1>3. TableInv => ClosestKnown
  BY <1>1, <1>2 DEF ClosestKnown
<1> QED BY <1>3, TableInvHolds, PTL
=============================================================================
