---------------------------- MODULE KbucketProofs ----------------------------
(***************************************************************************)
(* Proofs about the operations of a bucket, for any ids, any K and any     *)
(* times: what UpdateContact, FailedContact and GetPing keep and return.   *)
(***************************************************************************)
EXTENDS Kbucket, FiniteSetTheorems, WellFoundedInduction, TLAPS

USE KnodeAssumption

-----------------------------------------------------------------------------
(* Numbers and sequences. *)

LEMMA LeastExists ==
  ASSUME NEW S \in SUBSET Nat, S # {}
  PROVE  \E x \in S : \A y \in S : x <= y
<1>1. PICK x \in S : \A y \in S : <<y, x>> \notin OpToRel(<, Nat)
  BY NatLessThanWellFounded, WFMin
<1>2. \A y \in S : ~(y < x)
  BY <1>1 DEF OpToRel
<1> QED BY <1>2

LEMMA MinProperties ==
  ASSUME NEW S \in SUBSET Nat, S # {}
  PROVE  Min(S) \in S /\ \A y \in S : Min(S) <= y
<1>1. Min(S) \in S /\ \A y \in S : Min(S) =< y
  BY LeastExists DEF Min
<1> QED BY <1>1

LEMMA SeqProperties ==
  ASSUME NEW S, NEW s \in Seq(S)
  PROVE  /\ Len(s) \in Nat /\ DOMAIN s = 1 .. Len(s)
         /\ \A i \in DOMAIN s : s[i] \in S
  OBVIOUS

LEMMA AppendProperties ==
  ASSUME NEW S, NEW s \in Seq(S), NEW x \in S
  PROVE  /\ Append(s, x) \in Seq(S)
         /\ Len(Append(s, x)) = Len(s) + 1
         /\ DOMAIN Append(s, x) = 1 .. Len(s) + 1
         /\ \A i \in 1 .. Len(s) : Append(s, x)[i] = s[i]
         /\ Append(s, x)[Len(s) + 1] = x
  OBVIOUS

LEMMA ExceptProperties ==
  ASSUME NEW S, NEW s \in Seq(S), NEW k \in DOMAIN s, NEW x \in S
  PROVE  /\ [s EXCEPT ![k] = x] \in Seq(S)
         /\ Len([s EXCEPT ![k] = x]) = Len(s)
         /\ DOMAIN [s EXCEPT ![k] = x] = DOMAIN s
         /\ [s EXCEPT ![k] = x][k] = x
         /\ \A i \in DOMAIN s : i # k => [s EXCEPT ![k] = x][i] = s[i]
  OBVIOUS

(* Some entry of a sequence that is not empty was seen last: a shortest     *)
(* prefix without one would have one after all.                             *)
LEMMA GreatestExists ==
  ASSUME NEW n \in Nat, n # 0, NEW v \in [1 .. n -> Nat]
  PROVE  \E i \in 1 .. n : \A j \in 1 .. n : v[j] <= v[i]
<1> DEFINE Has(m) == \E i \in 1 .. m : \A j \in 1 .. m : v[j] <= v[i]
<1> DEFINE Bad == {m \in 1 .. n : ~Has(m)}
<1> SUFFICES ASSUME Bad # {} PROVE FALSE
  <2>1. n \in 1 .. n
    OBVIOUS
  <2> QED BY <2>1
<1>1. PICK m \in Bad : \A k \in Bad : m <= k
  <2>1. Bad \in SUBSET Nat
    OBVIOUS
  <2> HIDE DEF Bad
  <2> QED BY <2>1, LeastExists
<1>2. m \in 1 .. n /\ ~Has(m) /\ \A i \in 1 .. m : v[i] \in Nat
  BY <1>1
<1>3. CASE m = 1
  BY <1>2, <1>3
<1>4. CASE m # 1
  <2>1. m - 1 \in 1 .. n /\ ~(m <= m - 1)
    BY <1>2, <1>4
  <2>2. Has(m - 1)
    BY <1>1, <2>1
  <2>3. PICK i \in 1 .. m - 1 : \A j \in 1 .. m - 1 : v[j] <= v[i]
    BY <2>2
  <2>4. i \in 1 .. m /\ m \in 1 .. m /\ v[i] \in Nat /\ v[m] \in Nat
    BY <1>2, <2>3
  <2>5. \A j \in 1 .. m : j \in 1 .. m - 1 \/ j = m
    BY <1>2
  <2>6. CASE v[m] <= v[i]
    <3>1. \A j \in 1 .. m : v[j] <= v[i]
      BY <2>3, <2>5, <2>6
    <3> QED BY <1>2, <2>4, <3>1
  <2>7. CASE v[i] < v[m]
    <3>1. ASSUME NEW j \in 1 .. m - 1 PROVE v[j] <= v[m]
      <4>1. v[j] <= v[i] /\ v[j] \in Nat
        BY <1>2, <2>3
      <4> QED BY SMTT(30), <2>4, <2>7, <4>1
    <3>2. \A j \in 1 .. m : v[j] <= v[m]
      BY SMTT(30), <2>4, <2>5, <3>1
    <3> QED BY <1>2, <2>4, <3>2
  <2> QED BY <2>4, <2>6, <2>7
<1> QED BY <1>3, <1>4

-----------------------------------------------------------------------------
(* The entries at some positions of a sequence.  A set of positions has one *)
(* enumeration in their order, again by the shortest sequence for which it  *)
(* would not.                                                               *)
Ordered(f, I) ==
  /\ f \in [1 .. Cardinality(I) -> I]
  /\ \A i, j \in 1 .. Cardinality(I) : i < j => f[i] < f[j]

LEMMA PositionsFinite ==
  ASSUME NEW n \in Nat, NEW I \in SUBSET (1 .. n)
  PROVE  IsFiniteSet(I) /\ Cardinality(I) \in Nat /\ Cardinality(I) <= n
<1>1. IsFiniteSet(1 .. n) /\ Cardinality(1 .. n) = n
  BY FS_Interval
<1> QED BY <1>1, FS_Subset, FS_CardinalityType

LEMMA OrderedExtends ==
  ASSUME NEW m \in Nat, m # 0, NEW J \in SUBSET (1 .. m - 1), NEW f, Ordered(f, J)
  PROVE  \E g : Ordered(g, J \cup {m})
<1> DEFINE c == Cardinality(J)
           I == J \cup {m}
           g == [i \in 1 .. c + 1 |-> IF i = c + 1 THEN m ELSE f[i]]
<1>1. c \in Nat /\ IsFiniteSet(J) /\ m \notin J
  BY PositionsFinite
<1>2. Cardinality(I) = c + 1
  BY <1>1, FS_AddElement
<1>3. /\ \A i \in 1 .. c : f[i] \in J
      /\ \A i, j \in 1 .. c : i < j => f[i] < f[j]
  BY DEF Ordered
<1> HIDE DEF c
<1>4. g \in [1 .. c + 1 -> I]
  BY <1>1, <1>3
<1>5. ASSUME NEW i \in 1 .. c + 1, NEW j \in 1 .. c + 1, i < j PROVE g[i] < g[j]
  <2>1. i \in 1 .. c /\ g[i] = f[i] /\ f[i] \in J
    BY <1>1, <1>3, <1>5
  <2>2. CASE j = c + 1
    <3>1. g[j] = m /\ f[i] \in 1 .. m - 1
      BY <2>1, <2>2
    <3> QED BY <2>1, <3>1
  <2>3. CASE j # c + 1
    <3>1. j \in 1 .. c /\ g[j] = f[j]
      BY <1>1, <2>3
    <3> QED BY <1>3, <1>5, <2>1, <3>1
  <2> QED BY <2>2, <2>3
<1> HIDE DEF g, I
<1>6. Ordered(g, I)
  BY <1>2, <1>4, <1>5 DEF Ordered
<1> QED BY <1>6 DEF I

LEMMA OrderedExists ==
  ASSUME NEW n \in Nat, NEW I \in SUBSET (1 .. n)
  PROVE  \E f : Ordered(f, I)
<1> DEFINE All(m) == \A J \in SUBSET (1 .. m) : \E f : Ordered(f, J)
           Bad == {m \in 0 .. n : ~All(m)}
<1> SUFFICES ASSUME Bad # {} PROVE FALSE
  <2>1. n \in 0 .. n
    OBVIOUS
  <2> QED BY <2>1
<1>1. PICK m \in Bad : \A k \in Bad : m <= k
  <2>1. Bad \in SUBSET Nat
    OBVIOUS
  <2> HIDE DEF Bad
  <2> QED BY <2>1, LeastExists
<1>2. m \in 0 .. n /\ ~All(m)
  BY <1>1
<1>3. PICK J \in SUBSET (1 .. m) : ~\E f : Ordered(f, J)
  BY <1>2
<1>4. CASE m = 0
  <2>1. J = {} /\ Cardinality(J) = 0
    <3>1. 1 .. m = {}
      BY <1>4
    <3> QED BY <1>3, <3>1, FS_EmptySet
  <2>2. Ordered(<<>>, J)
    BY <2>1 DEF Ordered
  <2> QED BY <1>3, <2>2
<1>5. CASE m # 0
  <2>1. m - 1 \in 0 .. n /\ ~(m <= m - 1)
    BY <1>2, <1>5
  <2>2. All(m - 1)
    BY <1>1, <2>1
  <2>3. J \ {m} \in SUBSET (1 .. m - 1)
    BY <1>2, <1>5
  <2>4. PICK f : Ordered(f, J \ {m})
    BY <2>2, <2>3
  <2>5. m \in Nat
    BY <1>2
  <2>6. CASE m \in J
    <3>1. J = (J \ {m}) \cup {m}
      BY <2>6
    <3> QED BY <1>3, <1>5, <2>3, <2>4, <2>5, <3>1, OrderedExtends
  <2>7. CASE m \notin J
    <3>1. J = J \ {m}
      BY <2>7
    <3> QED BY <1>3, <2>4, <3>1
  <2> QED BY <2>6, <2>7
<1> QED BY <1>4, <1>5

(* What Entries returns is a sequence no longer than s, whose entries are   *)
(* entries of s at positions in I, in the order and the number of these.    *)
LEMMA EntriesProperties ==
  ASSUME NEW S, NEW s \in Seq(S), NEW I \in SUBSET (DOMAIN s)
  PROVE  /\ Entries(s, I) \in Seq(S)
         /\ Len(Entries(s, I)) = Cardinality(I)
         /\ Cardinality(I) <= Len(s)
         /\ \E f : Ordered(f, I) /\ \A i \in 1 .. Cardinality(I) : Entries(s, I)[i] = s[f[i]]
<1> DEFINE c == Cardinality(I)
           at == CHOOSE f \in [1 .. c -> I] : \A i, j \in 1 .. c : i < j => f[i] < f[j]
<1>1. Len(s) \in Nat /\ DOMAIN s = 1 .. Len(s) /\ \A i \in DOMAIN s : s[i] \in S
  BY SeqProperties
<1>2. c \in Nat /\ c <= Len(s)
  BY <1>1, PositionsFinite
<1>3. \E f : Ordered(f, I)
  BY <1>1, OrderedExists
<1>4. \E f \in [1 .. c -> I] : \A i, j \in 1 .. c : i < j => f[i] < f[j]
  BY <1>3 DEF Ordered
<1>5. Ordered(at, I)
  BY <1>4 DEF Ordered
<1>6. Entries(s, I) = [i \in 1 .. c |-> s[at[i]]]
  BY DEF Entries
<1>7. \A i \in 1 .. c : at[i] \in I
  BY <1>5 DEF Ordered
<1> HIDE DEF at, c
<1>8. Entries(s, I) \in Seq(S) /\ Len(Entries(s, I)) = c
  BY <1>1, <1>2, <1>6, <1>7
<1>9. \A i \in 1 .. c : Entries(s, I)[i] = s[at[i]]
  BY <1>6
<1> QED BY <1>2, <1>5, <1>8, <1>9 DEF c

-----------------------------------------------------------------------------
(* One contact, or an emptied slot. *)
Nodes(Is, Hs) ==
  [id : Is, host : Hs, seen : Nat, failed : 0 .. MaxFailed]
    \cup [id : {NullId}, host : {NullId}, seen : Nat, failed : 0 .. MaxFailed]

LEMMA FailedNode ==
  ASSUME NEW Is, NEW Hs, NEW n \in Nodes(Is, Hs)
  PROVE  Failed(n) \in Nodes(Is, Hs) /\ Failed(n).id = n.id /\ Failed(n).seen = n.seen
  BY DEF Failed, Nodes

LEMMA NodeSteps ==
  ASSUME NEW Is, NEW Hs, NEW item \in [id : Is, host : Hs], NEW n \in Nodes(Is, Hs),
         NEW contacted \in BOOLEAN, NEW now \in Nat
  PROVE  /\ Meet(NewNode(item), contacted, now) \in Nodes(Is, Hs)
         /\ Meet(NewNode(item), contacted, now).id = item.id
         /\ Meet(n, contacted, now) \in Nodes(Is, Hs)
         /\ Meet(n, contacted, now).id = n.id
         /\ Meet(SetItem(n, item), contacted, now) \in Nodes(Is, Hs)
         /\ Meet(SetItem(n, item), contacted, now).id = item.id
         /\ Failed(n) \in Nodes(Is, Hs)
         /\ Failed(n).id = n.id /\ Failed(n).seen = n.seen
<1>1. NewNode(item) \in Nodes(Is, Hs) /\ NewNode(item).id = item.id
  BY DEF NewNode, Nodes
<1>2. SetItem(n, item) \in Nodes(Is, Hs) /\ SetItem(n, item).id = item.id
  BY DEF SetItem, Nodes
<1>3. ASSUME NEW m \in Nodes(Is, Hs)
      PROVE  Meet(m, contacted, now) \in Nodes(Is, Hs) /\ Meet(m, contacted, now).id = m.id
  <2>1. [m EXCEPT !.seen = now] \in Nodes(Is, Hs) /\ [m EXCEPT !.seen = now].id = m.id
    BY DEF Nodes
  <2> DEFINE p == [m EXCEPT !.seen = now]
  <2>2. Touch(m, now) = [p EXCEPT !.failed = 0]
    BY DEF Touch
  <2> HIDE DEF p
  <2>3. ASSUME NEW q \in Nodes(Is, Hs)
        PROVE  [q EXCEPT !.failed = 0] \in Nodes(Is, Hs) /\ [q EXCEPT !.failed = 0].id = q.id
    BY DEF Nodes
  <2>4. Touch(m, now) \in Nodes(Is, Hs) /\ Touch(m, now).id = m.id
    BY <2>1, <2>2, <2>3 DEF p
  <2> QED BY <2>4 DEF Meet
<1>4. Failed(n) \in Nodes(Is, Hs) /\ Failed(n).id = n.id /\ Failed(n).seen = n.seen
  BY FailedNode
<1> QED BY <1>1, <1>2, <1>3, <1>4

LEMMA FreshNode ==
  ASSUME NEW Is, NEW Hs, NEW item \in [id : Is, host : Hs], NEW contacted \in BOOLEAN,
         NEW now \in Nat
  PROVE  /\ Meet(NewNode(item), contacted, now) \in Nodes(Is, Hs)
         /\ Meet(NewNode(item), contacted, now).id = item.id
<1>1. NewNode(item) \in Nodes(Is, Hs)
  BY DEF NewNode, Nodes
<1> QED BY <1>1, NodeSteps

LEMMA NullNode ==
  ASSUME NEW Is, NEW Hs
  PROVE  /\ NewNode([id |-> NullId, host |-> NullId]) \in Nodes(Is, Hs)
         /\ NewNode([id |-> NullId, host |-> NullId]).id = NullId
  BY DEF NewNode, Nodes

(* The first slot of an id, and the slots seen longest ago and last. *)
LEMMA FirstSlot ==
  ASSUME NEW S, NEW s \in Seq(S), NEW I \in SUBSET (DOMAIN s), I # {}
  PROVE  Min(I) \in I /\ Min(I) \in DOMAIN s
<1>1. I \in SUBSET Nat
  BY SeqProperties
<1> QED BY <1>1, MinProperties

LEMMA ExtremeSlots ==
  ASSUME NEW Is, NEW Hs, NEW s \in Seq(Nodes(Is, Hs)), s # <<>>
  PROVE  Oldest(s) \in DOMAIN s /\ Latest(s) \in DOMAIN s
<1>1. /\ Len(s) \in Nat /\ Len(s) # 0 /\ DOMAIN s = 1 .. Len(s)
      /\ \A i \in DOMAIN s : s[i].seen \in Nat
  <2>1. /\ Len(s) \in Nat /\ DOMAIN s = 1 .. Len(s)
        /\ \A i \in DOMAIN s : s[i] \in Nodes(Is, Hs)
    BY SeqProperties
  <2>2. \A n \in Nodes(Is, Hs) : n.seen \in Nat
    BY DEF Nodes
  <2> QED BY <2>1, <2>2
<1>2. {i \in DOMAIN s : \A j \in DOMAIN s : s[i].seen <= s[j].seen} # {}
  <2>1. {s[i].seen : i \in DOMAIN s} \in SUBSET Nat /\ {s[i].seen : i \in DOMAIN s} # {}
    BY <1>1
  <2>2. PICK x \in {s[i].seen : i \in DOMAIN s} : \A y \in {s[i].seen : i \in DOMAIN s} : x <= y
    BY <2>1, LeastExists
  <2> QED BY <2>2
<1>3. {i \in DOMAIN s : \A j \in DOMAIN s : s[j].seen <= s[i].seen} # {}
  <2> DEFINE v == [i \in 1 .. Len(s) |-> s[i].seen]
  <2>1. v \in [1 .. Len(s) -> Nat]
    BY <1>1
  <2>2. \E i \in 1 .. Len(s) : \A j \in 1 .. Len(s) : v[j] <= v[i]
    BY <1>1, <2>1, GreatestExists
  <2> QED BY <1>1, <2>2
<1> QED BY <1>2, <1>3, FirstSlot DEF Oldest, Latest

-----------------------------------------------------------------------------
(* Backups. *)
Distinct(s) == \A i, j \in DOMAIN s : s[i].id = s[j].id => i = j
WithoutId(s, id) == \A i \in DOMAIN s : s[i].id # id

(* update_backup() keeps the ids of the backups apart, and within K. *)
LEMMA UpdateBackupSound ==
  ASSUME NEW Is, NEW Hs, K \in Nat \ {0}, NEW s \in Seq(Nodes(Is, Hs)),
         Len(s) <= K, Distinct(s),
         NEW item \in [id : Is, host : Hs], NEW contacted \in BOOLEAN, NEW now \in Nat
  PROVE  /\ UpdateBackup(s, item, contacted, now) \in Seq(Nodes(Is, Hs))
         /\ Len(UpdateBackup(s, item, contacted, now)) <= K
         /\ Distinct(UpdateBackup(s, item, contacted, now))
         /\ UpdateBackup(s, item, contacted, now) # <<>>
<1> DEFINE N == Nodes(Is, Hs)
           mine == SlotsOf(s, item.id)
           fresh == Meet(NewNode(item), contacted, now)
           old == Oldest(s)
           r == UpdateBackup(s, item, contacted, now)
<1>1. /\ s \in Seq(N) /\ Len(s) \in Nat /\ DOMAIN s = 1 .. Len(s)
      /\ \A i \in DOMAIN s : s[i] \in N
  BY SeqProperties
<1>2. fresh \in N /\ fresh.id = item.id
  BY FreshNode
<1>3. CASE mine # {}
  <2>1. Min(mine) \in DOMAIN s
    BY <1>3, FirstSlot DEF SlotsOf
  <2>2. r = [s EXCEPT ![Min(mine)] = Meet(s[Min(mine)], contacted, now)]
    BY <1>3, <2>1 DEF UpdateBackup
  <2>3. /\ Meet(s[Min(mine)], contacted, now) \in N
        /\ Meet(s[Min(mine)], contacted, now).id = s[Min(mine)].id
    BY <1>1, <2>1, NodeSteps
  <2> HIDE DEF N, mine, r
  <2>4. /\ r \in Seq(N) /\ Len(r) = Len(s) /\ DOMAIN r = DOMAIN s
        /\ \A i \in DOMAIN s : r[i].id = s[i].id
    BY <1>1, <2>1, <2>2, <2>3, ExceptProperties
  <2> QED BY <1>1, <2>1, <2>4 DEF Distinct, N, r
<1>4. CASE mine = {} /\ Len(s) < K
  <2>1. r = Append(s, fresh)
    BY <1>4 DEF UpdateBackup
  <2>2. \A i \in DOMAIN s : s[i].id # item.id
    BY <1>4 DEF SlotsOf
  <2> HIDE DEF N, fresh, r
  <2>3. /\ r \in Seq(N) /\ Len(r) = Len(s) + 1 /\ DOMAIN r = 1 .. Len(s) + 1
        /\ \A i \in 1 .. Len(s) : r[i] = s[i]
        /\ r[Len(s) + 1] = fresh
    BY <1>1, <1>2, <2>1, AppendProperties
  <2>4. Distinct(r)
    BY <1>1, <1>2, <2>2, <2>3 DEF Distinct
  <2> QED BY <1>1, <1>4, <2>3, <2>4 DEF N, r
<1>5. CASE mine = {} /\ ~(Len(s) < K)
  <2>1. r = s \/ r = [s EXCEPT ![old] = fresh]
    BY <1>5 DEF UpdateBackup
  <2>2. s # <<>>
    BY <1>1, <1>5
  <2>3. old \in DOMAIN s
    BY <2>2, ExtremeSlots
  <2>4. \A i \in DOMAIN s : s[i].id # item.id
    BY <1>5 DEF SlotsOf
  <2> HIDE DEF N, fresh, r, old
  <2>5. CASE r = s
    BY <2>2, <2>5 DEF N, r
  <2>6. CASE r = [s EXCEPT ![old] = fresh]
    <3>1. /\ r \in Seq(N) /\ Len(r) = Len(s) /\ DOMAIN r = DOMAIN s
          /\ r[old] = fresh
          /\ \A i \in DOMAIN s : i # old => r[i] = s[i]
      BY <1>1, <1>2, <2>3, <2>6, ExceptProperties
    <3>2. Distinct(r)
      BY <1>2, <2>4, <3>1 DEF Distinct
    <3> QED BY <1>1, <2>2, <3>1, <3>2 DEF N, r
  <2> QED BY <2>1, <2>5, <2>6
<1> QED BY <1>3, <1>4, <1>5

-----------------------------------------------------------------------------
(* A bucket as its calls leave it: typed, within its size, no slot of the   *)
(* nodes emptied, no id twice among the backups.                            *)
SoundBucket(b, Is, Hs) ==
  /\ b \in [nodes : Seq(Nodes(Is, Hs)), backups : Seq(Nodes(Is, Hs)), needPing : BOOLEAN]
  /\ Len(b.nodes) <= K /\ Len(b.backups) <= K
  /\ WithoutId(b.nodes, NullId)
  /\ Distinct(b.backups)

LEMMA EmptyBucketSound ==
  ASSUME NEW Is, NEW Hs, K \in Nat \ {0}
  PROVE  SoundBucket(EmptyBucket, Is, Hs)
<1>1. /\ <<>> \in Seq(Nodes(Is, Hs)) /\ Len(<<>>) = 0
      /\ \A i \in DOMAIN <<>> : FALSE
  OBVIOUS
<1>2. WithoutId(<<>>, NullId) /\ Distinct(<<>>)
  BY DEF WithoutId, Distinct
<1>3. EmptyBucket.nodes = <<>> /\ EmptyBucket.backups = <<>> /\ EmptyBucket.needPing = FALSE
  BY DEF EmptyBucket
<1>4. EmptyBucket \in [nodes : Seq(Nodes(Is, Hs)), backups : Seq(Nodes(Is, Hs)), needPing : BOOLEAN]
  BY <1>1 DEF EmptyBucket
<1> QED BY <1>1, <1>2, <1>3, <1>4 DEF SoundBucket

(* A node put into a slot, or behind the others. *)
LEMMA PutSound ==
  ASSUME NEW Is, NEW Hs, NEW s \in Seq(Nodes(Is, Hs)), WithoutId(s, NullId),
         NEW k \in DOMAIN s, NEW n \in Nodes(Is, Hs), n.id # NullId
  PROVE  /\ [s EXCEPT ![k] = n] \in Seq(Nodes(Is, Hs))
         /\ Len([s EXCEPT ![k] = n]) = Len(s)
         /\ WithoutId([s EXCEPT ![k] = n], NullId)
         /\ \A i \in DOMAIN s : i \in DOMAIN [s EXCEPT ![k] = n]
         /\ \A i \in DOMAIN s : i # k => [s EXCEPT ![k] = n][i] = s[i]
         /\ [s EXCEPT ![k] = n][k] = n
<1> DEFINE r == [s EXCEPT ![k] = n]
           N == Nodes(Is, Hs)
<1>1. s \in Seq(N) /\ n \in N
  OBVIOUS
<1> HIDE DEF N
<1>2. /\ r \in Seq(N) /\ Len(r) = Len(s) /\ DOMAIN r = DOMAIN s
      /\ r[k] = n /\ \A i \in DOMAIN s : i # k => r[i] = s[i]
  BY <1>1, ExceptProperties
<1> HIDE DEF r
<1>3. WithoutId(r, NullId)
  BY <1>2 DEF WithoutId
<1> QED BY <1>2, <1>3 DEF r, N

LEMMA AddSound ==
  ASSUME NEW Is, NEW Hs, NEW s \in Seq(Nodes(Is, Hs)), WithoutId(s, NullId),
         NEW n \in Nodes(Is, Hs), n.id # NullId
  PROVE  /\ Append(s, n) \in Seq(Nodes(Is, Hs))
         /\ Len(Append(s, n)) = Len(s) + 1
         /\ WithoutId(Append(s, n), NullId)
         /\ \A i \in DOMAIN s : i \in DOMAIN Append(s, n) /\ Append(s, n)[i] = s[i]
<1> DEFINE r == Append(s, n)
           N == Nodes(Is, Hs)
<1>1. s \in Seq(N) /\ n \in N /\ Len(s) \in Nat /\ DOMAIN s = 1 .. Len(s)
  BY SeqProperties
<1> HIDE DEF N
<1>2. /\ r \in Seq(N) /\ Len(r) = Len(s) + 1 /\ DOMAIN r = 1 .. Len(s) + 1
      /\ \A i \in 1 .. Len(s) : r[i] = s[i]
      /\ r[Len(s) + 1] = n
  BY <1>1, AppendProperties
<1> HIDE DEF r
<1>3. WithoutId(r, NullId)
  BY <1>1, <1>2 DEF WithoutId
<1> QED BY <1>1, <1>2, <1>3 DEF r, N

(* update_contact() keeps the bucket sound, never shrinks it, takes a slot  *)
(* away only from a bad node, and drops all backups only if every node is   *)
(* neither bad nor doubtful.                                                *)
UpdateKeeps(b, r, now) ==
  /\ Len(b.nodes) <= Len(r.nodes)
  /\ \A i \in DOMAIN b.nodes :
       i \in DOMAIN r.nodes /\ (r.nodes[i].id # b.nodes[i].id => IsBad(b.nodes[i]))
  /\ b.backups # <<>> /\ r.backups = <<>> =>
       \A i \in DOMAIN b.nodes : ~IsBad(b.nodes[i]) /\ ~IsDoubt(b.nodes[i], now)

LEMMA UpdateContactSound ==
  ASSUME NEW Is, NEW Hs, K \in Nat \ {0}, NullId \notin Is, NEW b, SoundBucket(b, Is, Hs),
         NEW item \in [id : Is, host : Hs], NEW contacted \in BOOLEAN, NEW now \in Nat
  PROVE  /\ SoundBucket(UpdateContact(b, item, contacted, now), Is, Hs)
         /\ UpdateKeeps(b, UpdateContact(b, item, contacted, now), now)
<1> DEFINE N == Nodes(Is, Hs)
           mine == SlotsOf(b.nodes, item.id)
           bad == {i \in DOMAIN b.nodes : IsBad(b.nodes[i])}
           doubt == {i \in DOMAIN b.nodes : IsDoubt(b.nodes[i], now)}
           fresh == Meet(NewNode(item), contacted, now)
           r == UpdateContact(b, item, contacted, now)
<1>1. /\ b \in [nodes : Seq(N), backups : Seq(N), needPing : BOOLEAN]
      /\ Len(b.nodes) <= K /\ Len(b.backups) <= K
      /\ WithoutId(b.nodes, NullId) /\ Distinct(b.backups)
  BY DEF SoundBucket
<1>2. /\ b.nodes \in Seq(N) /\ b.backups \in Seq(N) /\ b.needPing \in BOOLEAN
      /\ Len(b.nodes) \in Nat /\ DOMAIN b.nodes = 1 .. Len(b.nodes)
      /\ \A i \in DOMAIN b.nodes : b.nodes[i] \in N
  BY <1>1, SeqProperties
<1>3. fresh \in N /\ fresh.id = item.id /\ item.id # NullId
  BY FreshNode
<1>4. CASE mine # {}
  <2> DEFINE m == Min(mine)
             n == Meet(SetItem(b.nodes[m], item), contacted, now)
  <2>1. m \in mine /\ m \in DOMAIN b.nodes /\ b.nodes[m].id = item.id
    <3>1. m \in mine /\ m \in DOMAIN b.nodes
      BY <1>2, <1>4, FirstSlot DEF SlotsOf
    <3> QED BY <3>1 DEF SlotsOf
  <2>2. r = [b EXCEPT !.nodes = [b.nodes EXCEPT ![m] = n]]
    BY <1>4, <2>1 DEF UpdateContact
  <2>3. n \in N /\ n.id = item.id
    BY <1>2, <2>1, NodeSteps
  <2> DEFINE t == [b.nodes EXCEPT ![m] = n]
  <2>4. /\ t \in Seq(N) /\ Len(t) = Len(b.nodes) /\ WithoutId(t, NullId)
        /\ \A i \in DOMAIN b.nodes : i \in DOMAIN t
        /\ \A i \in DOMAIN b.nodes : i # m => t[i] = b.nodes[i]
        /\ t[m] = n
    <3> HIDE DEF n, m
    <3> QED BY <1>1, <1>2, <1>3, <2>1, <2>3, PutSound
  <2> HIDE DEF n, m, t, N, r, mine
  <2>5. /\ r \in [nodes : Seq(N), backups : Seq(N), needPing : BOOLEAN]
        /\ r.nodes = t /\ r.backups = b.backups
    BY <1>1, <2>2, <2>4 DEF t
  <2>6. SoundBucket(r, Is, Hs)
    BY <1>1, <2>4, <2>5 DEF SoundBucket, N
  <2>7. \A i \in DOMAIN b.nodes : i \in DOMAIN t /\ t[i].id = b.nodes[i].id
    BY <2>1, <2>3, <2>4
  <2> QED BY <1>2, <2>4, <2>5, <2>6, <2>7 DEF r, UpdateKeeps
<1>5. CASE mine = {} /\ Len(b.nodes) < K
  <2> DEFINE t == Append(b.nodes, fresh)
  <2>1. r = [b EXCEPT !.nodes = t]
    BY <1>5 DEF UpdateContact
  <2>2. /\ t \in Seq(N) /\ Len(t) = Len(b.nodes) + 1 /\ WithoutId(t, NullId)
        /\ \A i \in DOMAIN b.nodes : i \in DOMAIN t /\ t[i] = b.nodes[i]
    <3> HIDE DEF fresh
    <3> QED BY <1>1, <1>2, <1>3, AddSound
  <2> HIDE DEF t, N, r, fresh
  <2>3. /\ r \in [nodes : Seq(N), backups : Seq(N), needPing : BOOLEAN]
        /\ r.nodes = t /\ r.backups = b.backups
    BY <1>1, <2>1, <2>2
  <2>4. SoundBucket(r, Is, Hs)
    BY <1>1, <1>2, <1>5, <2>2, <2>3 DEF SoundBucket, N
  <2> QED BY <1>2, <2>2, <2>3, <2>4 DEF r, UpdateKeeps
<1>6. CASE mine = {} /\ Len(b.nodes) >= K /\ bad # {}
  <2> DEFINE m == Min(bad)
             t == [b.nodes EXCEPT ![m] = fresh]
  <2>1. m \in DOMAIN b.nodes /\ IsBad(b.nodes[m])
    <3>1. m \in bad
      BY <1>2, <1>6, FirstSlot
    <3> QED BY <3>1
  <2>2. r = [b EXCEPT !.nodes = t]
    BY <1>6, <2>1 DEF UpdateContact
  <2>3. /\ t \in Seq(N) /\ Len(t) = Len(b.nodes) /\ WithoutId(t, NullId)
        /\ \A i \in DOMAIN b.nodes : i \in DOMAIN t
        /\ \A i \in DOMAIN b.nodes : i # m => t[i] = b.nodes[i]
    <3> HIDE DEF fresh, m
    <3> QED BY <1>1, <1>2, <1>3, <2>1, PutSound
  <2> HIDE DEF t, N, r, fresh, m
  <2>4. /\ r \in [nodes : Seq(N), backups : Seq(N), needPing : BOOLEAN]
        /\ r.nodes = t /\ r.backups = b.backups
    BY <1>1, <2>2, <2>3
  <2>5. SoundBucket(r, Is, Hs)
    BY <1>1, <2>3, <2>4 DEF SoundBucket, N
  <2>6. \A i \in DOMAIN b.nodes :
          i \in DOMAIN r.nodes /\ (r.nodes[i].id # b.nodes[i].id => IsBad(b.nodes[i]))
    BY <2>1, <2>3, <2>4
  <2>7. Len(b.nodes) <= Len(r.nodes)
    BY <1>2, <2>3, <2>4
  <2> QED BY <2>4, <2>5, <2>6, <2>7 DEF r, UpdateKeeps
<1>7. CASE mine = {} /\ Len(b.nodes) >= K /\ bad = {} /\ doubt = {}
  <2>1. r = [b EXCEPT !.backups = <<>>]
    BY <1>7 DEF UpdateContact
  <2>2. <<>> \in Seq(N) /\ Len(<<>>) = 0 /\ Distinct(<<>>)
    BY DEF Distinct
  <2>3. \A i \in DOMAIN b.nodes : ~IsBad(b.nodes[i]) /\ ~IsDoubt(b.nodes[i], now)
    BY <1>7
  <2> HIDE DEF N, r
  <2>4. /\ r \in [nodes : Seq(N), backups : Seq(N), needPing : BOOLEAN]
        /\ r.nodes = b.nodes /\ r.backups = <<>>
    BY <1>1, <2>1, <2>2
  <2>5. SoundBucket(r, Is, Hs)
    BY <1>1, <2>2, <2>4 DEF SoundBucket, N
  <2> QED BY <1>2, <2>3, <2>4, <2>5 DEF r, UpdateKeeps
<1>8. CASE mine = {} /\ Len(b.nodes) >= K /\ bad = {} /\ doubt # {}
  <2> DEFINE u == UpdateBackup(b.backups, item, contacted, now)
  <2>1. r = [b EXCEPT !.backups = u, !.needPing = TRUE]
    BY <1>8 DEF UpdateContact
  <2>2. u \in Seq(N) /\ Len(u) <= K /\ Distinct(u) /\ u # <<>>
    BY <1>1, <1>2, UpdateBackupSound
  <2> HIDE DEF u, N, r
  <2>3. /\ r \in [nodes : Seq(N), backups : Seq(N), needPing : BOOLEAN]
        /\ r.nodes = b.nodes /\ r.backups = u
    BY <1>1, <2>1, <2>2
  <2>4. SoundBucket(r, Is, Hs)
    BY <1>1, <2>2, <2>3 DEF SoundBucket, N
  <2> QED BY <1>2, <2>2, <2>3, <2>4 DEF r, UpdateKeeps
<1> QED BY <1>2, <1>4, <1>5, <1>6, <1>7, <1>8

(* failed_contact() keeps the bucket sound and its size, gives a slot to    *)
(* another only when its node is the failed one and was silent for long,    *)
(* and leaves the failed one no place among the backups.                    *)
FailedKeeps(b, r, item, now) ==
  /\ Len(r.nodes) = Len(b.nodes) /\ r.needPing = b.needPing
  /\ \A i \in DOMAIN b.nodes :
       /\ i \in DOMAIN r.nodes
       /\ r.nodes[i].id # b.nodes[i].id =>
            b.nodes[i].id = item.id /\ b.nodes[i].seen + DoubtAge < now
  /\ WithoutId(r.backups, item.id)

LEMMA FailedContactSound ==
  ASSUME NEW Is, NEW Hs, K \in Nat \ {0}, NEW b, SoundBucket(b, Is, Hs),
         NEW item, NEW now \in Nat
  PROVE  /\ SoundBucket(FailedContact(b, item, now), Is, Hs)
         /\ FailedKeeps(b, FailedContact(b, item, now), item, now)
<1> DEFINE N == Nodes(Is, Hs)
           mine == SlotsOf(b.nodes, item.id)
           slot == Min(mine)
           struck == IF mine = {} THEN b.nodes
                     ELSE [b.nodes EXCEPT ![slot] = Failed(b.nodes[slot])]
           keep == {i \in DOMAIN b.backups : b.backups[i].id # item.id /\ b.backups[i].id # NullId}
           left == Usable(b.backups, item.id)
           null == NewNode([id |-> NullId, host |-> NullId])
           last == Latest(left)
           r == FailedContact(b, item, now)
<1>1. /\ b \in [nodes : Seq(N), backups : Seq(N), needPing : BOOLEAN]
      /\ Len(b.nodes) <= K /\ Len(b.backups) <= K
      /\ WithoutId(b.nodes, NullId) /\ Distinct(b.backups)
  BY DEF SoundBucket
<1>2. /\ b.nodes \in Seq(N) /\ b.backups \in Seq(N) /\ b.needPing \in BOOLEAN
      /\ Len(b.nodes) \in Nat /\ DOMAIN b.nodes = 1 .. Len(b.nodes)
      /\ Len(b.backups) \in Nat /\ DOMAIN b.backups = 1 .. Len(b.backups)
      /\ \A i \in DOMAIN b.nodes : b.nodes[i] \in N
  BY <1>1, SeqProperties
<1>3. /\ struck \in Seq(N) /\ Len(struck) = Len(b.nodes) /\ WithoutId(struck, NullId)
      /\ \A i \in DOMAIN b.nodes :
           /\ i \in DOMAIN struck
           /\ struck[i].id = b.nodes[i].id /\ struck[i].seen = b.nodes[i].seen
  <2>1. CASE mine = {}
    BY <1>1, <1>2, <2>1
  <2>2. CASE mine # {}
    <3> DEFINE n == Failed(b.nodes[slot])
    <3>1. slot \in DOMAIN b.nodes
      BY <1>2, <2>2, FirstSlot DEF SlotsOf
    <3>2. n \in N /\ n.id = b.nodes[slot].id /\ n.seen = b.nodes[slot].seen
      BY <1>2, <3>1, FailedNode
    <3>3. n.id # NullId
      BY <1>1, <3>1, <3>2 DEF WithoutId
    <3>4. struck = [b.nodes EXCEPT ![slot] = n]
      BY <2>2
    <3> HIDE DEF n, slot, struck
    <3>5. /\ struck \in Seq(N) /\ Len(struck) = Len(b.nodes) /\ WithoutId(struck, NullId)
          /\ \A i \in DOMAIN b.nodes : i \in DOMAIN struck
          /\ \A i \in DOMAIN b.nodes : i # slot => struck[i] = b.nodes[i]
          /\ struck[slot] = n
      BY <1>1, <1>2, <3>1, <3>2, <3>3, <3>4, PutSound
    <3> QED BY <3>2, <3>5
  <2> QED BY <2>1, <2>2
<1>4. /\ left \in Seq(N) /\ Len(left) <= K /\ Len(left) \in Nat
      /\ DOMAIN left = 1 .. Len(left)
      /\ Distinct(left) /\ WithoutId(left, item.id) /\ WithoutId(left, NullId)
  <2>1. keep \in SUBSET DOMAIN b.backups /\ left = Entries(b.backups, keep)
    BY DEF Usable
  <2> HIDE DEF keep, left
  <2>2. /\ left \in Seq(N) /\ Len(left) = Cardinality(keep)
        /\ Cardinality(keep) <= Len(b.backups)
        /\ \E f : Ordered(f, keep) /\ \A i \in 1 .. Cardinality(keep) : left[i] = b.backups[f[i]]
    BY <1>2, <2>1, EntriesProperties
  <2>3. Len(left) \in Nat /\ DOMAIN left = 1 .. Len(left)
    BY <2>2, SeqProperties
  <2>4. PICK f : /\ f \in [1 .. Len(left) -> keep]
                 /\ \A i, j \in 1 .. Len(left) : i < j => f[i] < f[j]
                 /\ \A i \in 1 .. Len(left) : left[i] = b.backups[f[i]]
    BY <2>2 DEF Ordered
  <2>5. \A i \in 1 .. Len(left) :
          /\ f[i] \in DOMAIN b.backups /\ left[i] = b.backups[f[i]]
          /\ left[i].id # item.id /\ left[i].id # NullId
    BY <2>4 DEF keep
  <2>6. ASSUME NEW i \in 1 .. Len(left), NEW j \in 1 .. Len(left), left[i].id = left[j].id
        PROVE  i = j
    <3>1. f[i] = f[j]
      BY <1>1, <2>5, <2>6 DEF Distinct
    <3>2. f[i] \in 1 .. Len(b.backups)
      BY <1>2, <2>5
    <3>3. ~(i < j) /\ ~(j < i)
      BY <2>4, <3>1, <3>2
    <3> QED BY <2>3, <3>3
  <2>7. Distinct(left) /\ WithoutId(left, item.id) /\ WithoutId(left, NullId)
    BY <2>3, <2>5, <2>6 DEF Distinct, WithoutId
  <2> QED BY <1>1, <1>2, <2>2, <2>3, <2>7
<1>5. r = IF mine # {} /\ left # <<>> /\ Replaceable(struck[slot], now)
          THEN [b EXCEPT !.nodes = [struck EXCEPT ![slot] = left[last]],
                         !.backups = [left EXCEPT ![last] = null]]
          ELSE [b EXCEPT !.nodes = struck, !.backups = left]
  BY DEF FailedContact
<1>6. CASE mine # {} /\ left # <<>> /\ Replaceable(struck[slot], now)
  <2> DEFINE t == [struck EXCEPT ![slot] = left[last]]
             u == [left EXCEPT ![last] = null]
  <2>1. slot \in DOMAIN b.nodes /\ b.nodes[slot].id = item.id
    <3>1. slot \in mine /\ slot \in DOMAIN b.nodes
      BY <1>2, <1>6, FirstSlot DEF SlotsOf
    <3> QED BY <3>1 DEF SlotsOf
  <2>2. b.nodes[slot].seen + DoubtAge < now /\ item.id # NullId
    BY <1>1, <1>3, <1>6, <2>1 DEF Replaceable, WithoutId
  <2>3. last \in DOMAIN left /\ left[last] \in N /\ left[last].id # NullId
    <3>1. last \in DOMAIN left
      BY <1>4, <1>6, ExtremeSlots
    <3>2. left[last] \in N
      BY <1>4, <3>1, SeqProperties
    <3> QED BY <1>4, <3>1, <3>2 DEF WithoutId
  <2>4. null \in N /\ null.id = NullId
    BY NullNode
  <2>5. r = [b EXCEPT !.nodes = t, !.backups = u]
    BY <1>5, <1>6
  <2>6. /\ t \in Seq(N) /\ Len(t) = Len(struck) /\ WithoutId(t, NullId)
        /\ \A i \in DOMAIN struck : i \in DOMAIN t
        /\ \A i \in DOMAIN struck : i # slot => t[i] = struck[i]
    <3> HIDE DEF struck, slot, last, left
    <3> QED BY <1>3, <2>1, <2>3, PutSound
  <2>7. /\ u \in Seq(N) /\ Len(u) = Len(left) /\ DOMAIN u = DOMAIN left
        /\ u[last] = null /\ \A i \in DOMAIN left : i # last => u[i] = left[i]
    <3> HIDE DEF null, last, left, N
    <3> QED BY <1>4, <2>3, <2>4, ExceptProperties
  <2> HIDE DEF t, u, N, r, struck, left, slot, last, null, mine
  <2>8. Distinct(u)
    BY <1>4, <2>4, <2>7 DEF Distinct, WithoutId
  <2>9. WithoutId(u, item.id)
    BY <1>4, <2>2, <2>4, <2>7 DEF WithoutId
  <2>10. /\ r \in [nodes : Seq(N), backups : Seq(N), needPing : BOOLEAN]
         /\ r.nodes = t /\ r.backups = u /\ r.needPing = b.needPing
    BY <1>1, <2>5, <2>6, <2>7
  <2>11. SoundBucket(r, Is, Hs)
    BY <1>1, <1>3, <1>4, <2>6, <2>7, <2>8, <2>10 DEF SoundBucket, N
  <2>12. \A i \in DOMAIN b.nodes : i \in DOMAIN t /\ (i # slot => t[i].id = b.nodes[i].id)
    BY <1>3, <2>6
  <2>13. \A i \in DOMAIN b.nodes :
           /\ i \in DOMAIN r.nodes
           /\ r.nodes[i].id # b.nodes[i].id =>
                b.nodes[i].id = item.id /\ b.nodes[i].seen + DoubtAge < now
    BY <2>1, <2>2, <2>10, <2>12
  <2>14. Len(r.nodes) = Len(b.nodes)
    BY <1>3, <2>6, <2>10
  <2> QED BY <2>9, <2>10, <2>11, <2>13, <2>14 DEF r, FailedKeeps
<1>7. CASE ~(mine # {} /\ left # <<>> /\ Replaceable(struck[slot], now))
  <2>1. r = [b EXCEPT !.nodes = struck, !.backups = left]
    BY <1>5, <1>7
  <2> HIDE DEF N, r, struck, left, mine
  <2>2. /\ r \in [nodes : Seq(N), backups : Seq(N), needPing : BOOLEAN]
        /\ r.nodes = struck /\ r.backups = left /\ r.needPing = b.needPing
    BY <1>1, <1>3, <1>4, <2>1
  <2>3. SoundBucket(r, Is, Hs)
    BY <1>1, <1>3, <1>4, <2>2 DEF SoundBucket, N
  <2> QED BY <1>3, <1>4, <2>2, <2>3 DEF r, FailedKeeps
<1> QED BY <1>6, <1>7

(* get_ping() returns no more than it is asked for, and leaves the flag up  *)
(* only if it returned something.                                           *)
LEMMA PingItemsBounded ==
  ASSUME NEW Is, NEW Hs, NEW b, SoundBucket(b, Is, Hs), NEW size \in Nat, NEW now \in Nat
  PROVE  /\ Len(PingItems(b, size, now)) \in Nat
         /\ Len(PingItems(b, size, now)) <= size
         /\ PingItems(b, size, now) # <<>> => Len(PingItems(b, size, now)) > 0
<1> DEFINE N == Nodes(Is, Hs)
           D == {i \in DOMAIN b.nodes : IsDoubt(b.nodes[i], now)}
           doubtful == Entries(b.nodes, D)
           most == {size, Len(b.backups), Len(doubtful)}
           p == SubSeq(doubtful, 1, Min(most))
<1>1. b.nodes \in Seq(N) /\ b.backups \in Seq(N)
  BY DEF SoundBucket
<1>2. doubtful \in Seq(N)
  <2>1. D \in SUBSET (DOMAIN b.nodes)
    OBVIOUS
  <2> HIDE DEF D, N
  <2> QED BY <1>1, <2>1, EntriesProperties
<1>3. Len(b.backups) \in Nat /\ Len(doubtful) \in Nat
  <2> HIDE DEF N, doubtful
  <2> QED BY <1>1, <1>2, SeqProperties
<1>4. Min(most) \in most /\ \A y \in most : Min(most) <= y
  <2>1. most \in SUBSET Nat /\ most # {}
    BY <1>3
  <2> HIDE DEF most
  <2> QED BY <2>1, MinProperties
<1>5. Min(most) \in Nat /\ Min(most) <= size /\ Min(most) <= Len(doubtful)
  BY <1>3, <1>4
<1>6. PingItems(b, size, now) = p
  BY DEF PingItems
<1> HIDE DEF most, doubtful, N
<1>7. p \in Seq(N) /\ Len(p) = Min(most)
  BY <1>2, <1>3, <1>5
<1> HIDE DEF p
<1>8. p # <<>> => Len(p) # 0
  BY <1>7
<1> QED BY <1>5, <1>6, <1>7, <1>8

LEMMA GetPingSound ==
  ASSUME NEW Is, NEW Hs, NEW b, SoundBucket(b, Is, Hs), NEW size \in Nat \ {0}, NEW now \in Nat
  PROVE  /\ SoundBucket(GetPing(b, size, now), Is, Hs)
         /\ GetPing(b, size, now).nodes = b.nodes /\ GetPing(b, size, now).backups = b.backups
         /\ GetPing(b, size, now).needPing => Len(PingItems(b, size, now)) > 0
<1>1. GetPing(b, size, now) = [b EXCEPT !.needPing = PingItems(b, size, now) # <<>>]
  BY DEF GetPing
<1> DEFINE p == PingItems(b, size, now) # <<>>
           r == [b EXCEPT !.needPing = p]
<1>2. p \in BOOLEAN /\ (p => Len(PingItems(b, size, now)) > 0)
  BY PingItemsBounded
<1>3. b \in [nodes : Seq(Nodes(Is, Hs)), backups : Seq(Nodes(Is, Hs)), needPing : BOOLEAN]
  BY DEF SoundBucket
<1> HIDE DEF p
<1>4. /\ r \in [nodes : Seq(Nodes(Is, Hs)), backups : Seq(Nodes(Is, Hs)), needPing : BOOLEAN]
      /\ r.nodes = b.nodes /\ r.backups = b.backups /\ r.needPing = p
  BY <1>2, <1>3
<1> HIDE DEF r
<1>5. SoundBucket(r, Is, Hs)
  BY <1>4 DEF SoundBucket
<1> QED BY <1>1, <1>2, <1>4, <1>5 DEF r, p
=============================================================================
