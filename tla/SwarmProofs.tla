----------------------------- MODULE SwarmProofs -----------------------------
(***************************************************************************)
(* What holds of the peers of a torrent, for any peers, pieces, blocks and *)
(* bounds.  Every operation on [dl, peer] keeps Sound; while a finished    *)
(* piece is announced, those not yet told of it are let off some of it.    *)
(***************************************************************************)
EXTENDS Swarm, FiniteSetTheorems, SequenceTheorems, WellFoundedInduction, TLAPS

-----------------------------------------------------------------------------
(* Numbers and sequences. *)

LEMMA LeastExists ==
  ASSUME NEW S \in SUBSET Nat, S # {}
  PROVE  \E x \in S : \A y \in S : x <= y
<1>1. PICK x \in S : \A y \in S : <<y, x>> \notin OpToRel(<, Nat)
  BY NatLessThanWellFounded, WFMin
<1>2. \A y \in S : ~(y < x)
  BY <1>1 DEF OpToRel
<1> QED BY <1>2

LEMMA MinProperties ==
  ASSUME NEW S \in SUBSET Nat, S # {}
  PROVE  Min(S) \in S /\ \A y \in S : Min(S) <= y
<1>1. Min(S) \in S /\ \A y \in S : Min(S) =< y
  BY LeastExists DEF Min
<1> QED BY <1>1

(* A set of numbers that has 0 and with i also i + 1 has them all. *)
LEMMA UpTo ==
  ASSUME NEW n \in Nat, NEW A, 0 \in A, \A i \in 1..n : i - 1 \in A => i \in A
  PROVE  \A i \in 0..n : i \in A
<1> DEFINE Bad == {i \in 0..n : i \notin A}
<1> SUFFICES ASSUME Bad # {} PROVE FALSE
  OBVIOUS
<1>1. PICK m \in Bad : \A k \in Bad : m <= k
  <2>1. Bad \in SUBSET Nat
    OBVIOUS
  <2> HIDE DEF Bad
  <2> QED BY <2>1, LeastExists
<1>2. m \in 1..n /\ m - 1 \in 0..n /\ ~(m <= m - 1)
  BY <1>1
<1>3. m - 1 \in A
  BY <1>1, <1>2
<1> QED BY <1>1, <1>2, <1>3

LEMMA RemoveAtProperties ==
  ASSUME NEW S, NEW s \in Seq(S), NEW k \in 1..Len(s)
  PROVE  /\ RemoveAt(s, k) \in Seq(S) /\ Len(RemoveAt(s, k)) = Len(s) - 1
         /\ \A i \in 1..k-1 : RemoveAt(s, k)[i] = s[i]
         /\ \A i \in k..Len(s)-1 : RemoveAt(s, k)[i] = s[i + 1]
<1> DEFINE a == SubSeq(s, 1, k - 1)
           b == SubSeq(s, k + 1, Len(s))
<1>1. a \in Seq(S) /\ Len(a) = k - 1 /\ \A i \in 1..k-1 : a[i] = s[i]
  OBVIOUS
<1>2. b \in Seq(S) /\ Len(b) = Len(s) - k /\ \A i \in 1..Len(s)-k : b[i] = s[k + i]
  OBVIOUS
<1>3. RemoveAt(s, k) = a \o b
  BY DEF RemoveAt
<1> HIDE DEF a, b
<1>4. /\ a \o b \in Seq(S) /\ Len(a \o b) = Len(s) - 1
      /\ \A i \in 1..k-1 : (a \o b)[i] = a[i]
      /\ \A i \in k..Len(s)-1 : (a \o b)[i] = b[i - (k - 1)]
  <2>1. a \in Seq(S) /\ b \in Seq(S) /\ Len(a) \in Nat /\ Len(b) \in Nat
    BY <1>1, <1>2
  <2>2. /\ a \o b \in Seq(S) /\ Len(a \o b) = Len(a) + Len(b)
        /\ \A i \in 1..Len(a)+Len(b) : (a \o b)[i] = IF i <= Len(a) THEN a[i] ELSE b[i - Len(a)]
    BY <2>1, ConcatProperties
  <2> QED BY SMTT(30), <1>1, <1>2, <2>2
<1>5. \A i \in k..Len(s)-1 : b[i - (k - 1)] = s[i + 1]
  <2> TAKE i \in k..Len(s)-1
  <2>1. i - (k - 1) \in 1..Len(s)-k /\ k + (i - (k - 1)) = i + 1
    OBVIOUS
  <2> QED BY <1>2, <2>1
<1> QED BY <1>1, <1>3, <1>4, <1>5

(* What RemoveFirst removes. *)
LEMMA RemoveFirstIs ==
  ASSUME NEW S, NEW s \in Seq(S), NEW e
  PROVE  \/ e \notin Range(s) /\ RemoveFirst(s, e) = s
         \/ \E k \in 1..Len(s) : s[k] = e /\ RemoveFirst(s, e) = RemoveAt(s, k)
<1>1. CASE \E i \in 1..Len(s) : s[i] = e
  <2> DEFINE I == {i \in 1..Len(s) : s[i] = e}
  <2>1. I \in SUBSET Nat /\ I # {}
    BY <1>1
  <2>2. RemoveFirst(s, e) = RemoveAt(s, Min(I))
    BY <1>1, <2>1 DEF RemoveFirst, SelectInSeq
  <2>3. Min(I) \in I
    <3> HIDE DEF I
    <3> QED BY <2>1, MinProperties
  <2> QED BY <2>2, <2>3
<1>2. CASE ~\E i \in 1..Len(s) : s[i] = e
  <2>1. e \notin Range(s)
    BY <1>2 DEF Range
  <2>2. RemoveFirst(s, e) = s
    BY <1>2 DEF RemoveFirst
  <2> QED BY <2>1, <2>2
<1> QED BY <1>1, <1>2

LEMMA RemoveFirstTyped ==
  ASSUME NEW S, NEW s \in Seq(S), NEW e
  PROVE  RemoveFirst(s, e) \in Seq(S)
BY RemoveFirstIs, RemoveAtProperties

(* How often a request is in a queue. *)
Sites(q, r) == {i \in DOMAIN q : q[i] = r}

LEMMA SitesFinite ==
  ASSUME NEW S, NEW q \in Seq(S), NEW r
  PROVE  /\ IsFiniteSet(Sites(q, r)) /\ Times(q, r) = Cardinality(Sites(q, r))
         /\ Times(q, r) \in Nat /\ Times(q, r) <= Len(q)
         /\ r \in Range(q) <=> Times(q, r) # 0
<1>1. IsFiniteSet(1..Len(q)) /\ Cardinality(1..Len(q)) = Len(q) /\ DOMAIN q = 1..Len(q)
  <2>1. 1 \in Int /\ Len(q) \in Int /\ Len(q) >= 0 /\ DOMAIN q = 1..Len(q)
    OBVIOUS
  <2>2. /\ IsFiniteSet(1..Len(q))
        /\ Cardinality(1..Len(q)) = IF 1 > Len(q) THEN 0 ELSE Len(q) - 1 + 1
    BY <2>1, FS_Interval
  <2> QED BY <2>1, <2>2
<1>2. Sites(q, r) \in SUBSET (1..Len(q))
  BY <1>1 DEF Sites
<1>3. IsFiniteSet(Sites(q, r)) /\ Cardinality(Sites(q, r)) <= Len(q)
  BY <1>1, <1>2, FS_Subset
<1>4. Cardinality(Sites(q, r)) \in Nat
  BY <1>3, FS_CardinalityType
<1>5. Cardinality(Sites(q, r)) = 0 <=> Sites(q, r) = {}
  BY <1>3, FS_EmptySet
<1>6. r \in Range(q) <=> Sites(q, r) # {}
  BY DEF Range, Sites
<1>7. Times(q, r) = Cardinality(Sites(q, r))
  BY DEF Times, Sites
<1> QED BY <1>3, <1>4, <1>5, <1>6, <1>7

LEMMA TimesEmpty == \A r : Times(<<>>, r) = 0
<1> TAKE r
<1>1. Sites(<<>>, r) = {}
  BY DEF Sites
<1>2. Times(<<>>, r) = Cardinality(Sites(<<>>, r))
  BY DEF Times, Sites
<1> QED BY <1>1, <1>2, FS_EmptySet

LEMMA TimesAppend ==
  ASSUME NEW S, NEW q \in Seq(S), NEW x \in S, NEW r
  PROVE  Times(Append(q, x), r) = Times(q, r) + (IF x = r THEN 1 ELSE 0)
<1> DEFINE n == Len(q) + 1
<1>1. /\ DOMAIN Append(q, x) = 1..n /\ DOMAIN q = 1..Len(q) /\ Append(q, x)[n] = x
      /\ \A i \in 1..Len(q) : Append(q, x)[i] = q[i]
  OBVIOUS
<1>2. n \notin Sites(q, r)
  BY <1>1 DEF Sites
<1>3. Sites(Append(q, x), r) = IF x = r THEN Sites(q, r) \cup {n} ELSE Sites(q, r)
  <2>1. CASE x = r
    BY <1>1, <2>1 DEF Sites
  <2>2. CASE x # r
    BY <1>1, <2>2 DEF Sites
  <2> QED BY <2>1, <2>2
<1>4. Times(Append(q, x), r) = Cardinality(Sites(Append(q, x), r))
  BY DEF Times, Sites
<1> HIDE DEF n
<1>5. Cardinality(Sites(q, r) \cup {n}) = Cardinality(Sites(q, r)) + 1
  BY <1>2, SitesFinite, FS_AddElement
<1> QED BY <1>3, <1>4, <1>5, SitesFinite

(* An injection from the sites in one queue to those in another.            *)
LEMMA TimesInjected ==
  ASSUME NEW S, NEW q \in Seq(S), NEW t \in Seq(S), NEW r,
         NEW f \in [1..Len(t) -> 1..Len(q)], NEW A \in SUBSET Sites(q, r),
         \A i \in 1..Len(t) : t[i] = r => f[i] \in A,
         \A i, j \in 1..Len(t) : f[i] = f[j] => i = j
  PROVE  Times(t, r) <= Cardinality(A)
<1> DEFINE g == [i \in Sites(t, r) |-> f[i]]
<1>1. Sites(t, r) \in SUBSET (1..Len(t)) /\ \A i \in Sites(t, r) : t[i] = r
  BY DEF Sites
<1>2. g \in [Sites(t, r) -> A]
  BY <1>1
<1>3. \A i, j \in DOMAIN g : g[i] = g[j] => i = j
  BY <1>1
<1>4. g \in Injection(Sites(t, r), A)
  <2> HIDE DEF g
  <2> QED BY <1>2, <1>3 DEF Injection, IsInjective
<1>5. IsFiniteSet(A)
  BY SitesFinite, FS_Subset
<1> HIDE DEF g
<1>6. Cardinality(Sites(t, r)) <= Cardinality(A)
  BY <1>4, <1>5, FS_Injection
<1> QED BY <1>6, SitesFinite

LEMMA TimesRemoveFirst ==
  ASSUME NEW S, NEW q \in Seq(S), NEW e, NEW r
  PROVE  Times(RemoveFirst(q, e), r) >= IF r = e THEN Times(q, r) - 1 ELSE Times(q, r)
<1>1. CASE e \notin Range(q) /\ RemoveFirst(q, e) = q
  BY <1>1, SitesFinite
<1>2. CASE \E k \in 1..Len(q) : q[k] = e /\ RemoveFirst(q, e) = RemoveAt(q, k)
  <2>1. PICK k \in 1..Len(q) : q[k] = e /\ RemoveFirst(q, e) = RemoveAt(q, k)
    BY <1>2
  <2> DEFINE t == RemoveAt(q, k)
             A == Sites(q, r) \ {k}
             g == [i \in A |-> IF i < k THEN i ELSE i - 1]
  <2>2. /\ t \in Seq(S) /\ Len(t) = Len(q) - 1 /\ DOMAIN t = 1..Len(q)-1
        /\ \A i \in 1..k-1 : t[i] = q[i]
        /\ \A i \in k..Len(q)-1 : t[i] = q[i + 1]
    <3>1. /\ t \in Seq(S) /\ Len(t) = Len(q) - 1
          /\ \A i \in 1..k-1 : t[i] = q[i]
          /\ \A i \in k..Len(q)-1 : t[i] = q[i + 1]
      BY RemoveAtProperties
    <3> HIDE DEF t
    <3> QED BY <3>1
  <2> HIDE DEF t
  <2>3. ASSUME NEW i \in A
        PROVE  (IF i < k THEN i ELSE i - 1) \in Sites(t, r)
    <3>1. i \in 1..Len(q) /\ q[i] = r /\ i # k
      BY DEF Sites
    <3>2. CASE i < k
      <4>1. i \in 1..k-1 /\ i \in 1..Len(q)-1
        BY <3>1, <3>2
      <4> QED BY <2>2, <3>1, <3>2, <4>1 DEF Sites
    <3>3. CASE i > k
      <4>1. i - 1 \in k..Len(q)-1 /\ i - 1 \in 1..Len(q)-1 /\ i - 1 + 1 = i
        BY <3>1, <3>3
      <4>2. t[i - 1] = r
        BY <2>2, <3>1, <4>1
      <4> QED BY <2>2, <3>3, <4>1, <4>2 DEF Sites
    <3> QED BY <3>1, <3>2, <3>3
  <2>4. \A i \in A : i \in Nat /\ i # k
    BY DEF Sites
  <2>5. g \in [A -> Sites(t, r)]
    BY <2>3
  <2>6. \A i, j \in DOMAIN g : g[i] = g[j] => i = j
    BY <2>4
  <2>7. g \in Injection(A, Sites(t, r))
    <3> HIDE DEF g
    <3> QED BY <2>5, <2>6 DEF Injection, IsInjective
  <2>8. IsFiniteSet(Sites(t, r)) /\ Times(t, r) = Cardinality(Sites(t, r)) /\ Times(t, r) \in Nat
    BY <2>2, SitesFinite
  <2>9. Cardinality(A) <= Cardinality(Sites(t, r))
    <3> HIDE DEF g, A
    <3> QED BY <2>7, <2>8, FS_Injection
  <2>10. Cardinality(A) = IF k \in Sites(q, r) THEN Times(q, r) - 1 ELSE Times(q, r)
    <3>1. IsFiniteSet(Sites(q, r)) /\ Times(q, r) = Cardinality(Sites(q, r))
      BY SitesFinite
    <3> QED BY <3>1, FS_RemoveElement
  <2>11. k \in Sites(q, r) <=> r = e
    BY <2>1 DEF Sites
  <2>12. RemoveFirst(q, e) = t
    BY <2>1 DEF t
  <2> HIDE DEF A
  <2> QED BY <2>8, <2>9, <2>10, <2>11, <2>12
<1> QED BY <1>1, <1>2, RemoveFirstIs

(* The sites among the first i; Unqueue shifts by their number.             *)
Before(q, r, i) == {k \in Sites(q, r) : k <= i}

LEMMA BeforeCounts ==
  ASSUME NEW S, NEW q \in Seq(S), NEW r, NEW i \in 0..Len(q)
  PROVE  /\ Times(SubSeq(q, 1, i), r) = Cardinality(Before(q, r, i))
         /\ IsFiniteSet(Before(q, r, i)) /\ Cardinality(Before(q, r, i)) \in Nat
         /\ Cardinality(Before(q, r, i)) <= Times(q, r)
<1>1. Sites(SubSeq(q, 1, i), r) = Before(q, r, i)
  <2>1. DOMAIN SubSeq(q, 1, i) = 1..i /\ \A k \in 1..i : SubSeq(q, 1, i)[k] = q[k]
    OBVIOUS
  <2>2. DOMAIN q = 1..Len(q)
    OBVIOUS
  <2> QED BY <2>1, <2>2 DEF Sites, Before
<1>2. SubSeq(q, 1, i) \in Seq(S)
  OBVIOUS
<1>3. Before(q, r, i) \in SUBSET Sites(q, r)
  BY DEF Before
<1>4. /\ IsFiniteSet(Sites(q, r)) /\ Times(q, r) = Cardinality(Sites(q, r))
  BY SitesFinite
<1>5. IsFiniteSet(Before(q, r, i)) /\ Cardinality(Before(q, r, i)) <= Cardinality(Sites(q, r))
  BY <1>3, <1>4, FS_Subset
<1>6. Times(SubSeq(q, 1, i), r) = Cardinality(Sites(SubSeq(q, 1, i), r))
  BY DEF Times, Sites
<1>7. Cardinality(Before(q, r, i)) \in Nat
  BY <1>5, FS_CardinalityType
<1> QED BY <1>1, <1>4, <1>5, <1>6, <1>7

LEMMA BeforeGrows ==
  ASSUME NEW S, NEW q \in Seq(S), NEW r, NEW i \in 0..Len(q), NEW j \in i..Len(q)
  PROVE  Cardinality(Before(q, r, i)) <= Cardinality(Before(q, r, j))
<1>1. Before(q, r, i) \in SUBSET Before(q, r, j)
  BY DEF Before, Sites
<1>2. j \in 0..Len(q)
  OBVIOUS
<1>3. IsFiniteSet(Before(q, r, j))
  BY <1>2, BeforeCounts
<1> QED BY <1>1, <1>3, FS_Subset

LEMMA UnqueueIs ==
  ASSUME NEW S, NEW q \in Seq(S), NEW r
  PROVE  /\ Unqueue(q, r) \in Seq(S) /\ Len(Unqueue(q, r)) = Len(q) - Times(q, r)
         /\ \A i \in 1..Len(q) - Times(q, r) :
              /\ i + Cardinality(Before(q, r, i)) \in 1..Len(q)
              /\ Unqueue(q, r)[i] = q[i + Cardinality(Before(q, r, i))]
<1> DEFINE n == Len(q) - Times(q, r)
<1>1. n \in 0..Len(q)
  BY SitesFinite
<1>2. ASSUME NEW i \in 1..n
      PROVE  /\ i + Times(SubSeq(q, 1, i), r) \in 1..Len(q)
             /\ Times(SubSeq(q, 1, i), r) = Cardinality(Before(q, r, i))
  <2>1. i \in 0..Len(q)
    BY <1>1
  <2>2. Times(q, r) \in Nat
    BY SitesFinite
  <2> QED BY <2>1, <2>2, BeforeCounts
<1>3. Unqueue(q, r) = [i \in 1..n |-> q[i + Times(SubSeq(q, 1, i), r)]]
  BY DEF Unqueue
<1>4. \A i \in 1..Len(q) : q[i] \in S
  OBVIOUS
<1> HIDE DEF n
<1>5. Unqueue(q, r) \in [1..n -> S]
  BY <1>2, <1>3, <1>4
<1>6. n \in Nat
  BY <1>1
<1>7. Unqueue(q, r) \in Seq(S) /\ Len(Unqueue(q, r)) = n
  BY <1>5, <1>6
<1>8. \A i \in 1..n : Unqueue(q, r)[i] = q[i + Times(SubSeq(q, 1, i), r)]
  BY <1>3
<1> QED BY <1>2, <1>7, <1>8 DEF n

(* Unqueue takes what is asked for at least once away and adds nothing.     *)
LEMMA TimesUnqueue ==
  ASSUME NEW S, NEW q \in Seq(S), NEW e, NEW r
  PROVE  /\ Times(Unqueue(q, e), r) <= Times(q, r)
         /\ e \in Range(q) => Times(Unqueue(q, e), e) <= Times(q, e) - 1
         /\ Range(Unqueue(q, e)) \subseteq Range(q)
<1> DEFINE u == Unqueue(q, e)
           n == Len(q) - Times(q, e)
           c(i) == Cardinality(Before(q, e, i))
           f == [i \in 1..n |-> i + c(i)]
<1>1. /\ u \in Seq(S) /\ Len(u) = n /\ n \in 0..Len(q)
      /\ \A i \in 1..n : i + c(i) \in 1..Len(q) /\ u[i] = q[i + c(i)]
  <2>1. Times(q, e) \in Nat /\ Times(q, e) <= Len(q)
    BY SitesFinite
  <2> QED BY <2>1, UnqueueIs
<1>2. \A i \in 1..n : c(i) \in Nat
  <2> TAKE i \in 1..n
  <2>1. i \in 0..Len(q)
    BY <1>1
  <2> QED BY <2>1, BeforeCounts
<1>3. \A i \in 1..n : \A j \in i..n : c(i) <= c(j)
  <2> TAKE i \in 1..n
  <2> TAKE j \in i..n
  <2>1. i \in 0..Len(q) /\ j \in i..Len(q)
    BY <1>1
  <2> QED BY <2>1, BeforeGrows
<1>4. ASSUME NEW i \in 1..n, NEW j \in 1..n, i + c(i) = j + c(j)
      PROVE  i = j
  <2> HIDE DEF c
  <2>1. CASE i < j
    <3>1. j \in i..n /\ c(i) \in Nat /\ c(j) \in Nat
      BY <1>2, <2>1
    <3>2. c(i) <= c(j)
      BY <1>3, <3>1
    <3> QED BY <1>4, <2>1, <3>1, <3>2
  <2>2. CASE j < i
    <3>1. i \in j..n /\ c(i) \in Nat /\ c(j) \in Nat
      BY <1>2, <2>2
    <3>2. c(j) <= c(i)
      BY <1>3, <3>1
    <3> QED BY <1>4, <2>2, <3>1, <3>2
  <2> QED BY <2>1, <2>2
<1> HIDE DEF u, c
<1>5. f \in [1..n -> 1..Len(q)] /\ \A i \in 1..n : f[i] = i + c(i)
  BY <1>1
<1>6. \A i, j \in 1..n : f[i] = f[j] => i = j
  BY <1>4, <1>5
<1>7. \A i \in 1..n : u[i] = q[f[i]] /\ f[i] \in DOMAIN q
  BY <1>1, <1>5
<1> HIDE DEF f, n
<1>8. Times(u, r) <= Times(q, r)
  <2>1. \A i \in 1..Len(u) : u[i] = r => f[i] \in Sites(q, r)
    BY <1>1, <1>7 DEF Sites
  <2>2. Sites(q, r) \in SUBSET Sites(q, r)
    OBVIOUS
  <2>3. f \in [1..Len(u) -> 1..Len(q)] /\ \A i, j \in 1..Len(u) : f[i] = f[j] => i = j
    BY <1>1, <1>5, <1>6
  <2>4. Times(u, r) <= Cardinality(Sites(q, r))
    BY <1>1, <2>1, <2>2, <2>3, TimesInjected
  <2> QED BY <2>4, SitesFinite
<1>9. ASSUME e \in Range(q)
      PROVE  Times(u, e) <= Times(q, e) - 1
  <2>1. Sites(q, e) \in SUBSET Nat /\ Sites(q, e) # {}
    BY <1>9 DEF Sites, Range
  <2>2. PICK k \in Sites(q, e) : \A j \in Sites(q, e) : k <= j
    BY <2>1, LeastExists
  <2>3. ASSUME NEW i \in 1..n
        PROVE  f[i] # k
    <3>1. k \in Nat /\ i \in Nat /\ i \in 0..Len(q) /\ k \in DOMAIN q
      BY <1>1, <2>1 DEF Sites
    <3>2. CASE i < k
      <4>1. Before(q, e, i) = {}
        BY <2>2, <3>1, <3>2, <2>1 DEF Before
      <4>2. c(i) = 0
        BY <4>1, FS_EmptySet DEF c
      <4> QED BY <1>5, <3>1, <3>2, <4>2
    <3>3. CASE i >= k
      <4>1. k \in Before(q, e, i)
        BY <3>1, <3>3 DEF Before
      <4>2. IsFiniteSet(Before(q, e, i)) /\ c(i) \in Nat
        BY <3>1, BeforeCounts DEF c
      <4>3. c(i) # 0
        BY <4>1, <4>2, FS_EmptySet DEF c
      <4> QED BY <1>5, <3>1, <3>3, <4>2, <4>3
    <3> QED BY <3>1, <3>2, <3>3
  <2> DEFINE A == Sites(q, e) \ {k}
  <2>4. A \in SUBSET Sites(q, e)
    OBVIOUS
  <2>5. \A i \in 1..Len(u) : u[i] = e => f[i] \in A
    BY <1>1, <1>7, <2>3 DEF Sites
  <2>6. f \in [1..Len(u) -> 1..Len(q)] /\ \A i, j \in 1..Len(u) : f[i] = f[j] => i = j
    BY <1>1, <1>5, <1>6
  <2>7. Times(u, e) <= Cardinality(A)
    <3> HIDE DEF A
    <3> QED BY <1>1, <2>4, <2>5, <2>6, TimesInjected
  <2>8. IsFiniteSet(Sites(q, e)) /\ Times(q, e) = Cardinality(Sites(q, e))
    BY SitesFinite
  <2>9. Cardinality(Sites(q, e) \ {k}) = Times(q, e) - 1
    BY <2>8, FS_RemoveElement
  <2> QED BY <2>7, <2>9
<1>10. Range(u) \subseteq Range(q)
  <2>1. DOMAIN u = 1..n
    BY <1>1
  <2> QED BY <1>7, <2>1 DEF Range
<1> QED BY <1>8, <1>9, <1>10 DEF u

-----------------------------------------------------------------------------
(* The inductive invariant.                                                *)

PartType == [piece : Pieces, filled : SUBSET Blocks, next : Nat, isdone : BOOLEAN, bad : SUBSET Blocks]

DlType ==
  [completed : SUBSET Pieces, requested : SUBSET Pieces, interested : SUBSET Pieces,
   partial : Seq(PartType), pset : Seq(Peers), incomplete : Int, interestedpeers : Int]

State == [dl : DlType, peer : [Peers -> PeerType]]

PartsSound(d) ==
  /\ \A i, j \in DOMAIN d.partial : d.partial[i].piece = d.partial[j].piece => i = j
  /\ \A i \in DOMAIN d.partial : d.partial[i].piece \notin d.completed
  /\ d.interested \cap d.completed = {}

SetSound(S) == IsInjective(S.dl.pset) /\ Range(S.dl.pset) = {p \in Peers : S.peer[p].joined}

MarksSound(S) == \A b \in S.dl.requested \ S.dl.completed : \E q \in Peers : S.peer[q].current = b

(* Who may download from us, and how many are. *)
Upload(r) == r.state = "GOOD" /\ ~r.lchoked
NoNewUpload(r, s) == Upload(s) => Upload(r)
FewSound(S) ==
  LET up == {p \in Peers : Upload(S.peer[p])} IN IsFiniteSet(up) /\ Cardinality(up) <= DOWNLOADS

Whole(S) == S \in State /\ PartsSound(S.dl) /\ SetSound(S) /\ MarksSound(S) /\ FewSound(S)

(* What a peer is in the middle of; it need not know yet of the pieces B.  *)
Asking(r, d, B) ==
  /\ r.current # NoPiece => r.joined /\ (HasPart(d, r.current) \/ r.current \in B)
  /\ \A i \in DOMAIN r.inqueue : r.inqueue[i][1] = r.current
  /\ \A rq \in Pieces \X Blocks : Times(r.inqueue, rq) <= Times(r.wire, rq)

Phases(r) ==
  /\ r.state \in {"NONE", "INIT", "OUTGOING", "INCOMING"} => r.rchoked /\ r.lchoked
  /\ r.state = "NONE" => ~r.joined
  /\ r.state = "GOOD" => r.joined

Timed(r) ==
  /\ r.rtimer /\ ~r.down => ~r.rchoked /\ r.linterested
  /\ r.ltimer => ~r.lchoked /\ r.rinterested

Owed(r, d) == r.queue # <<>> => ~r.lchoked /\ Range(r.queue) \subseteq d.completed

Told(r, d, B) ==
  r.joined /\ r.state \in {"OUTGOING", "INCOMING", "GOOD"} =>
    d.completed \ B \subseteq r.told \cup r.missed

Proper(r, d, B) == Asking(r, d, B) /\ Phases(r) /\ Timed(r) /\ Owed(r, d) /\ Told(r, d, B)

(* A peer is never left without a piece nor on one with nothing asked for.  *)
Busy(r, d) ==
  /\ r.current # NoPiece => r.inqueue # <<>>
  /\ r.state = "GOOD" /\ ~r.down /\ ~r.rchoked /\ Interesting(d, r) # {} => r.current # NoPiece

(* The peers of U need not know of the pieces B, those of L be busy.       *)
Sound(S, B, U, L) ==
  /\ Whole(S)
  /\ \A p \in Peers : /\ Proper(S.peer[p], S.dl, IF p \in U THEN B ELSE {})
                      /\ p \notin L => Busy(S.peer[p], S.dl)

IInv == Sound(Now, {}, {}, {})

(* A step that changes no piece's state as the other peers see it.         *)
Keeps(d, e) ==
  /\ e.completed = d.completed /\ e.interested = d.interested
  /\ \A c \in Pieces : HasPart(d, c) => HasPart(e, c)

LEMMA ProperKept ==
  ASSUME NEW d, NEW e, Keeps(d, e), NEW r \in PeerType, NEW B
  PROVE  /\ Proper(r, d, B) => Proper(r, e, B)
         /\ Busy(r, d) => Busy(r, e)
<1>1. r.current \in Pieces \cup {NoPiece}
  BY DEF PeerType
<1>2. Asking(r, d, B) => Asking(r, e, B)
  BY <1>1 DEF Keeps, Asking
<1>3. (Owed(r, d) => Owed(r, e)) /\ (Told(r, d, B) => Told(r, e, B))
  BY DEF Keeps, Owed, Told
<1>4. Busy(r, d) => Busy(r, e)
  BY DEF Keeps, Busy, Interesting
<1> QED BY <1>2, <1>3, <1>4 DEF Proper

(* Changing one peer of a state.                                           *)
LEMMA OnePeer ==
  ASSUME NEW S \in State, NEW p \in Peers, NEW s \in PeerType
  PROVE  [S EXCEPT !.peer[p] = s] = [S EXCEPT !.peer = [S.peer EXCEPT ![p] = s]]
OBVIOUS

LEMMA Unfold ==
  ASSUME NEW S, NEW B, NEW U, NEW L, Sound(S, B, U, L), NEW p \in Peers
  PROVE  /\ S \in State /\ S.dl \in DlType /\ S.peer \in [Peers -> PeerType]
         /\ S.peer[p] \in PeerType
         /\ PartsSound(S.dl) /\ SetSound(S) /\ MarksSound(S) /\ FewSound(S)
         /\ Proper(S.peer[p], S.dl, IF p \in U THEN B ELSE {})
         /\ p \notin L => Busy(S.peer[p], S.dl)
<1>1. S \in State /\ PartsSound(S.dl) /\ SetSound(S) /\ MarksSound(S) /\ FewSound(S)
  BY DEF Sound, Whole
<1>2. S.dl \in DlType /\ S.peer \in [Peers -> PeerType]
  BY <1>1 DEF State
<1> QED BY <1>1, <1>2 DEF Sound

-----------------------------------------------------------------------------
(* The partial pieces.                                                     *)

LEMMA BlocksAre ==
  /\ NBlocks \in Nat \ {0} /\ 0 \in Blocks /\ Blocks \in SUBSET Nat
  /\ \A n \in Nat : n < NBlocks => n \in Blocks
BY SwarmAssumption DEF Blocks

LEMMA PiecesAre == Pieces \in SUBSET Nat /\ NoPiece \notin Pieces
BY SwarmAssumption DEF NoPiece

LEMMA PlaceIs ==
  ASSUME NEW d \in DlType, NEW b, HasPart(d, b)
  PROVE  Place(d, b) \in 1..Len(d.partial) /\ d.partial[Place(d, b)].piece = b
<1>1. d.partial \in Seq(PartType) /\ DOMAIN d.partial = 1..Len(d.partial)
  BY DEF DlType
<1> QED BY <1>1 DEF Place, HasPart

LEMMA PartIs ==
  ASSUME NEW d \in DlType, NEW b, HasPart(d, b)
  PROVE  Part(d, b) \in PartType /\ Part(d, b).piece = b
<1>1. d.partial \in Seq(PartType)
  BY DEF DlType
<1> QED BY <1>1, PlaceIs DEF Part

LEMMA FirstClrIs ==
  ASSUME NEW pp \in PartType
  PROVE  FirstClr(pp) \in Blocks
<1>1. pp.filled \in SUBSET Blocks
  BY DEF PartType
<1>2. CASE pp.filled = Blocks
  BY <1>2, BlocksAre DEF FirstClr
<1>3. CASE pp.filled # Blocks
  <2> DEFINE C == Blocks \ pp.filled
  <2>1. C \in SUBSET Nat /\ C # {}
    BY <1>1, <1>3, BlocksAre
  <2>2. PICK m \in C : \A y \in C : m <= y
    <3> HIDE DEF C
    <3> QED BY <2>1, LeastExists
  <2>3. 0..m-1 \subseteq pp.filled
    <3> SUFFICES ASSUME NEW k \in 0..m-1 PROVE k \in pp.filled
      OBVIOUS
    <3>1. k \in Blocks
      BY <2>1, <2>2, SwarmAssumption DEF Blocks
    <3>2. ~(m <= k)
      BY <2>1, <2>2
    <3> QED BY <2>2, <3>1, <3>2
  <2> QED BY <1>3, <2>2, <2>3 DEF FirstClr
<1> QED BY <1>2, <1>3

(* Changing what is known of one partial piece.                            *)
LEMMA SetPartSound ==
  ASSUME NEW d \in DlType, NEW b, HasPart(d, b), NEW pp \in PartType, pp.piece = b,
         PartsSound(d)
  PROVE  /\ SetPart(d, b, pp) \in DlType /\ PartsSound(SetPart(d, b, pp))
         /\ Keeps(d, SetPart(d, b, pp))
         /\ SetPart(d, b, pp).requested = d.requested /\ SetPart(d, b, pp).pset = d.pset
<1> DEFINE k == Place(d, b)
           q == [d.partial EXCEPT ![k] = pp]
           e == SetPart(d, b, pp)
<1>1. /\ d.partial \in Seq(PartType) /\ DOMAIN d.partial = 1..Len(d.partial)
      /\ k \in 1..Len(d.partial) /\ d.partial[k].piece = b
  BY PlaceIs DEF DlType
<1>2. e = [d EXCEPT !.partial = q]
  BY DEF SetPart
<1> HIDE DEF k
<1>3. /\ q \in Seq(PartType) /\ DOMAIN q = DOMAIN d.partial
      /\ \A i \in DOMAIN q : q[i].piece = d.partial[i].piece
  BY <1>1
<1> HIDE DEF q, e
<1>4. e \in DlType
  BY <1>2, <1>3 DEF DlType
<1>5. /\ e.partial = q /\ e.completed = d.completed /\ e.interested = d.interested
      /\ e.requested = d.requested /\ e.pset = d.pset
  BY <1>2 DEF DlType
<1>6. PartsSound(e)
  BY <1>3, <1>5 DEF PartsSound
<1>7. Keeps(d, e)
  BY <1>3, <1>5 DEF Keeps, HasPart
<1> QED BY <1>4, <1>5, <1>6, <1>7 DEF e

LEMMA GetPieceSound ==
  ASSUME NEW d \in DlType, NEW b \in Pieces, PartsSound(d), b \notin d.completed
  PROVE  /\ GetPiece(d, b) \in DlType /\ PartsSound(GetPiece(d, b))
         /\ Keeps(d, GetPiece(d, b)) /\ HasPart(GetPiece(d, b), b)
         /\ GetPiece(d, b).requested = d.requested /\ GetPiece(d, b).pset = d.pset
<1>1. CASE HasPart(d, b)
  BY <1>1 DEF GetPiece, Keeps
<1>2. CASE ~HasPart(d, b)
  <2> DEFINE e == GetPiece(d, b)
             f == FreshPiece(b)
             q == Append(d.partial, f)
             n == Len(d.partial) + 1
  <2>1. f \in PartType /\ f.piece = b
    BY BlocksAre DEF FreshPiece, PartType
  <2>2. e = [d EXCEPT !.partial = q]
    BY <1>2 DEF GetPiece
  <2>3. d.partial \in Seq(PartType) /\ DOMAIN d.partial = 1..Len(d.partial)
    BY DEF DlType
  <2> HIDE DEF f
  <2>4. /\ q \in Seq(PartType) /\ DOMAIN q = 1..n /\ q[n] = f
        /\ \A i \in DOMAIN d.partial : i \in DOMAIN q /\ i # n /\ q[i] = d.partial[i]
        /\ \A i \in DOMAIN q : i = n \/ i \in DOMAIN d.partial
    BY <2>1, <2>3
  <2>5. n \in DOMAIN q
    BY <2>3, <2>4
  <2> HIDE DEF q, e, n
  <2>6. e \in DlType
    BY <2>2, <2>4 DEF DlType
  <2>7. /\ e.partial = q /\ e.completed = d.completed /\ e.interested = d.interested
        /\ e.requested = d.requested /\ e.pset = d.pset
    BY <2>2 DEF DlType
  <2>8. \A i \in DOMAIN d.partial : d.partial[i].piece # b
    BY <1>2 DEF HasPart
  <2>9. PartsSound(e)
    <3>1. \A i, j \in DOMAIN q : q[i].piece = q[j].piece => i = j
      BY <2>1, <2>4, <2>8 DEF PartsSound
    <3>2. \A i \in DOMAIN q : q[i].piece \notin d.completed
      BY <2>1, <2>4 DEF PartsSound
    <3> QED BY <2>7, <3>1, <3>2 DEF PartsSound
  <2>10. Keeps(d, e)
    BY <2>4, <2>7 DEF Keeps, HasPart
  <2>11. HasPart(e, b)
    BY <2>1, <2>4, <2>5, <2>7 DEF HasPart
  <2> QED BY <2>6, <2>7, <2>9, <2>10, <2>11 DEF e
<1> QED BY <1>1, <1>2

LEMMA Marking ==
  ASSUME NEW d \in DlType, NEW R \in SUBSET Pieces, PartsSound(d)
  PROVE  LET e == [d EXCEPT !.requested = R] IN
         /\ e \in DlType /\ PartsSound(e) /\ Keeps(d, e)
         /\ e.requested = R /\ e.pset = d.pset /\ e.partial = d.partial
BY DEF DlType, PartsSound, Keeps, HasPart

LEMMA GiveBackSound ==
  ASSUME NEW d \in DlType, NEW b \in Pieces \cup {NoPiece}, PartsSound(d),
         b # NoPiece => HasPart(d, b)
  PROVE  /\ GiveBack(d, b) \in DlType /\ PartsSound(GiveBack(d, b))
         /\ Keeps(d, GiveBack(d, b)) /\ GiveBack(d, b).pset = d.pset
         /\ GiveBack(d, b).requested = d.requested \ {b}
<1>1. CASE b = NoPiece
  <2>1. d.requested \ {b} = d.requested
    BY <1>1, PiecesAre DEF DlType
  <2> QED BY <1>1, <2>1 DEF GiveBack, Keeps
<1>2. CASE b # NoPiece
  <2> DEFINE e == [d EXCEPT !.requested = @ \ {b}]
             pp == [Part(d, b) EXCEPT !.next = FirstClr(Part(d, b))]
  <2>1. /\ e \in DlType /\ PartsSound(e) /\ Keeps(d, e) /\ e.requested = d.requested \ {b}
        /\ e.pset = d.pset
    <3>1. d.requested \ {b} \in SUBSET Pieces
      BY DEF DlType
    <3> QED BY <3>1, Marking
  <2>2. pp \in PartType /\ pp.piece = b
    <3>1. Part(d, b) \in PartType /\ Part(d, b).piece = b
      BY <1>2, PartIs
    <3>2. FirstClr(Part(d, b)) \in Nat
      BY <3>1, FirstClrIs, BlocksAre
    <3> QED BY <3>1, <3>2 DEF PartType
  <2>3. HasPart(e, b)
    BY <1>2, <2>1 DEF Keeps
  <2>4. GiveBack(d, b) = SetPart(e, b, pp)
    BY <1>2 DEF GiveBack
  <2> HIDE DEF e, pp
  <2>5. /\ SetPart(e, b, pp) \in DlType /\ PartsSound(SetPart(e, b, pp))
        /\ Keeps(e, SetPart(e, b, pp))
        /\ SetPart(e, b, pp).requested = e.requested /\ SetPart(e, b, pp).pset = e.pset
    BY <2>1, <2>2, <2>3, SetPartSound
  <2>6. Keeps(d, SetPart(e, b, pp))
    BY <2>1, <2>5 DEF Keeps
  <2> QED BY <2>1, <2>4, <2>5, <2>6
<1> QED BY <1>1, <1>2

-----------------------------------------------------------------------------
(* One step of one peer.                                                   *)

LEMMA FewKept ==
  ASSUME NEW S, FewSound(S), NEW T, \A q \in Peers : NoNewUpload(S.peer[q], T.peer[q])
  PROVE  FewSound(T)
<1> DEFINE up == {q \in Peers : Upload(S.peer[q])}
           now == {q \in Peers : Upload(T.peer[q])}
<1>1. IsFiniteSet(up) /\ Cardinality(up) <= DOWNLOADS
  BY DEF FewSound
<1>2. now \subseteq up
  BY DEF NoNewUpload
<1> HIDE DEF up, now
<1>3. IsFiniteSet(now) /\ Cardinality(now) <= Cardinality(up)
      /\ Cardinality(now) \in Nat /\ Cardinality(up) \in Nat
  BY <1>1, <1>2, FS_Subset, FS_CardinalityType
<1>4. Cardinality(now) <= DOWNLOADS
  BY <1>1, <1>3, SwarmAssumption
<1> QED BY <1>3, <1>4 DEF FewSound, now

(* An operation that leaves state and choking of a peer alone, or makes it *)
(* no good or choked, lets nobody upload.                                  *)
LEMMA UploadKept ==
  ASSUME NEW r, NEW s, s.state = r.state \/ s.state # "GOOD", s.lchoked = r.lchoked \/ s.lchoked
  PROVE  NoNewUpload(r, s)
BY DEF NoNewUpload, Upload

OthersAlike(S, T, p) ==
  /\ T.dl.pset = S.dl.pset /\ Keeps(S.dl, T.dl) /\ NoNewUpload(S.peer[p], T.peer[p])
  /\ \A q \in Peers \ {p} : T.peer[q] = S.peer[q]

(* A state in which one peer of a sound one has changed.                   *)
LEMMA PeerStep ==
  ASSUME NEW S, NEW B, NEW U, NEW L, NEW M, Sound(S, B, U, L),
         NEW p \in Peers, NEW T \in State, OthersAlike(S, T, p), PartsSound(T.dl),
         T.peer[p].joined = S.peer[p].joined,
         \A b \in T.dl.requested \ S.dl.requested : T.peer[p].current = b,
         S.peer[p].current \in T.dl.requested \ T.dl.completed
           => T.peer[p].current = S.peer[p].current,
         L \subseteq M \cup {p},
         Proper(T.peer[p], T.dl, IF p \in U THEN B ELSE {}),
         p \notin M => Busy(T.peer[p], T.dl)
  PROVE  Sound(T, B, U, M)
<1>1. /\ S \in State /\ S.dl \in DlType /\ S.peer \in [Peers -> PeerType] /\ PartsSound(S.dl)
      /\ SetSound(S) /\ MarksSound(S) /\ T.peer \in [Peers -> PeerType]
  BY Unfold DEF State
<1>2. /\ T.dl.pset = S.dl.pset /\ Keeps(S.dl, T.dl) /\ T.dl.completed = S.dl.completed
      /\ \A q \in Peers : q # p => T.peer[q] = S.peer[q]
  BY DEF OthersAlike, Keeps
<1>3. SetSound(T)
  <2>1. \A q \in Peers : T.peer[q].joined = S.peer[q].joined
    BY <1>2
  <2>2. {q \in Peers : T.peer[q].joined} = {q \in Peers : S.peer[q].joined}
    BY <2>1
  <2> QED BY <1>1, <1>2, <2>2 DEF SetSound
<1>4. ASSUME NEW b \in T.dl.requested \ T.dl.completed
      PROVE  \E q \in Peers : T.peer[q].current = b
  <2>1. CASE b \notin S.dl.requested
    BY <2>1
  <2>2. CASE b \in S.dl.requested
    <3>1. PICK q \in Peers : S.peer[q].current = b
      BY <1>1, <1>2, <1>4, <2>2 DEF MarksSound
    <3>2. T.peer[q].current = b
      BY <1>2, <1>4, <3>1
    <3> QED BY <3>2
  <2> QED BY <2>1, <2>2
<1>5. Whole(T)
  <2>1. \A q \in Peers : NoNewUpload(S.peer[q], T.peer[q])
    BY <1>2 DEF OthersAlike, NoNewUpload
  <2>2. FewSound(T)
    BY <2>1, Unfold, FewKept
  <2> QED BY <1>3, <1>4, <2>2 DEF Whole, MarksSound
<1>6. ASSUME NEW q \in Peers
      PROVE  /\ Proper(T.peer[q], T.dl, IF q \in U THEN B ELSE {})
             /\ q \notin M => Busy(T.peer[q], T.dl)
  <2>1. CASE q = p
    BY <2>1
  <2>2. CASE q # p
    <3>1. S.peer[q] \in PeerType
      BY <1>1
    <3>2. /\ Proper(S.peer[q], S.dl, IF q \in U THEN B ELSE {})
          /\ q \notin L => Busy(S.peer[q], S.dl)
      BY Unfold
    <3>3. T.peer[q] = S.peer[q] /\ (q \notin M => q \notin L)
      BY <1>2, <2>2
    <3> QED BY <1>2, <3>1, <3>2, <3>3, ProperKept
  <2> QED BY <2>1, <2>2
<1> QED BY <1>5, <1>6 DEF Sound

(* The same when no piece changes hands and only p is written.             *)
LEMMA PeerOnly ==
  ASSUME NEW S, NEW B, NEW U, NEW L, NEW M, Sound(S, B, U, L), NEW p \in Peers, NEW s \in PeerType,
         s.joined = S.peer[p].joined, s.current = S.peer[p].current, NoNewUpload(S.peer[p], s),
         L \subseteq M \cup {p},
         Proper(s, S.dl, IF p \in U THEN B ELSE {}), p \notin M => Busy(s, S.dl)
  PROVE  LET T == [S EXCEPT !.peer = [S.peer EXCEPT ![p] = s]] IN
         /\ Sound(T, B, U, M) /\ OthersAlike(S, T, p)
         /\ T \in State /\ T.dl = S.dl /\ T.peer[p] = s
         /\ \A q \in Peers \ {p} : T.peer[q] = S.peer[q]
<1> DEFINE T == [S EXCEPT !.peer = [S.peer EXCEPT ![p] = s]]
<1>1. S \in State /\ S.peer \in [Peers -> PeerType] /\ PartsSound(S.dl)
  BY Unfold
<1>2. /\ T \in State /\ T.dl = S.dl /\ T.peer[p] = s
      /\ \A q \in Peers \ {p} : T.peer[q] = S.peer[q]
  BY <1>1 DEF State
<1>3. OthersAlike(S, T, p)
  BY <1>2 DEF OthersAlike, Keeps
<1> HIDE DEF T
<1>4. \A b \in T.dl.requested \ S.dl.requested : T.peer[p].current = b
  BY <1>2
<1>5. Sound(T, B, U, M)
  BY <1>1, <1>2, <1>3, <1>4, PeerStep
<1> QED BY <1>2, <1>3, <1>5 DEF T

(* Interest and the timer of the rate written.                             *)
Retimed(r, s) == \E i, t \in BOOLEAN : s = [r EXCEPT !.linterested = i, !.rtimer = t]

(* We say we are interested if and only if we are.                         *)
Aware(r, d) == r.linterested <=> Interesting(d, r) # {}

LEMMA UpdateInterestedSound ==
  ASSUME NEW S, NEW B, NEW U, NEW L, Sound(S, B, U, L), NEW p \in Peers,
         NEW T, T = UpdateInterested(S, p)
  PROVE  /\ Sound(T, B, U, L) /\ OthersAlike(S, T, p) /\ T.dl = S.dl
         /\ Aware(T.peer[p], T.dl)
         /\ Retimed(S.peer[p], T.peer[p])
<1>1. PICK r \in PeerType : r = S.peer[p]
  BY Unfold
<1>2. PICK i \in BOOLEAN : i <=> Interesting(S.dl, r) # {}
  OBVIOUS
<1>3. PICK t \in BOOLEAN : t <=> r.rtimer /\ (i \/ r.rchoked \/ r.down)
  OBVIOUS
<1>4. PICK s : s = [r EXCEPT !.linterested = i, !.rtimer = t]
  OBVIOUS
<1>5. /\ S \in State /\ S.peer \in [Peers -> PeerType]
      /\ Proper(r, S.dl, IF p \in U THEN B ELSE {})
      /\ p \notin L => Busy(r, S.dl)
  BY <1>1, Unfold
<1>6. CASE i = r.linterested
  <2>1. T = S
    BY <1>1, <1>2, <1>6 DEF UpdateInterested, PeerType
  <2>2. OthersAlike(S, T, p)
    BY <2>1 DEF OthersAlike, Keeps, NoNewUpload
  <2>3. r = [r EXCEPT !.linterested = i, !.rtimer = r.rtimer] /\ r.rtimer \in BOOLEAN
    BY <1>6 DEF PeerType
  <2>4. Retimed(r, r)
    BY <2>3 DEF Retimed
  <2>5. Aware(r, S.dl)
    BY <1>2, <1>6 DEF Aware
  <2> QED BY <1>1, <2>1, <2>2, <2>4, <2>5
<1>7. CASE i # r.linterested
  <2>1. s = [r EXCEPT !.linterested = i, !.rtimer = r.rtimer /\ (i \/ r.rchoked \/ r.down)]
    BY <1>3, <1>4 DEF PeerType
  <2>2. T = [S EXCEPT !.peer[p] = s]
    <3>1. (Interesting(S.dl, S.peer[p]) # {}) = i
      BY <1>1, <1>2
    <3>2. UpdateInterested(S, p) =
            IF i = r.linterested THEN S
            ELSE [S EXCEPT !.peer[p] = [r EXCEPT !.linterested = i,
                                                 !.rtimer = r.rtimer /\ (i \/ r.rchoked \/ r.down)]]
      BY <1>1, <3>1, Zenon DEF UpdateInterested
    <3> QED BY <1>7, <2>1, <3>2, Zenon
  <2>3. /\ s \in PeerType /\ s.linterested = i /\ s.rtimer = t /\ s.joined = r.joined
        /\ s.current = r.current /\ s.inqueue = r.inqueue /\ s.wire = r.wire /\ s.state = r.state
        /\ s.down = r.down /\ s.rchoked = r.rchoked /\ s.ltimer = r.ltimer /\ s.lchoked = r.lchoked
        /\ s.rinterested = r.rinterested /\ s.queue = r.queue /\ s.told = r.told
        /\ s.missed = r.missed /\ s.blocks = r.blocks
    BY ZenonT(60), <1>4 DEF PeerType
  <2>4. T = [S EXCEPT !.peer = [S.peer EXCEPT ![p] = s]]
    BY <1>5, <2>2, <2>3, OnePeer
  <2>5. Timed(s)
    <3>1. Timed(r)
      BY <1>5 DEF Proper
    <3> QED BY <1>3, <2>3, <3>1 DEF Timed
  <2>6. Proper(s, S.dl, IF p \in U THEN B ELSE {})
    BY <1>5, <2>3, <2>5 DEF Proper, Asking, Phases, Owed, Told
  <2>7. p \notin L => Busy(s, S.dl)
    BY <1>5, <2>3 DEF Busy, Interesting
  <2>8. /\ Sound(T, B, U, L) /\ OthersAlike(S, T, p) /\ T.dl = S.dl /\ T.peer[p] = s
    <3>1. NoNewUpload(r, s)
      BY <2>3 DEF NoNewUpload, Upload
    <3> QED BY <1>1, <2>3, <2>4, <2>6, <2>7, <3>1, PeerOnly
  <2>9. Retimed(r, s)
    BY <1>4 DEF Retimed
  <2>10. Aware(s, S.dl)
    BY <1>2, <2>3 DEF Aware, Interesting
  <2> QED BY <1>1, <2>8, <2>9, <2>10
<1> QED BY <1>6, <1>7

LEMMA OthersTrans ==
  ASSUME NEW S, NEW T, NEW X, NEW p, OthersAlike(S, T, p), OthersAlike(T, X, p)
  PROVE  OthersAlike(S, X, p)
BY DEF OthersAlike, Keeps, NoNewUpload

LEMMA LetOff ==
  ASSUME NEW S, NEW B, NEW U, NEW L, NEW M, Sound(S, B, U, L),
         \A p \in L \ M : p \in Peers => Busy(S.peer[p], S.dl)
  PROVE  Sound(S, B, U, M)
BY DEF Sound

-----------------------------------------------------------------------------
(* Asking for blocks.                                                      *)

(* A piece nobody has finished; none only if p has nothing we want.        *)
LEMMA AssignedIs ==
  ASSUME NEW S \in State, PartsSound(S.dl), NEW p \in Peers, NEW o, NEW b, b = AssignedPiece(S, p, o)
  PROVE  /\ b = NoPiece => Interesting(S.dl, S.peer[p]) = {}
         /\ b # NoPiece => b \in Pieces \ S.dl.completed
<1> DEFINE d == S.dl
           r == S.peer[p]
           c == PickBlock(d.requested, r, d, o.wish[p])
           e == PickBlock(d.completed, r, d, o.wish[p])
<1>1. /\ d.partial \in Seq(PartType) /\ d.interested \in SUBSET Pieces
      /\ r.blocks \in SUBSET Pieces
  BY DEF State, DlType, PeerType
<1>2. ASSUME NEW taken, NEW w
      PROVE  LET s == (r.blocks \cap d.interested) \ taken
                 f == PickBlock(taken, r, d, w)
             IN (f = NoPiece /\ s = {}) \/ (f # NoPiece /\ f \in s)
  <2> DEFINE s == (r.blocks \cap d.interested) \ taken
  <2>1. s \in SUBSET Nat /\ NoPiece \notin s
    BY <1>1, PiecesAre
  <2>2. s # {} => Min(s) \in s
    <3> HIDE DEF s
    <3> QED BY <2>1, MinProperties
  <2>3. PickBlock(taken, r, d, w) = IF s = {} THEN NoPiece ELSE IF w \in s THEN w ELSE Min(s)
    BY DEF PickBlock
  <2> HIDE DEF s
  <2>4. \/ PickBlock(taken, r, d, w) = NoPiece /\ s = {}
        \/ PickBlock(taken, r, d, w) # NoPiece /\ PickBlock(taken, r, d, w) \in s
    BY <2>1, <2>2, <2>3
  <2> QED BY <2>4 DEF s
<1>3. PICK I \in SUBSET (1..Len(d.partial)) :
        b = LET i == IF I # {} THEN Min(I) ELSE 0
            IN IF i # 0 THEN d.partial[i].piece ELSE IF c # NoPiece THEN c ELSE e
  BY DEF AssignedPiece, SelectInSeq
<1>4. I # {} => Min(I) \in 1..Len(d.partial) /\ Min(I) # 0
  <2>1. I \in SUBSET Nat
    OBVIOUS
  <2>2. I # {} => Min(I) \in I
    BY <2>1, MinProperties
  <2>3. \A i \in I : i \in 1..Len(d.partial) /\ i # 0
    BY <1>1
  <2> QED BY <2>2, <2>3
<1>5. \A i \in 1..Len(d.partial) : d.partial[i].piece \in Pieces \ d.completed
  <2>1. \A i \in 1..Len(d.partial) : d.partial[i] \in PartType /\ i \in DOMAIN d.partial
    BY <1>1
  <2>2. \A i \in 1..Len(d.partial) : d.partial[i].piece \in Pieces
    BY <2>1 DEF PartType
  <2>3. \A i \in DOMAIN d.partial : d.partial[i].piece \notin d.completed
    BY DEF PartsSound
  <2> QED BY <2>1, <2>2, <2>3
<1>6. (c = NoPiece \/ c \in Pieces \ d.completed) /\ (e = NoPiece \/ e \in Pieces \ d.completed)
  BY <1>1, <1>2 DEF PartsSound
<1>7. e = NoPiece => Interesting(d, r) = {}
  BY <1>2 DEF Interesting
<1> HIDE DEF c, e, d, r
<1>8. CASE I # {}
  <2>1. b = d.partial[Min(I)].piece
    BY <1>3, <1>4, <1>8
  <2> QED BY <1>4, <1>5, <1>8, <2>1, PiecesAre DEF d
<1>9. CASE I = {}
  <2>1. b = IF c # NoPiece THEN c ELSE e
    BY <1>3, <1>9
  <2> QED BY <1>6, <1>7, <2>1 DEF d, r
<1> QED BY <1>8, <1>9

LEMMA AssignBlockSound ==
  ASSUME NEW S, NEW B, NEW U, NEW L, Sound(S, B, U, L), NEW p \in Peers,
         S.peer[p].joined, S.peer[p].current = NoPiece, NEW o,
         NEW T, T = AssignBlock(S, p, o), T # S
  PROVE  /\ Sound(T, B, U, L \cup {p}) /\ OthersAlike(S, T, p)
         /\ T.peer[p].current # NoPiece /\ HasPart(T.dl, T.peer[p].current)
<1> DEFINE b == AssignedPiece(S, p, o)
           d == GetPiece(S.dl, b)
           e == [d EXCEPT !.requested = @ \cup {b}]
           r == S.peer[p]
           s == [r EXCEPT !.current = b]
<1>1. /\ S \in State /\ S.dl \in DlType /\ S.peer \in [Peers -> PeerType] /\ r \in PeerType
      /\ PartsSound(S.dl) /\ Proper(r, S.dl, IF p \in U THEN B ELSE {})
  BY Unfold
<1>2. b # NoPiece
  BY DEF AssignBlock
<1>3. T = [dl |-> e, peer |-> [S.peer EXCEPT ![p].current = b]]
  BY <1>2 DEF AssignBlock
<1>4. b \in Pieces /\ b \notin S.dl.completed
  BY <1>1, <1>2, AssignedIs
<1> HIDE DEF b
<1>5. /\ d \in DlType /\ PartsSound(d) /\ Keeps(S.dl, d) /\ HasPart(d, b)
      /\ d.requested = S.dl.requested /\ d.pset = S.dl.pset
  BY <1>1, <1>4, GetPieceSound
<1> HIDE DEF d
<1>6. /\ e \in DlType /\ PartsSound(e) /\ Keeps(d, e)
      /\ e.requested = d.requested \cup {b} /\ e.pset = d.pset
  <2>1. d.requested \cup {b} \in SUBSET Pieces
    BY <1>4, <1>5 DEF DlType
  <2> QED BY <1>5, <2>1, Marking
<1> HIDE DEF e
<1>7. /\ s \in PeerType /\ s.joined = r.joined /\ s.current = b
      /\ s.inqueue = r.inqueue /\ s.wire = r.wire /\ s.state = r.state
      /\ s.down = r.down /\ s.rchoked = r.rchoked /\ s.ltimer = r.ltimer /\ s.lchoked = r.lchoked
      /\ s.rtimer = r.rtimer /\ s.linterested = r.linterested
      /\ s.rinterested = r.rinterested /\ s.queue = r.queue /\ s.told = r.told
      /\ s.missed = r.missed /\ s.blocks = r.blocks
  BY ZenonT(60), <1>1, <1>4 DEF PeerType
<1>8. T.peer = [S.peer EXCEPT ![p] = s] /\ T.dl = e
  BY <1>1, <1>3
<1> HIDE DEF s, r
<1>9. /\ T.peer[p] = s /\ \A q \in Peers \ {p} : T.peer[q] = S.peer[q]
  BY <1>1, <1>8
<1>10. T \in State
  <2>1. T.peer \in [Peers -> PeerType]
    BY <1>1, <1>7, <1>8
  <2>2. T = [dl |-> e, peer |-> T.peer]
    BY <1>3
  <2> QED BY <1>6, <2>1, <2>2 DEF State
<1>11. Keeps(S.dl, T.dl) /\ T.dl.pset = S.dl.pset /\ HasPart(T.dl, b)
  BY <1>4, <1>5, <1>6, <1>8 DEF Keeps
<1>12. OthersAlike(S, T, p)
  BY <1>7, <1>9, <1>11 DEF OthersAlike, NoNewUpload, Upload, r
<1>13. Proper(s, T.dl, IF p \in U THEN B ELSE {})
  <2>1. Asking(s, T.dl, IF p \in U THEN B ELSE {})
    <3>1. Asking(r, S.dl, IF p \in U THEN B ELSE {})
      BY <1>1 DEF Proper
    <3>2. DOMAIN r.inqueue = {}
      <4>1. /\ r.inqueue \in Seq(Pieces \X Blocks) /\ r.current = NoPiece
        BY <1>1 DEF PeerType, r
      <4>2. \A i \in DOMAIN r.inqueue : r.inqueue[i][1] \in Pieces
        BY <4>1
      <4> QED BY <3>1, <4>1, <4>2, PiecesAre DEF Asking
    <3> QED BY <1>7, <1>11, <3>1, <3>2 DEF Asking, r
  <2>2. Phases(s) /\ Timed(s) /\ Owed(s, T.dl) /\ Told(s, T.dl, IF p \in U THEN B ELSE {})
    BY <1>1, <1>7, <1>11 DEF Proper, Phases, Timed, Owed, Told, Keeps
  <2> QED BY <2>1, <2>2 DEF Proper
<1>14. \A c \in T.dl.requested \ S.dl.requested : T.peer[p].current = c
  BY <1>5, <1>6, <1>7, <1>8, <1>9
<1>15. S.peer[p].current \notin T.dl.requested
  BY <1>6, <1>8, PiecesAre DEF DlType
<1>16. Sound(T, B, U, L \cup {p})
  <2>1. T.peer[p].joined = S.peer[p].joined /\ PartsSound(T.dl) /\ L \subseteq (L \cup {p}) \cup {p}
    BY <1>6, <1>7, <1>8, <1>9 DEF r
  <2> QED BY <1>9, <1>10, <1>12, <1>13, <1>14, <1>15, <2>1, PeerStep
<1> QED BY <1>2, <1>7, <1>9, <1>11, <1>12, <1>16

LEMMA NewState ==
  ASSUME NEW S \in State, NEW p \in Peers, NEW e \in DlType, NEW s \in PeerType,
         NEW T, T = [dl |-> e, peer |-> [S.peer EXCEPT ![p] = s]]
  PROVE  /\ T \in State /\ T.dl = e /\ T.peer[p] = s
         /\ \A q \in Peers \ {p} : T.peer[q] = S.peer[q]
BY DEF State

LEMMA Appended ==
  ASSUME NEW R, NEW q \in Seq(R), NEW x \in R
  PROVE  /\ Append(q, x) \in Seq(R) /\ Append(q, x) # <<>>
         /\ \A i \in DOMAIN Append(q, x) :
              (i \in DOMAIN q /\ Append(q, x)[i] = q[i]) \/ Append(q, x)[i] = x
<1>1. /\ Append(q, x) \in Seq(R) /\ Len(Append(q, x)) = Len(q) + 1 /\ Len(q) \in Nat
      /\ DOMAIN q = 1..Len(q) /\ DOMAIN Append(q, x) = 1..Len(q)+1
      /\ Append(q, x)[Len(q)+1] = x /\ \A i \in 1..Len(q) : Append(q, x)[i] = q[i]
  OBVIOUS
<1>2. Append(q, x) # <<>>
  BY <1>1
<1> QED BY <1>1, <1>2

LEMMA AskSound ==
  ASSUME NEW S, NEW B, NEW U, NEW L, Sound(S, B, U, L), NEW p \in Peers,
         S.peer[p].current # NoPiece, HasPart(S.dl, S.peer[p].current), NEW start \in Blocks,
         NEW T, T = Ask(S, p, start)
  PROVE  /\ Sound(T, B, U, L \ {p}) /\ OthersAlike(S, T, p)
         /\ T.peer[p].current = S.peer[p].current /\ HasPart(T.dl, T.peer[p].current)
<1> DEFINE r == S.peer[p]
           b == r.current
           pp == [Part(S.dl, b) EXCEPT !.next = start + 1]
           e == SetPart(S.dl, b, pp)
           x == <<b, start>>
           iq == Append(r.inqueue, x)
           w == Append(r.wire, x)
           s == [r EXCEPT !.inqueue = iq, !.wire = w]
<1>1. /\ S \in State /\ S.dl \in DlType /\ S.peer \in [Peers -> PeerType] /\ r \in PeerType
      /\ PartsSound(S.dl) /\ Proper(r, S.dl, IF p \in U THEN B ELSE {})
  BY Unfold
<1>2. T = [dl |-> e, peer |-> [S.peer EXCEPT ![p].inqueue = Append(@, x), ![p].wire = Append(@, x)]]
  BY SMTT(30) DEF Ask
<1>3. T = [dl |-> e, peer |-> [S.peer EXCEPT ![p] = s]]
  BY <1>1, <1>2
<1>4. b \in Pieces /\ x \in Pieces \X Blocks /\ r.inqueue \in Seq(Pieces \X Blocks) /\ r.wire \in Seq(Pieces \X Blocks)
  BY <1>1 DEF PeerType
<1>5. pp \in PartType /\ pp.piece = b
  <2>1. Part(S.dl, b) \in PartType /\ Part(S.dl, b).piece = b
    BY <1>1, PartIs
  <2>2. start + 1 \in Nat
    BY BlocksAre
  <2> QED BY <2>1, <2>2 DEF PartType
<1> HIDE DEF pp
<1>6. /\ e \in DlType /\ PartsSound(e) /\ Keeps(S.dl, e) /\ e.requested = S.dl.requested
      /\ e.pset = S.dl.pset
  BY <1>1, <1>5, SetPartSound
<1>7. /\ iq \in Seq(Pieces \X Blocks) /\ w \in Seq(Pieces \X Blocks) /\ iq # <<>>
      /\ \A i \in DOMAIN iq : (i \in DOMAIN r.inqueue /\ iq[i] = r.inqueue[i]) \/ iq[i] = x
  <2> DEFINE R == Pieces \X Blocks
  <2>1. x \in R /\ r.inqueue \in Seq(R) /\ r.wire \in Seq(R)
    BY <1>4
  <2> HIDE DEF R, r, x
  <2>2. /\ iq \in Seq(R) /\ iq # <<>>
        /\ \A i \in DOMAIN iq : (i \in DOMAIN r.inqueue /\ iq[i] = r.inqueue[i]) \/ iq[i] = x
    BY <2>1, Appended
  <2>3. w \in Seq(R)
    BY <2>1, Appended
  <2> QED BY <2>2, <2>3 DEF R
<1>8. \A rq \in Pieces \X Blocks : Times(r.inqueue, rq) <= Times(r.wire, rq) => Times(iq, rq) <= Times(w, rq)
  <2> TAKE rq \in Pieces \X Blocks
  <2>1. /\ Times(iq, rq) = Times(r.inqueue, rq) + (IF x = rq THEN 1 ELSE 0)
        /\ Times(w, rq) = Times(r.wire, rq) + (IF x = rq THEN 1 ELSE 0)
    BY <1>4, TimesAppend
  <2>2. Times(r.inqueue, rq) \in Nat /\ Times(r.wire, rq) \in Nat
    BY <1>4, SitesFinite
  <2> QED BY <2>1, <2>2
<1>9. x[1] = b
  OBVIOUS
<1> HIDE DEF e, iq, w, x
<1>10. /\ s \in PeerType /\ s.joined = r.joined /\ s.current = b
       /\ s.inqueue = iq /\ s.wire = w /\ s.state = r.state
       /\ s.down = r.down /\ s.rchoked = r.rchoked /\ s.ltimer = r.ltimer /\ s.lchoked = r.lchoked
       /\ s.rtimer = r.rtimer /\ s.linterested = r.linterested
       /\ s.rinterested = r.rinterested /\ s.queue = r.queue /\ s.told = r.told
       /\ s.missed = r.missed /\ s.blocks = r.blocks
  BY <1>1, <1>7 DEF PeerType
<1> HIDE DEF s
<1>11. T \in State /\ T.dl = e /\ T.peer[p] = s /\ \A q \in Peers \ {p} : T.peer[q] = S.peer[q]
  BY <1>1, <1>3, <1>6, <1>10, NewState
<1>12. OthersAlike(S, T, p) /\ HasPart(e, b)
  <2>1. NoNewUpload(S.peer[p], T.peer[p])
    BY <1>10, <1>11, UploadKept DEF r
  <2> QED BY <1>4, <1>6, <1>11, <2>1 DEF OthersAlike, Keeps
<1>13. Proper(s, e, IF p \in U THEN B ELSE {})
  <2>1. Asking(s, e, IF p \in U THEN B ELSE {})
    BY <1>1, <1>7, <1>8, <1>9, <1>10, <1>12 DEF Proper, Asking
  <2>2. Phases(s) /\ Timed(s) /\ Owed(s, e) /\ Told(s, e, IF p \in U THEN B ELSE {})
    BY <1>1, <1>6, <1>10 DEF Proper, Phases, Timed, Owed, Told, Keeps
  <2> QED BY <2>1, <2>2 DEF Proper
<1>14. Busy(s, e)
  BY <1>7, <1>10 DEF Busy
<1>15. Sound(T, B, U, L \ {p})
  <2>1. \A c \in T.dl.requested \ S.dl.requested : T.peer[p].current = c
    BY <1>6, <1>11
  <2>2. T.peer[p].joined = S.peer[p].joined /\ T.peer[p].current = S.peer[p].current
    BY <1>10, <1>11
  <2>3. L \subseteq (L \ {p}) \cup {p}
    OBVIOUS
  <2> QED BY <1>6, <1>11, <1>12, <1>13, <1>14, <2>1, <2>2, <2>3, PeerStep
<1> QED BY <1>10, <1>11, <1>12, <1>15

LEMMA AskOnceSound ==
  ASSUME NEW S, NEW B, NEW U, NEW L, Sound(S, B, U, L), NEW p \in Peers,
         S.peer[p].current # NoPiece, HasPart(S.dl, S.peer[p].current), NEW n \in Nat \ {0},
         NEW T, T = AskOnce(S, p, n)
  PROVE  /\ Sound(T, B, U, L \ {p}) /\ OthersAlike(S, T, p)
         /\ T.peer[p].current = S.peer[p].current /\ HasPart(T.dl, T.peer[p].current)
<1> DEFINE r == S.peer[p]
           pp == Part(S.dl, r.current)
<1>1. S \in State /\ S.dl \in DlType /\ r \in PeerType
  BY Unfold
<1>2. pp \in PartType
  BY <1>1, PartIs
<1>3. pp.next \in Nat /\ FirstClr(pp) \in Blocks
  BY <1>2, FirstClrIs DEF PartType
<1>4. \/ T = S /\ r.inqueue # <<>>
      \/ \E start \in Blocks : T = Ask(S, p, start)
  <2>1. r.inqueue \in Seq(Pieces \X Blocks)
    BY <1>1 DEF PeerType
  <2>2. Len(r.inqueue) >= n => r.inqueue # <<>>
    BY <2>1
  <2> HIDE DEF r, pp
  <2>3. \/ T = S /\ (Len(r.inqueue) >= n \/ r.inqueue # <<>>)
        \/ T = Ask(S, p, pp.next) /\ pp.next < NBlocks
        \/ T = Ask(S, p, 0)
        \/ T = Ask(S, p, FirstClr(pp))
    BY DEF AskOnce, r, pp
  <2> QED BY <1>3, <2>2, <2>3, BlocksAre
<1>5. CASE T = S /\ r.inqueue # <<>>
  <2>1. Busy(r, S.dl)
    BY <1>5 DEF Busy
  <2>2. Sound(T, B, U, L \ {p})
    BY <1>5, <2>1, LetOff
  <2> QED BY <1>5, <2>2 DEF OthersAlike, Keeps, NoNewUpload
<1>6. ASSUME NEW start \in Blocks, T = Ask(S, p, start)
      PROVE  /\ Sound(T, B, U, L \ {p}) /\ OthersAlike(S, T, p)
             /\ T.peer[p].current = S.peer[p].current /\ HasPart(T.dl, T.peer[p].current)
  BY <1>6, AskSound
<1> QED BY <1>4, <1>5, <1>6

(* The turns of the loop in peer_send_request().                           *)
AskTurns(S, p, n, g, m) == g = [i \in 0..m |-> IF i = 0 THEN S ELSE AskOnce(g[i - 1], p, n)]

LEMMA AskTurnsExist ==
  ASSUME NEW S, NEW p, NEW n \in Nat
  PROVE  \E g : AskTurns(S, p, n, g, n)
<1> DEFINE A == {m \in Nat : \E g : AskTurns(S, p, n, g, m)}
<1>1. 0 \in A
  <2>1. AskTurns(S, p, n, [i \in 0..0 |-> S], 0)
    BY DEF AskTurns
  <2> QED BY <2>1
<1>2. ASSUME NEW m \in 1..n, m - 1 \in A
      PROVE  m \in A
  <2>1. PICK g : AskTurns(S, p, n, g, m - 1)
    BY <1>2
  <2> DEFINE h == [i \in 0..m |-> IF i = m THEN AskOnce(g[m - 1], p, n) ELSE g[i]]
  <2>2. \A i \in 0..m : h[i] = IF i = 0 THEN S ELSE AskOnce(h[i - 1], p, n)
    <3>1. \A i \in 0..m-1 : g[i] = IF i = 0 THEN S ELSE AskOnce(g[i - 1], p, n)
      BY <2>1 DEF AskTurns
    <3>2. \A i \in 0..m : i # m => i \in 0..m-1
      OBVIOUS
    <3>3. \A i \in 0..m : i # 0 => i - 1 \in 0..m /\ i - 1 # m /\ h[i - 1] = g[i - 1]
      OBVIOUS
    <3>4. m # 0
      OBVIOUS
    <3> QED BY <3>1, <3>2, <3>3, <3>4
  <2>3. h = [i \in 0..m |-> h[i]]
    OBVIOUS
  <2> HIDE DEF h
  <2>4. AskTurns(S, p, n, h, m)
    BY <2>2, <2>3 DEF AskTurns
  <2> QED BY <2>4
<1> HIDE DEF A
<1>3. n \in A
  BY <1>1, <1>2, UpTo
<1> QED BY <1>3 DEF A

(* The turns keep what one turn keeps.                                     *)
LEMMA AskTurnsSound ==
  ASSUME NEW S, NEW B, NEW U, NEW L, Sound(S, B, U, L), NEW p \in Peers,
         S.peer[p].current # NoPiece, HasPart(S.dl, S.peer[p].current), NEW n \in Nat \ {0},
         NEW g, AskTurns(S, p, n, g, n)
  PROVE  /\ Sound(g[n], B, U, L \ {p}) /\ OthersAlike(S, g[n], p)
         /\ g[n].peer[p].current # NoPiece /\ HasPart(g[n].dl, g[n].peer[p].current)
<1> DEFINE Fine(T) == /\ OthersAlike(S, T, p)
                      /\ T.peer[p].current # NoPiece /\ HasPart(T.dl, T.peer[p].current)
           A == {i \in 0..n : Fine(g[i]) /\ Sound(g[i], B, U, IF i = 0 THEN L ELSE L \ {p})}
<1>1. \A i \in 0..n : g[i] = IF i = 0 THEN S ELSE AskOnce(g[i - 1], p, n)
  BY DEF AskTurns
<1>2. 0 \in A
  <2>1. 0 \in 0..n /\ g[0] = S
    BY <1>1
  <2>2. OthersAlike(S, S, p)
    BY DEF OthersAlike, Keeps, NoNewUpload
  <2> QED BY <2>1, <2>2
<1>3. ASSUME NEW i \in 1..n, i - 1 \in A
      PROVE  i \in A
  <2>1. i \in 0..n /\ i # 0 /\ i - 1 \in 0..n
    OBVIOUS
  <2>2. g[i] = AskOnce(g[i - 1], p, n)
    BY <1>1, <2>1
  <2>3. Fine(g[i - 1]) /\ Sound(g[i - 1], B, U, IF i - 1 = 0 THEN L ELSE L \ {p})
    BY <1>3
  <2> DEFINE M == IF i - 1 = 0 THEN L ELSE L \ {p}
  <2>4. M \ {p} = L \ {p}
    OBVIOUS
  <2> HIDE DEF M
  <2>5. Sound(g[i - 1], B, U, M)
    BY <2>3 DEF M
  <2>6. /\ Sound(g[i], B, U, M \ {p}) /\ OthersAlike(g[i - 1], g[i], p)
        /\ g[i].peer[p].current = g[i - 1].peer[p].current /\ HasPart(g[i].dl, g[i].peer[p].current)
    BY <2>2, <2>3, <2>5, AskOnceSound
  <2>7. OthersAlike(S, g[i], p)
    BY <2>3, <2>6, OthersTrans
  <2> QED BY <2>1, <2>3, <2>4, <2>6, <2>7
<1> HIDE DEF A
<1>4. n \in A
  <2>1. n \in Nat /\ \A i \in 1..n : i - 1 \in A => i \in A
    BY <1>3
  <2>2. \A i \in 0..n : i \in A
    BY <1>2, <2>1, UpTo
  <2> QED BY <2>2
<1> QED BY <1>4 DEF A

(* Asking leaves p busy and the others as they are.                        *)
LEMMA SendRequestSound ==
  ASSUME NEW S, NEW B, NEW U, NEW L, Sound(S, B, U, L), NEW p \in Peers, S.peer[p].joined,
         S.peer[p].current # NoPiece => HasPart(S.dl, S.peer[p].current),
         NEW o, o.qlen \in Nat \ {0}, NEW T, T = SendRequest(S, p, o)
  PROVE  /\ Sound(T, B, U, L \ {p}) /\ OthersAlike(S, T, p) /\ T.peer[p].joined
         /\ T.peer[p].current # NoPiece => HasPart(T.dl, T.peer[p].current)
<1> DEFINE X == IF S.peer[p].current = NoPiece THEN AssignBlock(S, p, o) ELSE S
           n == o.qlen
           g == CHOOSE h : AskTurns(X, p, n, h, n)
<1>0. n \in Nat \ {0}
  OBVIOUS
<1>1. T = IF X.peer[p].current = NoPiece THEN UpdateInterested(X, p) ELSE g[n]
  BY Zenon DEF SendRequest, AskTurns
<1>2. AskTurns(X, p, n, g, n)
  BY AskTurnsExist
<1>3. X = S \/ (S.peer[p].current = NoPiece /\ X = AssignBlock(S, p, o) /\ X # S)
  OBVIOUS
<1>4. S.peer[p].current = NoPiece /\ X = S => Interesting(S.dl, S.peer[p]) = {}
  <2> SUFFICES ASSUME S.peer[p].current = NoPiece, X = S PROVE Interesting(S.dl, S.peer[p]) = {}
    OBVIOUS
  <2>1. S \in State /\ PartsSound(S.dl)
    BY Unfold
  <2>2. AssignBlock(S, p, o) = S
    OBVIOUS
  <2>3. AssignedPiece(S, p, o) = NoPiece
    <3> SUFFICES ASSUME AssignedPiece(S, p, o) # NoPiece PROVE FALSE
      OBVIOUS
    <3>1. S.peer = [S.peer EXCEPT ![p].current = AssignedPiece(S, p, o)]
      BY <2>2 DEF AssignBlock
    <3>2. S.peer[p] \in PeerType /\ S.peer \in [Peers -> PeerType]
      BY Unfold
    <3>3. S.peer[p].current = AssignedPiece(S, p, o)
      BY <3>1, <3>2 DEF PeerType
    <3> QED BY <3>3
  <2> QED BY <2>1, <2>3, AssignedIs
<1> HIDE DEF X, g
<1>5. /\ Sound(X, B, U, L \cup {p}) /\ OthersAlike(S, X, p)
      /\ X.peer[p].current # NoPiece => HasPart(X.dl, X.peer[p].current)
  <2>1. CASE X = S
    <3>1. Sound(X, B, U, L \cup {p})
      BY <2>1, LetOff
    <3> QED BY <2>1, <3>1 DEF OthersAlike, Keeps, NoNewUpload
  <2>2. CASE S.peer[p].current = NoPiece /\ X = AssignBlock(S, p, o) /\ X # S
    BY <2>2, AssignBlockSound
  <2> QED BY <1>3, <2>1, <2>2
<1>6. ASSUME NEW Y, Sound(Y, B, U, L \ {p}), OthersAlike(S, Y, p)
      PROVE  Y.peer[p].joined
  <2>1. SetSound(S) /\ SetSound(Y) /\ Y.dl.pset = S.dl.pset
    BY <1>6, Unfold DEF OthersAlike
  <2> QED BY <2>1 DEF SetSound
<1>7. CASE X.peer[p].current # NoPiece
  <2>1. T = g[n]
    BY <1>1, <1>7
  <2> HIDE DEF n
  <2>2. /\ Sound(g[n], B, U, (L \cup {p}) \ {p}) /\ OthersAlike(X, g[n], p)
        /\ g[n].peer[p].current # NoPiece /\ HasPart(g[n].dl, g[n].peer[p].current)
    BY <1>0, <1>2, <1>5, <1>7, AskTurnsSound
  <2>3. (L \cup {p}) \ {p} = L \ {p}
    OBVIOUS
  <2>4. OthersAlike(S, T, p)
    BY <1>5, <2>1, <2>2, OthersTrans
  <2> QED BY <1>6, <2>1, <2>2, <2>3, <2>4
<1>8. CASE X.peer[p].current = NoPiece
  <2>1. X = S /\ S.peer[p].current = NoPiece
    BY <1>3, <1>8, AssignBlockSound
  <2>2. T = UpdateInterested(S, p)
    BY <1>1, <1>8, <2>1
  <2>3. /\ Sound(T, B, U, L) /\ OthersAlike(S, T, p) /\ T.dl = S.dl
        /\ Retimed(S.peer[p], T.peer[p])
    BY <2>2, UpdateInterestedSound
  <2>4. PICK i \in BOOLEAN, t \in BOOLEAN : T.peer[p] = [S.peer[p] EXCEPT !.linterested = i, !.rtimer = t]
    BY <2>3 DEF Retimed
  <2>5. S.peer[p] \in PeerType
    BY Unfold
  <2>6. T.peer[p].current = NoPiece /\ T.peer[p].blocks = S.peer[p].blocks
    BY <2>1, <2>4, <2>5 DEF PeerType
  <2>7. Busy(T.peer[p], T.dl)
    BY <1>4, <2>1, <2>3, <2>6 DEF Busy, Interesting
  <2>8. Sound(T, B, U, L \ {p})
    BY <2>3, <2>7, LetOff
  <2> QED BY <1>6, <2>3, <2>6, <2>8
<1> QED BY <1>7, <1>8

-----------------------------------------------------------------------------
(* The end of a connection and of a turn.                                  *)

LEMMA RemovedFirst ==
  ASSUME NEW S, NEW q \in Seq(S), NEW e, IsInjective(q)
  PROVE  /\ RemoveFirst(q, e) \in Seq(S) /\ IsInjective(RemoveFirst(q, e))
         /\ Range(RemoveFirst(q, e)) = Range(q) \ {e}
<1>1. CASE e \notin Range(q) /\ RemoveFirst(q, e) = q
  BY <1>1
<1>2. CASE \E k \in 1..Len(q) : q[k] = e /\ RemoveFirst(q, e) = RemoveAt(q, k)
  <2>1. PICK k \in 1..Len(q) : q[k] = e /\ RemoveFirst(q, e) = RemoveAt(q, k)
    BY <1>2
  <2> DEFINE t == RemoveAt(q, k)
             f(i) == IF i < k THEN i ELSE i + 1
  <2>2. /\ t \in Seq(S) /\ Len(t) = Len(q) - 1
        /\ \A i \in 1..k-1 : t[i] = q[i]
        /\ \A i \in k..Len(q)-1 : t[i] = q[i + 1]
    BY RemoveAtProperties
  <2>3. DOMAIN q = 1..Len(q) /\ Len(q) \in Nat
    OBVIOUS
  <2> HIDE DEF t
  <2>4. DOMAIN t = 1..Len(q)-1
    BY <2>2
  <2>5. \A i \in 1..Len(q)-1 : t[i] = q[f(i)] /\ f(i) \in 1..Len(q) /\ f(i) # k
    <3> TAKE i \in 1..Len(q)-1
    <3>1. CASE i < k
      <4>1. i \in 1..k-1
        BY <3>1
      <4> QED BY <2>2, <2>3, <3>1, <4>1
    <3>2. CASE ~(i < k)
      <4>1. i \in k..Len(q)-1 /\ i + 1 \in 1..Len(q) /\ i + 1 # k
        BY <2>3, <3>2
      <4> QED BY <2>2, <3>2, <4>1
    <3> QED BY <3>1, <3>2
  <2>6. \A i, j \in 1..Len(q)-1 : f(i) = f(j) => i = j
    <3> SUFFICES ASSUME NEW i \in 1..Len(q)-1, NEW j \in 1..Len(q)-1, f(i) = f(j) PROVE i = j
      OBVIOUS
    <3>1. i \in Nat /\ j \in Nat /\ k \in Nat
      BY <2>3
    <3> QED BY <3>1
  <2>7. \A a \in 1..Len(q) : a # k => \E i \in 1..Len(q)-1 : f(i) = a
    <3> SUFFICES ASSUME NEW a \in 1..Len(q), a # k PROVE \E i \in 1..Len(q)-1 : f(i) = a
      OBVIOUS
    <3>1. CASE a < k
      <4>1. a \in 1..Len(q)-1 /\ f(a) = a
        BY <2>3, <3>1
      <4> QED BY <4>1
    <3>2. CASE a > k
      <4>1. a - 1 \in 1..Len(q)-1 /\ f(a - 1) = a
        BY <2>3, <3>2
      <4> QED BY <4>1
    <3> QED BY <3>1, <3>2
  <2> HIDE DEF f
  <2>8. \A a \in 1..Len(q) : q[a] = e => a = k
    BY <2>1, <2>3 DEF IsInjective
  <2>9. IsInjective(t)
    BY <2>3, <2>4, <2>5, <2>6 DEF IsInjective
  <2>10. Range(t) \subseteq Range(q) \ {e}
    BY <2>3, <2>4, <2>5, <2>8 DEF Range
  <2>11. Range(q) \ {e} \subseteq Range(t)
    <3> SUFFICES ASSUME NEW y \in Range(q), y # e PROVE y \in Range(t)
      OBVIOUS
    <3>1. PICK a \in 1..Len(q) : q[a] = y
      BY <2>3 DEF Range
    <3>2. PICK i \in 1..Len(q)-1 : f(i) = a
      BY <2>1, <2>7, <3>1
    <3> QED BY <2>4, <2>5, <3>1, <3>2 DEF Range
  <2>12. Range(t) = Range(q) \ {e}
    BY <2>10, <2>11
  <2>13. RemoveFirst(q, e) = t
    BY <2>1 DEF t
  <2> QED BY <2>2, <2>9, <2>12, <2>13
<1> QED BY <1>1, <1>2, RemoveFirstIs

LEMMA NobodyProper ==
  /\ Nobody \in PeerType /\ Nobody.joined = FALSE
  /\ \A d : Proper(Nobody, d, {}) /\ Busy(Nobody, d)
<1>1. Nobody \in PeerType /\ Nobody.joined = FALSE
  BY DEF Nobody, PeerType
<1>2. ASSUME NEW d
      PROVE  Proper(Nobody, d, {}) /\ Busy(Nobody, d)
  <2>1. Nobody.inqueue = <<>> /\ Nobody.wire = <<>> /\ DOMAIN <<>> = {}
    BY DEF Nobody
  <2>2. Asking(Nobody, d, {})
    <3>1. \A rq \in Pieces \X Blocks : Times(Nobody.inqueue, rq) <= Times(Nobody.wire, rq)
      BY <2>1, TimesEmpty
    <3> QED BY <2>1, <3>1 DEF Asking, Nobody
  <2>3. Phases(Nobody) /\ Timed(Nobody) /\ Owed(Nobody, d) /\ Told(Nobody, d, {}) /\ Busy(Nobody, d)
    BY DEF Phases, Timed, Owed, Told, Busy, Nobody
  <2> QED BY <2>2, <2>3 DEF Proper
<1> QED BY <1>1, <1>2

LEMMA ShutdownSound ==
  ASSUME NEW S, NEW L, Sound(S, {}, {}, L), NEW p \in Peers, NEW T, T = Shutdown(S, p)
  PROVE  Sound(T, {}, {}, L \ {p})
<1> DEFINE r == S.peer[p]
           b == r.current
           d == GiveBack(S.dl, b)
           q == RemoveFirst(d.pset, p)
           e == [d EXCEPT !.pset = q]
<1>1. /\ S \in State /\ S.dl \in DlType /\ S.peer \in [Peers -> PeerType] /\ r \in PeerType
      /\ PartsSound(S.dl) /\ SetSound(S) /\ MarksSound(S) /\ FewSound(S) /\ Proper(r, S.dl, {})
  BY Unfold
<1>2. b \in Pieces \cup {NoPiece} /\ (b # NoPiece => HasPart(S.dl, b))
  BY <1>1 DEF PeerType, Proper, Asking
<1>3. T = [dl |-> e, peer |-> [S.peer EXCEPT ![p] = Nobody]]
  BY DEF Shutdown
<1>4. /\ d \in DlType /\ PartsSound(d) /\ Keeps(S.dl, d) /\ d.pset = S.dl.pset
      /\ d.requested = S.dl.requested \ {b}
  BY <1>1, <1>2, GiveBackSound
<1> HIDE DEF d
<1>5. q \in Seq(Peers) /\ IsInjective(q) /\ Range(q) = Range(S.dl.pset) \ {p}
  <2>1. d.pset \in Seq(Peers) /\ IsInjective(d.pset)
    BY <1>1, <1>4 DEF DlType, SetSound
  <2> QED BY <1>4, <2>1, RemovedFirst
<1> HIDE DEF q
<1>6. /\ e \in DlType /\ e.pset = q /\ e.requested = S.dl.requested \ {b} /\ PartsSound(e)
      /\ Keeps(S.dl, e) /\ e.completed = S.dl.completed
  <2>1. e \in DlType /\ e.pset = q /\ e.requested = d.requested /\ e.completed = d.completed
        /\ e.interested = d.interested /\ e.partial = d.partial
    BY <1>4, <1>5 DEF DlType
  <2> HIDE DEF e
  <2> QED BY <1>4, <2>1 DEF PartsSound, Keeps, HasPart
<1> HIDE DEF e
<1>7. T \in State /\ T.dl = e /\ T.peer[p] = Nobody /\ \A k \in Peers \ {p} : T.peer[k] = S.peer[k]
  BY <1>1, <1>3, <1>6, NobodyProper, NewState
<1>8. SetSound(T)
  <2>1. \A k \in Peers : T.peer[k].joined <=> S.peer[k].joined /\ k # p
    BY <1>7, NobodyProper
  <2>2. Range(q) = {k \in Peers : T.peer[k].joined}
    BY <1>1, <1>5, <2>1 DEF SetSound
  <2> QED BY <1>5, <1>6, <1>7, <2>2 DEF SetSound
<1>9. ASSUME NEW c \in T.dl.requested \ T.dl.completed
      PROVE  \E k \in Peers : T.peer[k].current = c
  <2>1. c \in S.dl.requested \ S.dl.completed /\ c # b
    BY <1>6, <1>7, <1>9
  <2>2. PICK k \in Peers : S.peer[k].current = c
    BY <1>1, <2>1 DEF MarksSound
  <2>3. T.peer[k] = S.peer[k]
    BY <1>7, <2>1, <2>2
  <2> QED BY <2>2, <2>3
<1>10. Whole(T)
  <2>1. \A k \in Peers : NoNewUpload(S.peer[k], T.peer[k])
    BY <1>7, NobodyProper DEF NoNewUpload, Upload, Nobody
  <2>2. FewSound(T)
    BY <1>1, <2>1, FewKept
  <2> QED BY <1>6, <1>7, <1>8, <1>9, <2>2 DEF Whole, MarksSound
<1>11. ASSUME NEW k \in Peers
       PROVE  Proper(T.peer[k], T.dl, {}) /\ (k \notin L \ {p} => Busy(T.peer[k], T.dl))
  <2>1. CASE k = p
    BY <1>7, <2>1, NobodyProper
  <2>2. CASE k # p
    <3>1. S.peer[k] \in PeerType /\ Proper(S.peer[k], S.dl, {}) /\ (k \notin L => Busy(S.peer[k], S.dl))
      BY Unfold
    <3> QED BY <1>6, <1>7, <2>2, <3>1, ProperKept
  <2> QED BY <2>1, <2>2
<1> QED BY <1>10, <1>11 DEF Sound

LEMMA NextSound ==
  ASSUME NEW T, Sound(T, {}, {}, {}), dl' = T.dl, peer' = T.peer
  PROVE  IInv'
<1>1. T = [dl |-> T.dl, peer |-> T.peer]
  BY DEF Sound, Whole, State
<1>2. Now' = T
  BY <1>1 DEF Now
<1> QED BY <1>2 DEF IInv

LEMMA NowIs ==
  ASSUME IInv
  PROVE  /\ Sound(Now, {}, {}, {}) /\ Now.dl = dl /\ Now.peer = peer
         /\ Now = [dl |-> dl, peer |-> peer]
BY DEF IInv, Now

(* Sending one of the uploads queued, or none.                             *)
LEMMA QueueTail ==
  ASSUME NEW S, Sound(S, {}, {}, {}), NEW p \in Peers, S.peer[p].queue # <<>>,
         NEW T, T = [S EXCEPT !.peer[p].queue = Tail(@)]
  PROVE  Sound(T, {}, {}, {})
<1> DEFINE r == S.peer[p]
           q == Tail(r.queue)
           s == [r EXCEPT !.queue = q]
<1>1. /\ S \in State /\ S.dl \in DlType /\ S.peer \in [Peers -> PeerType] /\ r \in PeerType
      /\ Proper(r, S.dl, {}) /\ Busy(r, S.dl)
  BY Unfold
<1>2. r.queue \in Seq(Pieces) /\ r.queue # <<>>
  BY <1>1 DEF PeerType
<1>3. q \in Seq(Pieces) /\ Range(q) \subseteq Range(r.queue)
  <2> HIDE DEF r
  <2>1. /\ q \in Seq(Pieces) /\ DOMAIN q = 1..Len(r.queue)-1 /\ DOMAIN r.queue = 1..Len(r.queue)
        /\ \A i \in 1..Len(r.queue)-1 : q[i] = r.queue[i + 1] /\ i + 1 \in 1..Len(r.queue)
    BY <1>2
  <2> HIDE DEF q
  <2> QED BY <2>1 DEF Range
<1> HIDE DEF q
<1>4. /\ s \in PeerType /\ s.joined = r.joined /\ s.current = r.current
      /\ s.inqueue = r.inqueue /\ s.wire = r.wire /\ s.state = r.state
      /\ s.down = r.down /\ s.rchoked = r.rchoked /\ s.ltimer = r.ltimer /\ s.lchoked = r.lchoked
      /\ s.rtimer = r.rtimer /\ s.linterested = r.linterested
      /\ s.rinterested = r.rinterested /\ s.queue = q /\ s.told = r.told
      /\ s.missed = r.missed /\ s.blocks = r.blocks
  BY <1>1, <1>3 DEF PeerType
<1>5. T = [S EXCEPT !.peer = [S.peer EXCEPT ![p] = s]]
  BY <1>1 DEF State, q
<1> HIDE DEF s, r
<1>6. Proper(s, S.dl, {}) /\ Busy(s, S.dl)
  BY <1>1, <1>2, <1>3, <1>4 DEF Proper, Asking, Phases, Timed, Owed, Told, Busy, Interesting
<1>7. NoNewUpload(S.peer[p], s)
  BY <1>4, UploadKept DEF r
<1>8. s.joined = S.peer[p].joined /\ s.current = S.peer[p].current
  BY <1>4 DEF r
<1>9. (IF p \in {} THEN {} ELSE {}) = {} /\ {} \subseteq {} \cup {p} /\ s \in PeerType
  BY <1>4
<1> HIDE DEF s
<1>10. Sound([S EXCEPT !.peer = [S.peer EXCEPT ![p] = s]], {}, {}, {})
  BY <1>6, <1>7, <1>8, <1>9, PeerOnly
<1> QED BY <1>5, <1>10

LEMMA TurnSound ==
  ASSUME NEW S, Sound(S, {}, {}, {}), NEW p \in Peers, Turn(S, p)
  PROVE  IInv'
<1>1. PICK drained \in {FALSE, S.peer[p].queue # <<>>} :
        dl' = ProcessQueue(S, p, drained).dl /\ peer' = ProcessQueue(S, p, drained).peer
  BY DEF Turn
<1> DEFINE T == ProcessQueue(S, p, drained)
<1>2. drained => S.peer[p].queue # <<>>
  OBVIOUS
<1>3. \/ T = S
      \/ T = Shutdown(S, p)
      \/ S.peer[p].queue # <<>> /\ T = [S EXCEPT !.peer[p].queue = Tail(@)]
  BY <1>2 DEF ProcessQueue
<1> HIDE DEF T
<1>4. Sound(T, {}, {}, {})
  <2>1. ASSUME T = Shutdown(S, p) PROVE Sound(T, {}, {}, {})
    <3>1. Sound(T, {}, {}, {} \ {p})
      BY <2>1, ShutdownSound
    <3>2. {} \ {p} = {}
      OBVIOUS
    <3> QED BY <3>1, <3>2
  <2> QED BY <1>3, <2>1, QueueTail
<1> QED BY <1>1, <1>4, NextSound DEF T

LEMMA EndSound ==
  ASSUME NEW S, NEW L, Sound(S, {}, {}, L), NEW p \in Peers, L \subseteq {p}, End(S, p)
  PROVE  IInv'
<1> DEFINE T == Shutdown(S, p)
<1>1. dl' = T.dl /\ peer' = T.peer
  BY DEF End
<1>2. L \ {p} = {}
  OBVIOUS
<1> HIDE DEF T
<1>3. Sound(T, {}, {}, {})
  BY <1>2, ShutdownSound DEF T
<1> QED BY <1>1, <1>3, NextSound

LEMMA AsksSound ==
  ASSUME NEW S, NEW L, Sound(S, {}, {}, L), NEW p \in Peers, L \subseteq {p}, S.peer[p].joined,
         NEW o, o.qlen \in Nat \ {0}, Asks(S, p, o)
  PROVE  IInv'
<1> DEFINE T == SendRequest(S, p, o)
<1>1. End(T, p) \/ Turn(T, p)
  BY DEF Asks
<1> HIDE DEF T
<1>2. S.peer[p].current # NoPiece => HasPart(S.dl, S.peer[p].current)
  BY Unfold DEF Proper, Asking
<1>3. Sound(T, {}, {}, L \ {p})
  BY <1>2, SendRequestSound DEF T
<1>4. L \ {p} = {} /\ {} \subseteq {p}
  OBVIOUS
<1> QED BY <1>1, <1>3, <1>4, EndSound, TurnSound

-----------------------------------------------------------------------------
(* The actions. A step that writes one peer and at most the counters:      *)

SameParts(d, e) ==
  /\ e.completed = d.completed /\ e.requested = d.requested /\ e.interested = d.interested
  /\ e.partial = d.partial /\ e.pset = d.pset

(* But for p, the peers of L are in M.                                     *)
Within(L, M, p) == L \subseteq M \cup {p}

LEMMA WriteSound ==
  ASSUME NEW S, NEW L, Sound(S, {}, {}, L), NEW p \in Peers, NEW M, Within(L, M, p),
         NEW e \in DlType, SameParts(S.dl, e), NEW s \in PeerType,
         s.joined = S.peer[p].joined, s.current = S.peer[p].current, NoNewUpload(S.peer[p], s),
         Proper(s, S.dl, {}), p \notin M => Busy(s, S.dl),
         NEW T, T = [dl |-> e, peer |-> [S.peer EXCEPT ![p] = s]]
  PROVE  Sound(T, {}, {}, M) /\ T.dl = e /\ T.peer[p] = s /\ SameParts(S.dl, T.dl)
<1>1. S \in State /\ PartsSound(S.dl)
  BY Unfold
<1>2. /\ T \in State /\ T.dl = e /\ T.peer[p] = s
      /\ \A q \in Peers \ {p} : T.peer[q] = S.peer[q]
  BY <1>1 DEF State
<1>3. PartsSound(e) /\ Keeps(S.dl, e)
  BY <1>1 DEF PartsSound, Keeps, HasPart, SameParts
<1>4. OthersAlike(S, T, p)
  BY <1>2, <1>3 DEF OthersAlike, SameParts
<1>5. Proper(s, e, {}) /\ (p \notin M => Busy(s, e))
  BY <1>3, ProperKept
<1>6. \A c \in T.dl.requested \ S.dl.requested : T.peer[p].current = c
  BY <1>2 DEF SameParts
<1>7. Proper(T.peer[p], T.dl, IF p \in {} THEN {} ELSE {}) /\ (p \notin M => Busy(T.peer[p], T.dl))
  BY <1>2, <1>5
<1>8. PartsSound(T.dl) /\ T.peer[p].joined = S.peer[p].joined /\ T.peer[p].current = S.peer[p].current
  BY <1>2, <1>3
<1>9. Sound(T, {}, {}, M)
  BY <1>2, <1>4, <1>6, <1>7, <1>8, PeerStep DEF Within
<1> QED BY <1>2, <1>9

(* The same for a step that writes p alone.                                *)
Written(S, p, s) == [S EXCEPT !.peer = [S.peer EXCEPT ![p] = s]]

LEMMA WriteOne ==
  ASSUME NEW S, NEW L, Sound(S, {}, {}, L), NEW p \in Peers, NEW M, Within(L, M, p),
         NEW s \in PeerType,
         s.joined = S.peer[p].joined, s.current = S.peer[p].current, NoNewUpload(S.peer[p], s),
         Proper(s, S.dl, {}), p \notin M => Busy(s, S.dl),
         NEW T, T = Written(S, p, s)
  PROVE  Sound(T, {}, {}, M) /\ T.dl = S.dl /\ T.peer[p] = s
<1>1. (IF p \in {} THEN {} ELSE {}) = {}
  OBVIOUS
<1> QED BY <1>1, PeerOnly DEF Written, Within

(* Arming or stopping the request timer leaves the record of a peer typed. *)
LEMMA TimerTyped ==
  ASSUME NEW v \in PeerType, NEW t \in BOOLEAN
  PROVE  [v EXCEPT !.rtimer = t] \in PeerType
BY DEF PeerType

(* The step of p's CHOKE keeps the invariant. *)
LEMMA ChokeSound ==
  ASSUME IInv, NEW p \in Peers, Choke(p)
  PROVE  IInv'
<1> DEFINE r == peer[p]
           b == r.current
           e == GiveBack(dl, b)
<1>1. /\ Sound(Now, {}, {}, {}) /\ Now.dl = dl /\ Now.peer = peer /\ Now = [dl |-> dl, peer |-> peer]
  BY NowIs
<1>2. /\ Now \in State /\ dl \in DlType /\ peer \in [Peers -> PeerType] /\ r \in PeerType
      /\ PartsSound(dl) /\ Proper(r, dl, {}) /\ Busy(r, dl)
  BY <1>1, Unfold
<1>3. CASE r.rchoked
  <2>1. Turn(Now, p)
    BY <1>3 DEF Choke
  <2> QED BY <1>1, <2>1, TurnSound
<1>4. CASE ~r.rchoked
  <2> DEFINE s == [r EXCEPT !.rchoked = TRUE, !.current = NoPiece, !.inqueue = <<>>, !.wire = <<>>,
                            !.rtimer = r.rtimer /\ ~r.linterested]
             T == [dl |-> e, peer |-> [peer EXCEPT ![p] = s]]
  <2>1. Turn(T, p)
    BY <1>4, Zenon DEF Choke
  <2>2. T = [dl |-> e, peer |-> [peer EXCEPT ![p] = s]]
    OBVIOUS
  <2>3. b \in Pieces \cup {NoPiece} /\ (b # NoPiece => HasPart(dl, b))
    BY <1>2 DEF PeerType, Proper, Asking
  <2>4. /\ e \in DlType /\ PartsSound(e) /\ Keeps(dl, e) /\ e.pset = dl.pset
        /\ e.requested = dl.requested \ {b}
    BY <1>2, <2>3, GiveBackSound
  <2> HIDE DEF e
  <2>5. s \in PeerType
    <3> DEFINE v == [r EXCEPT !.rchoked = TRUE, !.current = NoPiece, !.inqueue = <<>>, !.wire = <<>>]
    <3>1. v \in PeerType
      <4> DEFINE u == [r EXCEPT !.rchoked = TRUE, !.current = NoPiece]
      <4>1. u \in PeerType
        BY <1>2 DEF PeerType
      <4>2. v = [u EXCEPT !.inqueue = <<>>, !.wire = <<>>]
        OBVIOUS
      <4>3. <<>> \in Seq(Pieces \X Blocks)
        OBVIOUS
      <4> HIDE DEF u, v
      <4> QED BY <4>1, <4>2, <4>3 DEF PeerType
    <3>2. (v.rtimer /\ ~r.linterested) \in BOOLEAN
      OBVIOUS
    <3>3. v.rtimer = r.rtimer
      BY <1>2 DEF PeerType
    <3>4. s = [v EXCEPT !.rtimer = v.rtimer /\ ~r.linterested]
      BY <3>3
    <3>5. PICK t \in BOOLEAN : t = (v.rtimer /\ ~r.linterested)
      BY <3>2, Zenon
    <3> HIDE DEF s, r, v
    <3>6. s = [v EXCEPT !.rtimer = t]
      BY ONLY <3>4, <3>5, Zenon
    <3> QED BY ONLY <3>1, <3>6, TimerTyped, Zenon
  <2>6. /\ s.joined = r.joined /\ s.current = NoPiece /\ s.inqueue = <<>> /\ s.wire = <<>>
        /\ s.state = r.state /\ s.down = r.down /\ s.rchoked = TRUE /\ s.ltimer = r.ltimer
        /\ s.lchoked = r.lchoked /\ (s.rtimer <=> r.rtimer /\ ~r.linterested)
        /\ s.linterested = r.linterested /\ s.rinterested = r.rinterested /\ s.queue = r.queue
        /\ s.told = r.told /\ s.missed = r.missed /\ s.blocks = r.blocks
    BY <1>2 DEF PeerType
  <2> HIDE DEF s, r, T
  <2>7. Asking(s, e, {})
    <3>1. \A rq \in Pieces \X Blocks : Times(s.inqueue, rq) <= Times(s.wire, rq)
      BY <2>6, TimesEmpty
    <3> QED BY <2>6, <3>1 DEF Asking
  <2>8. Proper(s, e, {}) /\ Busy(s, e)
    BY <1>2, <2>4, <2>6, <2>7 DEF Proper, Phases, Timed, Owed, Told, Busy, Keeps
  <2>9. /\ T \in State /\ T.dl = e /\ T.peer[p] = s
        /\ \A q \in Peers \ {p} : T.peer[q] = Now.peer[q]
    BY <1>1, <1>2, <2>2, <2>4, <2>5, NewState
  <2>10. OthersAlike(Now, T, p)
    <3>1. NoNewUpload(Now.peer[p], T.peer[p])
      BY <1>1, <2>6, <2>9, UploadKept DEF r
    <3> QED BY <1>1, <2>4, <2>9, <3>1 DEF OthersAlike
  <2>11. (IF p \in {} THEN {} ELSE {}) = {}
    OBVIOUS
  <2>12. \A c \in T.dl.requested \ Now.dl.requested : T.peer[p].current = c
    BY <1>1, <2>4, <2>9
  <2>13. Now.peer[p].current \notin T.dl.requested
    BY <1>1, <2>4, <2>9 DEF r
  <2>14. T.peer[p].joined = Now.peer[p].joined
    BY <1>1, <2>6, <2>9 DEF r
  <2>15. Sound(T, {}, {}, {})
    BY <1>1, <2>4, <2>8, <2>9, <2>10, <2>11, <2>12, <2>13, <2>14, PeerStep
  <2> QED BY <2>1, <2>15, TurnSound
<1> QED BY <1>3, <1>4

(* The end of the steps that may leave p idle: it asks, or has no reason to. *)
LEMMA AskingSound ==
  ASSUME NEW S, NEW L, NEW p \in Peers, L \subseteq {p}, Sound(S, {}, {}, L), S.peer[p].joined, ~S.peer[p].rchoked,
         S.peer[p].linterested \/ S.peer[p].down,
         NEW o, o.qlen \in Nat \ {0}, Asks([S EXCEPT !.peer[p].rtimer = TRUE], p, o)
  PROVE  IInv'
<1> DEFINE r == S.peer[p]
           s == [r EXCEPT !.rtimer = TRUE]
           T == [S EXCEPT !.peer[p].rtimer = TRUE]
<1>1. S \in State /\ S.peer \in [Peers -> PeerType] /\ r \in PeerType /\ Proper(r, S.dl, {})
  BY Unfold
<1>2. T = Written(S, p, s)
  BY <1>1 DEF State, Written
<1>3. /\ s \in PeerType /\ s.joined = r.joined /\ s.current = r.current
      /\ s.inqueue = r.inqueue /\ s.wire = r.wire /\ s.state = r.state
      /\ s.down = r.down /\ s.rchoked = r.rchoked /\ s.ltimer = r.ltimer /\ s.lchoked = r.lchoked
      /\ s.rtimer = TRUE /\ s.linterested = r.linterested
      /\ s.rinterested = r.rinterested /\ s.queue = r.queue /\ s.told = r.told
      /\ s.missed = r.missed /\ s.blocks = r.blocks
  BY <1>1 DEF PeerType
<1>4. Asks(T, p, o)
  OBVIOUS
<1> HIDE DEF s, T
<1>5. Proper(s, S.dl, {})
  BY <1>1, <1>3 DEF Proper, Asking, Phases, Timed, Owed, Told
<1>6. PICK M : M = {p}
  OBVIOUS
<1>7. Sound(T, {}, {}, M) /\ T.peer[p] = s
  <2>1. Within(L, M, p) /\ p \in M
    BY <1>6 DEF Within
  <2>4. NoNewUpload(S.peer[p], s)
    BY <1>3, UploadKept
  <2>2. Sound(T, {}, {}, M)
    BY <1>2, <1>3, <1>5, <2>1, <2>4, WriteOne
  <2>3. T.peer[p] = s
    BY <1>1, <1>2, <1>3 DEF Written, State
  <2> QED BY <2>2, <2>3
<1>8. T.peer[p].joined /\ M \subseteq {p}
  BY <1>3, <1>6, <1>7
<1> QED BY <1>4, <1>7, <1>8, AsksSound

LEMMA RestingSound ==
  ASSUME NEW S, NEW L, NEW p \in Peers, L \subseteq {p}, Sound(S, {}, {}, L),
         S.peer[p].current # NoPiece => S.peer[p].inqueue # <<>>,
         S.peer[p].rchoked \/ Interesting(S.dl, S.peer[p]) = {}, Turn(S, p)
  PROVE  IInv'
<1>1. Busy(S.peer[p], S.dl)
  BY DEF Busy
<1>2. Sound(S, {}, {}, {})
  BY <1>1, LetOff
<1> QED BY <1>2, TurnSound

LEMMA ChancesAre ==
  ASSUME NEW ps, NEW o \in Chances(ps)
  PROVE  o.qlen \in Nat \ {0}
BY SwarmAssumption DEF Chances

LEMMA UnchokeSound ==
  ASSUME IInv, NEW p \in Peers, Unchoke(p)
  PROVE  IInv'
<1> DEFINE r == peer[p]
           u == [r EXCEPT !.rchoked = FALSE]
           U == [Now EXCEPT !.peer[p].rchoked = FALSE]
           S == IF r.linterested THEN U ELSE UpdateInterested(U, p)
<1>1. /\ Sound(Now, {}, {}, {}) /\ Now.dl = dl /\ Now.peer = peer
  BY NowIs
<1>2. /\ Now \in State /\ peer \in [Peers -> PeerType] /\ r \in PeerType
      /\ Proper(r, dl, {}) /\ Busy(r, dl)
  BY <1>1, Unfold
<1>3. r.state = "GOOD"
  BY DEF Unchoke, Hears, Good
<1>4. CASE ~r.rchoked
  <2>1. Turn(Now, p)
    BY <1>4 DEF Unchoke
  <2> QED BY <1>1, <2>1, TurnSound
<1>5. CASE r.rchoked
  <2>1. U = Written(Now, p, u)
    BY <1>1, <1>2 DEF State, Written
  <2>2. /\ u \in PeerType /\ u.joined = r.joined /\ u.current = r.current
        /\ u.inqueue = r.inqueue /\ u.wire = r.wire /\ u.state = r.state
        /\ u.down = r.down /\ u.rchoked = FALSE /\ u.ltimer = r.ltimer /\ u.lchoked = r.lchoked
        /\ u.rtimer = r.rtimer /\ u.linterested = r.linterested
        /\ u.rinterested = r.rinterested /\ u.queue = r.queue /\ u.told = r.told
        /\ u.missed = r.missed /\ u.blocks = r.blocks
    BY <1>2 DEF PeerType
  <2>3. IF ~S.peer[p].linterested THEN Turn(S, p)
        ELSE \E o \in Chances(Lacking(S, p)) : Asks([S EXCEPT !.peer[p].rtimer = TRUE], p, o)
    BY <1>5, Zenon DEF Unchoke
  <2> HIDE DEF u, r, U
  <2>4. Proper(u, dl, {})
    BY <1>2, <1>3, <1>5, <2>2 DEF Proper, Asking, Phases, Timed, Owed, Told
  <2>0. PICK L : L = {p}
    OBVIOUS
  <2>5. Sound(U, {}, {}, L) /\ U.dl = dl /\ U.peer[p] = u
    <3>1. Within({}, L, p) /\ p \in L
      BY <2>0 DEF Within
    <3>2. u.joined = Now.peer[p].joined /\ u.current = Now.peer[p].current
      BY <1>1, <2>2 DEF r
    <3>3. NoNewUpload(Now.peer[p], u)
      BY <1>1, <2>2, UploadKept DEF r
    <3> QED BY <1>1, <2>1, <2>2, <2>4, <3>1, <3>2, <3>3, WriteOne
  <2>6. /\ Sound(S, {}, {}, L) /\ S.dl = dl
        /\ S.peer[p].state = "GOOD" /\ S.peer[p].current = r.current /\ S.peer[p].inqueue = r.inqueue
        /\ ~S.peer[p].rchoked
        /\ ~S.peer[p].linterested => Interesting(S.dl, S.peer[p]) = {}
    <3>1. CASE r.linterested
      BY <1>3, <2>2, <2>5, <3>1
    <3>2. CASE ~r.linterested
      <4>1. S = UpdateInterested(U, p)
        BY <3>2
      <4> HIDE DEF S
      <4>2. /\ Sound(S, {}, {}, L) /\ S.dl = dl
            /\ Aware(S.peer[p], dl)
            /\ Retimed(u, S.peer[p])
        BY <2>5, <4>1, UpdateInterestedSound
      <4>3. /\ S.peer[p].state = u.state /\ S.peer[p].current = u.current
            /\ S.peer[p].inqueue = u.inqueue /\ S.peer[p].rchoked = u.rchoked
            /\ S.peer[p].blocks = u.blocks
        BY <2>2, <4>2 DEF Retimed, PeerType
      <4> QED BY <1>3, <2>2, <4>2, <4>3 DEF Aware
    <3> QED BY <3>1, <3>2
  <2> HIDE DEF S
  <2>7. CASE ~S.peer[p].linterested
    BY <1>2, <2>0, <2>3, <2>6, <2>7, RestingSound DEF Busy
  <2>8. CASE S.peer[p].linterested
    <3>1. PICK o \in Chances(Lacking(S, p)) : Asks([S EXCEPT !.peer[p].rtimer = TRUE], p, o)
      BY <2>3, <2>8
    <3>2. S.peer[p].joined
      BY <2>6, Unfold DEF Proper, Phases
    <3> QED BY <2>0, <2>6, <2>8, <3>1, <3>2, AskingSound, ChancesAre
  <2> QED BY <2>7, <2>8
<1> QED BY <1>4, <1>5

LEMMA InterestedSound ==
  ASSUME IInv, NEW p \in Peers, Interested(p) \/ NotInterested(p)
  PROVE  IInv'
<1>1. PICK r : r = peer[p]
  OBVIOUS
<1>2. /\ Sound(Now, {}, {}, {}) /\ Now.dl = dl /\ Now.peer = peer
  BY NowIs
<1>3. /\ dl \in DlType /\ r \in PeerType /\ Proper(r, dl, {}) /\ Busy(r, dl)
  BY <1>1, <1>2, Unfold
<1>4. PICK b \in BOOLEAN, t \in BOOLEAN, n \in Int :
        /\ t => ~r.lchoked /\ b
        /\ Turn([dl |-> [dl EXCEPT !.interestedpeers = n],
                 peer |-> [peer EXCEPT ![p] = [r EXCEPT !.rinterested = b, !.ltimer = t]]], p)
  <2>1. dl.interestedpeers + 1 \in Int /\ dl.interestedpeers - 1 \in Int /\ r.ltimer \in BOOLEAN /\ r.lchoked \in BOOLEAN
    BY <1>3 DEF DlType, PeerType
  <2>2. r.ltimer => ~r.lchoked
    BY <1>3 DEF Proper, Timed
  <2>3. CASE Interested(p)
    <3>1. Turn([dl |-> [dl EXCEPT !.interestedpeers = dl.interestedpeers + 1],
                peer |-> [peer EXCEPT ![p] = [r EXCEPT !.rinterested = TRUE,
                                                       !.ltimer = r.ltimer \/ ~r.lchoked]]], p)
      BY <1>1, <2>3, Zenon DEF Interested
    <3>2. (r.ltimer \/ ~r.lchoked) \in BOOLEAN /\ TRUE \in BOOLEAN
      OBVIOUS
    <3>3. (r.ltimer \/ ~r.lchoked) => ~r.lchoked /\ TRUE
      BY <2>2
    <3> QED BY <2>1, <3>1, <3>2, <3>3, Zenon
  <2>4. CASE NotInterested(p)
    <3>1. Turn([dl |-> [dl EXCEPT !.interestedpeers = dl.interestedpeers - 1],
                peer |-> [peer EXCEPT ![p] = [r EXCEPT !.rinterested = FALSE,
                                                       !.ltimer = r.ltimer /\ r.lchoked]]], p)
      BY <1>1, <2>4, Zenon DEF NotInterested
    <3>2. (r.ltimer /\ r.lchoked) \in BOOLEAN /\ FALSE \in BOOLEAN
      OBVIOUS
    <3>3. (r.ltimer /\ r.lchoked) => ~r.lchoked /\ FALSE
      BY <2>2
    <3> QED BY <2>1, <3>1, <3>2, <3>3, Zenon
  <2> QED BY <2>3, <2>4
<1> DEFINE s == [r EXCEPT !.rinterested = b, !.ltimer = t]
           e == [dl EXCEPT !.interestedpeers = n]
           T == [dl |-> e, peer |-> [peer EXCEPT ![p] = s]]
<1>5. Turn(T, p)
  BY <1>4
<1>6. e \in DlType /\ SameParts(dl, e)
  BY <1>3 DEF DlType, SameParts
<1>7. /\ s \in PeerType /\ s.joined = r.joined /\ s.current = r.current
      /\ s.inqueue = r.inqueue /\ s.wire = r.wire /\ s.state = r.state
      /\ s.down = r.down /\ s.rchoked = r.rchoked /\ s.ltimer = t /\ s.lchoked = r.lchoked
      /\ s.rtimer = r.rtimer /\ s.linterested = r.linterested
      /\ s.rinterested = b /\ s.queue = r.queue /\ s.told = r.told
      /\ s.missed = r.missed /\ s.blocks = r.blocks
  BY ZenonT(60), <1>3 DEF PeerType
<1> HIDE DEF s, e
<1>8. Proper(s, dl, {}) /\ Busy(s, dl)
  BY <1>3, <1>4, <1>7 DEF Proper, Asking, Phases, Timed, Owed, Told, Busy, Interesting
<1>9. T = [dl |-> e, peer |-> [Now.peer EXCEPT ![p] = s]]
  BY <1>2
<1> HIDE DEF T
<1>10. Sound(T, {}, {}, {})
  <2>1. s.joined = Now.peer[p].joined /\ s.current = Now.peer[p].current
    BY <1>1, <1>2, <1>7
  <2>2. Within({}, {}, p) /\ SameParts(Now.dl, e) /\ Proper(s, Now.dl, {}) /\ Busy(s, Now.dl)
    BY <1>2, <1>6, <1>8 DEF Within
  <2>3. NoNewUpload(Now.peer[p], s)
    BY <1>1, <1>2, <1>7, UploadKept
  <2> QED BY <1>2, <1>6, <1>7, <1>9, <2>1, <2>2, <2>3, WriteSound
<1> QED BY <1>5, <1>10, TurnSound

LEMMA LearnSound ==
  ASSUME IInv, NEW p \in Peers, NEW bs \in SUBSET Pieces, NEW L, L = {p},
         NEW T, T = Learn(Now, p, bs)
  PROVE  /\ Sound(T, {}, {}, L) /\ Aware(T.peer[p], T.dl)
         /\ T.peer[p].state = peer[p].state /\ T.peer[p].current = peer[p].current
         /\ T.peer[p].inqueue = peer[p].inqueue /\ T.peer[p].rchoked = peer[p].rchoked
         /\ T.peer[p].down = peer[p].down /\ T.peer[p].joined = peer[p].joined
<1> DEFINE r == peer[p]
           c == r.complete \/ bs = Pieces
           n == IF bs = Pieces /\ ~r.complete THEN dl.incomplete - 1 ELSE dl.incomplete
           s == [r EXCEPT !.blocks = bs, !.complete = c]
           e == [dl EXCEPT !.incomplete = n]
           S == [dl |-> e, peer |-> [peer EXCEPT ![p] = s]]
<1>1. /\ Sound(Now, {}, {}, {}) /\ Now.dl = dl /\ Now.peer = peer
  BY NowIs
<1>2. /\ dl \in DlType /\ r \in PeerType /\ Proper(r, dl, {})
  BY <1>1, Unfold
<1>3. T = UpdateInterested(S, p)
  BY <1>1 DEF Learn
<1>4. n \in Int /\ c \in BOOLEAN
  BY <1>2 DEF DlType
<1>5. S = [dl |-> e, peer |-> [Now.peer EXCEPT ![p] = s]]
  BY <1>1
<1> HIDE DEF n, c, S
<1>6. e \in DlType /\ SameParts(dl, e)
  BY <1>2, <1>4 DEF DlType, SameParts
<1>7. /\ s \in PeerType /\ s.joined = r.joined /\ s.current = r.current
      /\ s.inqueue = r.inqueue /\ s.wire = r.wire /\ s.state = r.state
      /\ s.down = r.down /\ s.rchoked = r.rchoked /\ s.ltimer = r.ltimer /\ s.lchoked = r.lchoked
      /\ s.rtimer = r.rtimer /\ s.linterested = r.linterested
      /\ s.rinterested = r.rinterested /\ s.queue = r.queue /\ s.told = r.told
      /\ s.missed = r.missed
  BY <1>2, <1>4 DEF PeerType
<1> HIDE DEF s, e, r
<1>8. Proper(s, dl, {})
  BY <1>2, <1>7 DEF Proper, Asking, Phases, Timed, Owed, Told
<1>9. Sound(S, {}, {}, L) /\ S.peer[p] = s
  <2>1. Within({}, L, p) /\ p \in L
    BY DEF Within
  <2>2. s.joined = Now.peer[p].joined /\ s.current = Now.peer[p].current
    BY <1>1, <1>7 DEF r
  <2>3. SameParts(Now.dl, e) /\ Proper(s, Now.dl, {})
    BY <1>1, <1>6, <1>8
  <2>6. NoNewUpload(Now.peer[p], s)
    BY <1>1, <1>7, UploadKept DEF r
  <2>4. Sound(S, {}, {}, L)
    BY <1>1, <1>5, <1>6, <1>7, <2>1, <2>2, <2>3, <2>6, WriteSound
  <2>5. S.peer = [peer EXCEPT ![p] = s] /\ p \in DOMAIN peer
    BY <1>1, Unfold DEF S
  <2> QED BY <2>4, <2>5
<1>10. Sound(T, {}, {}, L) /\ Aware(T.peer[p], T.dl) /\ Retimed(s, T.peer[p])
  BY <1>3, <1>9, UpdateInterestedSound
<1>11. /\ T.peer[p].state = s.state /\ T.peer[p].current = s.current
       /\ T.peer[p].inqueue = s.inqueue /\ T.peer[p].rchoked = s.rchoked
       /\ T.peer[p].down = s.down /\ T.peer[p].joined = s.joined
  BY <1>7, <1>10 DEF Retimed, PeerType
<1> QED BY <1>7, <1>10, <1>11 DEF r

LEMMA HaveSound ==
  ASSUME IInv, NEW p \in Peers, NEW b \in Pieces, Have(p, b)
  PROVE  IInv'
<1> DEFINE bs == peer[p].blocks \cup {b}
           S == Learn(Now, p, bs)
<1>1. peer[p] \in PeerType /\ Proper(peer[p], dl, {}) /\ Busy(peer[p], dl)
  BY NowIs, Unfold
<1>2. bs \in SUBSET Pieces
  BY <1>1 DEF PeerType
<1>3. PICK L : L = {p}
  OBVIOUS
<1>4. peer[p].state = "GOOD"
  BY DEF Have, Hears, Good
<1>5. \/ /\ ~S.peer[p].rchoked
         /\ S.peer[p].linterested \/ peer[p].down
         /\ \E o \in Chances(Lacking(S, p)) : Asks([S EXCEPT !.peer[p].rtimer = TRUE], p, o)
      \/ /\ S.peer[p].rchoked \/ ~S.peer[p].linterested
         /\ Turn(S, p)
  BY DEF Have
<1> HIDE DEF bs
<1>6. /\ Sound(S, {}, {}, L) /\ Aware(S.peer[p], S.dl)
      /\ S.peer[p].state = peer[p].state /\ S.peer[p].current = peer[p].current
      /\ S.peer[p].inqueue = peer[p].inqueue /\ S.peer[p].rchoked = peer[p].rchoked
      /\ S.peer[p].down = peer[p].down /\ S.peer[p].joined = peer[p].joined
  BY <1>2, <1>3, LearnSound
<1> HIDE DEF S
<1>7. CASE /\ ~S.peer[p].rchoked
           /\ S.peer[p].linterested \/ peer[p].down
           /\ \E o \in Chances(Lacking(S, p)) : Asks([S EXCEPT !.peer[p].rtimer = TRUE], p, o)
  <2>1. PICK o \in Chances(Lacking(S, p)) : Asks([S EXCEPT !.peer[p].rtimer = TRUE], p, o)
    BY <1>7
  <2>2. S.peer[p].joined /\ (S.peer[p].linterested \/ S.peer[p].down)
    BY <1>1, <1>4, <1>6, <1>7 DEF Proper, Phases
  <2> QED BY <1>3, <1>6, <1>7, <2>1, <2>2, AskingSound, ChancesAre
<1>8. CASE (S.peer[p].rchoked \/ ~S.peer[p].linterested) /\ Turn(S, p)
  <2>1. S.peer[p].rchoked \/ Interesting(S.dl, S.peer[p]) = {}
    BY <1>6, <1>8 DEF Aware
  <2>2. S.peer[p].current # NoPiece => S.peer[p].inqueue # <<>>
    BY <1>1, <1>6 DEF Busy
  <2> QED BY <1>3, <1>6, <1>8, <2>1, <2>2, RestingSound
<1> QED BY <1>5, <1>7, <1>8

LEMMA BitfieldSound ==
  ASSUME IInv, NEW p \in Peers, NEW bs \in SUBSET Pieces, Bitfield(p, bs)
  PROVE  IInv'
<1> DEFINE S == Learn(Now, p, bs)
<1>1. peer[p] \in PeerType /\ Busy(peer[p], dl)
  BY NowIs, Unfold
<1>2. PICK L : L = {p}
  OBVIOUS
<1>3. peer[p].rchoked /\ Turn(S, p)
  BY DEF Bitfield
<1>4. /\ Sound(S, {}, {}, L) /\ S.peer[p].current = peer[p].current
      /\ S.peer[p].inqueue = peer[p].inqueue /\ S.peer[p].rchoked = peer[p].rchoked
  BY <1>2, LearnSound
<1> HIDE DEF S
<1>5. S.peer[p].current # NoPiece => S.peer[p].inqueue # <<>>
  BY <1>1, <1>4 DEF Busy
<1> QED BY <1>2, <1>3, <1>4, <1>5, RestingSound

(* Serving and refusing.                                                   *)
LEMMA ServeSound ==
  ASSUME NEW S, Sound(S, {}, {}, {}), NEW p \in Peers, NEW q \in Seq(Pieces),
         NEW c \in BOOLEAN, NEW t \in BOOLEAN,
         q # <<>> => ~c /\ Range(q) \subseteq S.dl.completed,
         t => ~c /\ S.peer[p].rinterested, S.peer[p].lchoked => c,
         NEW T, T = Written(S, p, [S.peer[p] EXCEPT !.queue = q, !.lchoked = c, !.ltimer = t])
  PROVE  Sound(T, {}, {}, {})
<1> DEFINE r == S.peer[p]
           s == [r EXCEPT !.queue = q, !.lchoked = c, !.ltimer = t]
<1>1. r \in PeerType /\ Proper(r, S.dl, {}) /\ Busy(r, S.dl)
  BY Unfold
<1>2. /\ s \in PeerType /\ s.joined = r.joined /\ s.current = r.current
      /\ s.inqueue = r.inqueue /\ s.wire = r.wire /\ s.state = r.state
      /\ s.down = r.down /\ s.rchoked = r.rchoked /\ s.ltimer = t /\ s.lchoked = c
      /\ s.rtimer = r.rtimer /\ s.linterested = r.linterested
      /\ s.rinterested = r.rinterested /\ s.queue = q /\ s.told = r.told
      /\ s.missed = r.missed /\ s.blocks = r.blocks
  BY ZenonT(60), <1>1 DEF PeerType
<1>3. T = Written(S, p, s)
  OBVIOUS
<1> HIDE DEF s
<1>4. Proper(s, S.dl, {}) /\ Busy(s, S.dl)
  BY <1>1, <1>2 DEF Proper, Asking, Phases, Timed, Owed, Told, Busy, Interesting
<1>5. Within({}, {}, p)
  BY DEF Within
<1>6. NoNewUpload(S.peer[p], s)
  BY <1>1, <1>2 DEF NoNewUpload, Upload
<1> QED BY <1>2, <1>3, <1>4, <1>5, <1>6, WriteOne

LEMMA RequestSound ==
  ASSUME IInv, NEW p \in Peers, NEW b \in Pieces, Request(p, b) \/ Cancel(p, b)
  PROVE  IInv'
<1> DEFINE r == peer[p]
<1>1. Sound(Now, {}, {}, {}) /\ Now.dl = dl /\ Now.peer = peer
  BY NowIs
<1>2. /\ Now \in State /\ peer \in [Peers -> PeerType] /\ r \in PeerType /\ Proper(r, dl, {})
  BY <1>1, Unfold
<1>3. /\ r.queue \in Seq(Pieces) /\ r.lchoked \in BOOLEAN /\ r.ltimer \in BOOLEAN
      /\ r.queue # <<>> => ~r.lchoked /\ Range(r.queue) \subseteq dl.completed
      /\ r.ltimer => ~r.lchoked /\ r.rinterested
  BY <1>2 DEF PeerType, Proper, Owed, Timed
<1>4. ASSUME NEW q, [Now EXCEPT !.peer[p].queue = q] = [Now EXCEPT !.peer[p].queue = q]
      PROVE  [Now EXCEPT !.peer[p].queue = q] =
             Written(Now, p, [r EXCEPT !.queue = q, !.lchoked = r.lchoked, !.ltimer = r.ltimer])
  <2>1. [r EXCEPT !.queue = q, !.lchoked = r.lchoked, !.ltimer = r.ltimer] = [r EXCEPT !.queue = q]
    BY <1>2 DEF PeerType
  <2>2. [Now EXCEPT !.peer[p].queue = q] = Written(Now, p, [r EXCEPT !.queue = q])
    BY <1>1, <1>2 DEF State, Written
  <2> QED BY <2>1, <2>2
<1>5. CASE Cancel(p, b)
  <2> DEFINE q == Unqueue(r.queue, b)
  <2>1. Turn([Now EXCEPT !.peer[p].queue = q], p)
    BY <1>1, <1>5 DEF Cancel
  <2>2. /\ q \in Seq(Pieces) /\ Len(q) = Len(r.queue) - Times(r.queue, b) /\ Times(r.queue, b) \in Nat
        /\ Range(q) \subseteq Range(r.queue)
    BY <1>3, UnqueueIs, TimesUnqueue, SitesFinite
  <2> HIDE DEF q
  <2>3. q # <<>> => r.queue # <<>>
    <3>1. q # <<>> => Len(q) > 0
      BY <2>2
    <3> QED BY <1>3, <2>2, <3>1
  <2>4. q # <<>> => ~r.lchoked /\ Range(q) \subseteq Now.dl.completed
    BY <1>1, <1>3, <2>2, <2>3
  <2>5. r.ltimer => ~r.lchoked /\ Now.peer[p].rinterested
    BY <1>1, <1>3
  <2>6. Sound([Now EXCEPT !.peer[p].queue = q], {}, {}, {})
    <3>1. PICK T : T = [Now EXCEPT !.peer[p].queue = q]
      OBVIOUS
    <3>2. T = Written(Now, p, [Now.peer[p] EXCEPT !.queue = q, !.lchoked = r.lchoked, !.ltimer = r.ltimer])
      BY <1>1, <1>4, <3>1
    <3>3. Sound(T, {}, {}, {})
      BY <1>1, <1>3, <2>2, <2>4, <2>5, <3>2, ServeSound
    <3> QED BY <3>1, <3>3
  <2> QED BY <2>1, <2>6, TurnSound
<1>6. CASE Request(p, b)
  <2>1. CASE r.lchoked /\ Turn(Now, p)
    BY <1>1, <2>1, TurnSound
  <2>2. CASE Turn([SendChoke(Now, p, TRUE) EXCEPT !.peer[p].ltimer = FALSE], p) /\ ~r.lchoked
    <3>1. PICK S : S = SendChoke(Now, p, TRUE)
      OBVIOUS
    <3>2. PICK T : T = [S EXCEPT !.peer[p].ltimer = FALSE]
      OBVIOUS
    <3>3. PICK u : u = [r EXCEPT !.queue = <<>>, !.lchoked = TRUE]
      OBVIOUS
    <3>4. S = [dl |-> dl, peer |-> [peer EXCEPT ![p] = u]]
      <4>1. SendChoke(Now, p, TRUE) =
              [Now EXCEPT !.peer[p] = [r EXCEPT !.queue = IF r.lchoked # TRUE THEN <<>> ELSE r.queue, !.lchoked = TRUE]]
        BY <1>1, Zenon DEF SendChoke
      <4>2. [r EXCEPT !.queue = IF r.lchoked # TRUE THEN <<>> ELSE r.queue, !.lchoked = TRUE] = u
        BY <2>2, <3>3
      <4>3. S = [Now EXCEPT !.peer[p] = u]
        BY <3>1, <4>1, <4>2
      <4> QED BY <1>1, <1>2, <4>3 DEF State
    <3>5. T = [dl |-> dl, peer |-> [peer EXCEPT ![p] = [u EXCEPT !.ltimer = FALSE]]]
      BY <1>2, <3>2, <3>4
    <3>6. [u EXCEPT !.ltimer = FALSE] = [r EXCEPT !.queue = <<>>, !.lchoked = TRUE, !.ltimer = FALSE]
      BY <1>2, <3>3 DEF PeerType
    <3>7. T = Written(Now, p, [Now.peer[p] EXCEPT !.queue = <<>>, !.lchoked = TRUE, !.ltimer = FALSE])
      <4>1. PICK s : s = [u EXCEPT !.ltimer = FALSE]
        OBVIOUS
      <4>2. T = Written(Now, p, s)
        <5>1. T = [dl |-> dl, peer |-> [peer EXCEPT ![p] = s]]
          BY <3>5, <4>1, Zenon
        <5> QED BY <1>1, <1>2, <5>1 DEF Written, State
      <4>3. s = [Now.peer[p] EXCEPT !.queue = <<>>, !.lchoked = TRUE, !.ltimer = FALSE]
        BY <1>1, <3>6, <4>1
      <4> QED BY <4>2, <4>3
    <3>8. PICK q : q = <<>>
      OBVIOUS
    <3>9. q \in Seq(Pieces)
      BY <3>8
    <3>10. Sound(T, {}, {}, {})
      BY <1>1, <3>7, <3>8, <3>9, ServeSound
    <3>11. Turn(T, p)
      BY <2>2, <3>1, <3>2
    <3> QED BY <3>10, <3>11, TurnSound
  <2>3. CASE End(Now, p)
    BY <1>1, <2>3, EndSound
  <2>4. CASE Turn([Now EXCEPT !.peer[p].queue = Append(r.queue, b)], p) /\ ~r.lchoked /\ b \in dl.completed
    <3> DEFINE q == Append(r.queue, b)
    <3>1. q \in Seq(Pieces) /\ \A i \in DOMAIN q : q[i] \in Range(r.queue) \cup {b}
      <4>1. \A i \in DOMAIN q : (i \in DOMAIN r.queue /\ q[i] = r.queue[i]) \/ q[i] = b
        BY <1>3, Appended
      <4> QED BY <1>3, <4>1 DEF Range
    <3>2. Range(r.queue) \subseteq dl.completed
      BY <1>3, <2>4 DEF Range
    <3> HIDE DEF q
    <3>3. Range(q) \subseteq Now.dl.completed
      BY SMTT(30), <1>1, <2>4, <3>1, <3>2 DEF Range
    <3>4. PICK T : T = [Now EXCEPT !.peer[p].queue = q]
      OBVIOUS
    <3>5. T = Written(Now, p, [Now.peer[p] EXCEPT !.queue = q, !.lchoked = r.lchoked, !.ltimer = r.ltimer])
      BY <1>1, <1>4, <3>4
    <3>6. Sound(T, {}, {}, {})
      BY <1>1, <1>3, <2>4, <3>1, <3>3, <3>5, ServeSound
    <3> QED BY <2>4, <3>4, <3>6, TurnSound DEF q
  <2>5. Now.peer[p] = r /\ [Now EXCEPT !.peer[p].queue = Append(@, b)] = [Now EXCEPT !.peer[p].queue = Append(r.queue, b)]
    BY <1>1
  <2>6. \/ r.lchoked /\ Turn(Now, p)
        \/ Turn([SendChoke(Now, p, TRUE) EXCEPT !.peer[p].ltimer = FALSE], p) /\ ~r.lchoked
        \/ End(Now, p)
        \/ Turn([Now EXCEPT !.peer[p].queue = Append(@, b)], p) /\ ~r.lchoked /\ b \in dl.completed
    BY <1>6 DEF Request
  <2> QED BY <2>1, <2>2, <2>3, <2>4, <2>5, <2>6
<1> QED BY <1>5, <1>6

(* The steps that write one peer and nothing else.                         *)
LEMMA WriteNow ==
  ASSUME IInv, NEW p \in Peers, NEW s \in PeerType,
         s.joined = peer[p].joined, s.current = peer[p].current, NoNewUpload(peer[p], s),
         Proper(s, dl, {}), Busy(s, dl), peer' = [peer EXCEPT ![p] = s], dl' = dl
  PROVE  IInv'
<1>1. Sound(Now, {}, {}, {}) /\ Now.dl = dl /\ Now.peer = peer
  BY NowIs
<1>2. PICK T : T = Written(Now, p, s)
  OBVIOUS
<1>3. Within({}, {}, p)
  BY DEF Within
<1>4. s.joined = Now.peer[p].joined /\ s.current = Now.peer[p].current
      /\ NoNewUpload(Now.peer[p], s)
      /\ Proper(s, Now.dl, {}) /\ Busy(s, Now.dl)
  BY <1>1
<1>5. Sound(T, {}, {}, {})
  BY <1>1, <1>2, <1>3, <1>4, WriteOne
<1>6. T.dl = dl /\ T.peer = [peer EXCEPT ![p] = s]
  <2>1. Now \in State
    BY <1>1, Unfold
  <2> QED BY <1>1, <1>2, <2>1 DEF Written, State
<1> QED BY <1>5, <1>6, NextSound

LEMMA SnubSound ==
  ASSUME IInv, NEW p \in Peers, Snub(p)
  PROVE  IInv'
<1>1. /\ peer \in [Peers -> PeerType] /\ peer[p] \in PeerType
      /\ Proper(peer[p], dl, {}) /\ Busy(peer[p], dl)
  BY NowIs, Unfold
<1>2. PICK s : s = [peer[p] EXCEPT !.snubbed = TRUE]
  OBVIOUS
<1>3. peer' = [peer EXCEPT ![p] = s] /\ dl' = dl
  BY <1>1, <1>2 DEF Snub
<1>4. /\ s \in PeerType /\ s.joined = peer[p].joined /\ s.current = peer[p].current
      /\ s.inqueue = peer[p].inqueue /\ s.wire = peer[p].wire /\ s.state = peer[p].state
      /\ s.rchoked = peer[p].rchoked /\ s.ltimer = peer[p].ltimer /\ s.lchoked = peer[p].lchoked
      /\ s.rtimer = peer[p].rtimer /\ s.linterested = peer[p].linterested
      /\ s.rinterested = peer[p].rinterested /\ s.queue = peer[p].queue /\ s.told = peer[p].told
      /\ s.missed = peer[p].missed /\ s.blocks = peer[p].blocks
      /\ peer[p].down => s.down
  BY ZenonT(60), <1>1, <1>2 DEF PeerType
<1>5. Proper(s, dl, {}) /\ Busy(s, dl)
  <2>1. Asking(s, dl, {}) /\ Owed(s, dl) /\ Told(s, dl, {})
    BY <1>1, <1>4 DEF Proper, Asking, Owed, Told
  <2>2. Phases(s) /\ Timed(s) /\ Busy(s, dl)
    BY <1>1, <1>4 DEF Proper, Phases, Timed, Busy, Interesting
  <2> QED BY <2>1, <2>2 DEF Proper
<1>6. NoNewUpload(peer[p], s)
  BY <1>4, UploadKept
<1> QED BY <1>3, <1>4, <1>5, <1>6, WriteNow

LEMMA GoneSound ==
  ASSUME IInv, NEW p \in Peers, Gone(p)
  PROVE  IInv'
<1>1. /\ peer \in [Peers -> PeerType] /\ peer[p] \in PeerType
      /\ Proper(peer[p], dl, {}) /\ Busy(peer[p], dl)
  BY NowIs, Unfold
<1>2. PICK s : s = [peer[p] EXCEPT !.down = TRUE]
  OBVIOUS
<1>3. peer' = [peer EXCEPT ![p] = s] /\ dl' = dl
  BY <1>1, <1>2 DEF Gone
<1>4. /\ s \in PeerType /\ s.joined = peer[p].joined /\ s.current = peer[p].current
      /\ s.inqueue = peer[p].inqueue /\ s.wire = peer[p].wire /\ s.state = peer[p].state
      /\ s.rchoked = peer[p].rchoked /\ s.ltimer = peer[p].ltimer /\ s.lchoked = peer[p].lchoked
      /\ s.rtimer = peer[p].rtimer /\ s.linterested = peer[p].linterested
      /\ s.rinterested = peer[p].rinterested /\ s.queue = peer[p].queue /\ s.told = peer[p].told
      /\ s.missed = peer[p].missed /\ s.blocks = peer[p].blocks
      /\ peer[p].down => s.down
  BY <1>1, <1>2 DEF PeerType
<1>5. Proper(s, dl, {}) /\ Busy(s, dl)
  <2>1. Asking(s, dl, {}) /\ Owed(s, dl) /\ Told(s, dl, {})
    BY <1>1, <1>4 DEF Proper, Asking, Owed, Told
  <2>2. Phases(s) /\ Timed(s) /\ Busy(s, dl)
    BY <1>1, <1>4 DEF Proper, Phases, Timed, Busy, Interesting
  <2> QED BY <2>1, <2>2 DEF Proper
<1>6. NoNewUpload(peer[p], s)
  BY <1>4, UploadKept
<1> QED BY <1>3, <1>4, <1>5, <1>6, WriteNow

LEMMA QuietSound ==
  ASSUME IInv, NEW p \in Peers, Execute(p) \/ Close(p)
  PROVE  IInv'
<1>1. Sound(Now, {}, {}, {})
  BY NowIs
<1>2. Turn(Now, p) \/ End(Now, p)
  BY DEF Execute, Close
<1> QED BY <1>1, <1>2, TurnSound, EndSound

(* Connections.                                                            *)
LEMMA ConnectCompleteSound ==
  ASSUME IInv, NEW p \in Peers, ConnectComplete(p)
  PROVE  IInv'
<1>1. /\ peer \in [Peers -> PeerType] /\ peer[p] \in PeerType /\ dl \in DlType
      /\ Proper(peer[p], dl, {}) /\ Busy(peer[p], dl)
  BY NowIs, Unfold
<1>2. PICK c : c = dl.completed
  OBVIOUS
<1>3. PICK e : e = {}
  OBVIOUS
<1>4. PICK s : s = [peer[p] EXCEPT !.state = "OUTGOING", !.told = c, !.missed = e]
  OBVIOUS
<1>5. c \in SUBSET Pieces /\ e \in SUBSET Pieces
  BY <1>1, <1>2, <1>3 DEF DlType
<1>6. /\ peer' = [peer EXCEPT ![p] = s] /\ dl' = dl
      /\ peer[p].state = "INIT"
  <2>1. peer' = [peer EXCEPT ![p] = [peer[p] EXCEPT !.state = "OUTGOING", !.told = c, !.missed = e]]
    BY <1>1, <1>2, <1>3 DEF ConnectComplete
  <2> QED BY <1>4, <2>1 DEF ConnectComplete
<1>7. /\ s \in PeerType /\ s.joined = peer[p].joined /\ s.current = peer[p].current
      /\ s.inqueue = peer[p].inqueue /\ s.wire = peer[p].wire /\ s.state = "OUTGOING"
      /\ s.rchoked = peer[p].rchoked /\ s.ltimer = peer[p].ltimer /\ s.lchoked = peer[p].lchoked
      /\ s.rtimer = peer[p].rtimer /\ s.linterested = peer[p].linterested
      /\ s.rinterested = peer[p].rinterested /\ s.queue = peer[p].queue /\ s.told = c
      /\ s.blocks = peer[p].blocks /\ s.down = peer[p].down
  BY ZenonT(60), <1>1, <1>4, <1>5 DEF PeerType
<1>8. Proper(s, dl, {}) /\ Busy(s, dl)
  <2>1. Asking(s, dl, {}) /\ Owed(s, dl) /\ Told(s, dl, {})
    BY <1>1, <1>2, <1>7 DEF Proper, Asking, Owed, Told
  <2>2. Phases(s) /\ Timed(s) /\ Busy(s, dl)
    BY <1>1, <1>6, <1>7 DEF Proper, Phases, Timed, Busy, Interesting
  <2> QED BY <2>1, <2>2 DEF Proper
<1>9. NoNewUpload(peer[p], s)
  BY <1>7, UploadKept
<1> QED BY <1>6, <1>7, <1>8, <1>9, WriteNow

(* A peer before any handshake: nothing of it is known yet.                *)
Fresh(s, d) ==
  /\ s \in PeerType /\ s.current = NoPiece /\ s.inqueue = <<>> /\ s.queue = <<>> /\ s.wire = <<>>
  /\ s.rchoked /\ s.lchoked /\ ~s.rtimer /\ ~s.ltimer
  /\ s.state \in {"INIT", "OUTGOING", "INCOMING"}
  /\ s.joined /\ s.state # "INIT" => d.completed \subseteq s.told

LEMMA FreshProper ==
  ASSUME NEW d, NEW s, Fresh(s, d)
  PROVE  Proper(s, d, {}) /\ Busy(s, d)
<1>1. /\ s \in PeerType /\ s.current = NoPiece /\ s.inqueue = <<>> /\ s.queue = <<>> /\ s.wire = <<>>
      /\ s.rchoked /\ s.lchoked /\ ~s.rtimer /\ ~s.ltimer
      /\ s.state \in {"INIT", "OUTGOING", "INCOMING"}
      /\ s.joined /\ s.state # "INIT" => d.completed \subseteq s.told
  BY DEF Fresh
<1>2. Asking(s, d, {})
  <2>1. \A rq : Times(s.inqueue, rq) = 0 /\ Times(s.wire, rq) = 0
    BY <1>1, TimesEmpty
  <2> QED BY <1>1, <2>1 DEF Asking
<1>3. Phases(s) /\ Timed(s) /\ Owed(s, d) /\ Told(s, d, {})
  BY <1>1 DEF Phases, Timed, Owed, Told
<1>4. Busy(s, d)
  BY <1>1 DEF Busy
<1> QED BY <1>2, <1>3, <1>4 DEF Proper

LEMMA PeerAnswerSound ==
  ASSUME IInv, NEW p \in Peers, PeerAnswer(p)
  PROVE  IInv'
<1>1. /\ peer[p] \in PeerType /\ Proper(peer[p], dl, {})
  BY NowIs, Unfold
<1>2. PICK s : s = [Nobody EXCEPT !.state = "INCOMING"]
  OBVIOUS
<1>3. peer' = [peer EXCEPT ![p] = s] /\ dl' = dl /\ peer[p].state = "NONE"
  BY <1>2 DEF PeerAnswer
<1>4. ~peer[p].joined /\ peer[p].current = NoPiece
  BY <1>1, <1>3 DEF Proper, Phases, Asking
<1>5. Fresh(s, dl) /\ ~s.joined
  <2>1. Nobody \in PeerType
    BY NobodyProper
  <2> QED BY ZenonT(60), <1>2, <2>1 DEF Fresh, Nobody, PeerType
<1>6. s \in PeerType /\ s.current = NoPiece /\ s.joined = peer[p].joined
  BY <1>1, <1>4, <1>5 DEF Fresh, PeerType
<1>7. Proper(s, dl, {}) /\ Busy(s, dl)
  BY <1>5, FreshProper
<1>8. NoNewUpload(peer[p], s)
  BY <1>5 DEF Fresh, NoNewUpload, Upload
<1> QED BY <1>3, <1>4, <1>6, <1>7, <1>8, WriteNow

LEMMA AppendNew ==
  ASSUME NEW R, NEW q \in Seq(R), NEW x \in R, IsInjective(q), x \notin Range(q),
         NEW t, t = Append(q, x)
  PROVE  /\ t \in Seq(R) /\ IsInjective(t)
         /\ \A y : y \in Range(t) <=> y \in Range(q) \/ y = x
<1>1. /\ t \in Seq(R) /\ Len(q) \in Nat
      /\ DOMAIN t = 1..Len(q) + 1 /\ DOMAIN q = 1..Len(q)
      /\ \A i \in 1..Len(q) : t[i] = q[i]
      /\ t[Len(q) + 1] = x
  OBVIOUS
<1>2. \A i \in 1..Len(q) : q[i] # x
  BY <1>1 DEF Range
<1>3. IsInjective(t)
  <2> SUFFICES ASSUME NEW i \in 1..Len(q) + 1, NEW j \in 1..Len(q) + 1, t[i] = t[j]
               PROVE  i = j
    BY <1>1 DEF IsInjective
  <2>1. CASE i \in 1..Len(q) /\ j \in 1..Len(q)
    BY <1>1, <2>1 DEF IsInjective
  <2>2. CASE i \notin 1..Len(q) /\ j \in 1..Len(q)
    BY <1>1, <1>2, <2>2
  <2>3. CASE i \in 1..Len(q) /\ j \notin 1..Len(q)
    BY <1>1, <1>2, <2>3
  <2>4. CASE i \notin 1..Len(q) /\ j \notin 1..Len(q)
    BY <1>1, <2>4
  <2> QED BY <2>1, <2>2, <2>3, <2>4
<1>4. Range(t) = Range(q) \cup {x}
  <2>1. \A i \in DOMAIN t : t[i] \in Range(q) \cup {x}
    BY <1>1 DEF Range
  <2>2. \A i \in DOMAIN q : q[i] \in Range(t)
    <3> TAKE i \in DOMAIN q
    <3>1. i \in DOMAIN t /\ t[i] = q[i]
      BY <1>1
    <3> QED BY <3>1 DEF Range
  <2>3. x \in Range(t)
    <3>1. Len(q) + 1 \in DOMAIN t /\ t[Len(q) + 1] = x
      BY <1>1
    <3> QED BY <3>1 DEF Range
  <2> QED BY SMTT(30), <2>1, <2>2, <2>3 DEF Range
<1>5. t \in Seq(R)
  BY <1>1
<1>6. \A y : y \in Range(t) <=> y \in Range(q) \/ y = x
  BY <1>4
<1> QED BY <1>3, <1>5, <1>6

LEMMA EnterSound ==
  ASSUME IInv, NEW p \in Peers, ~peer[p].joined, NEW s \in PeerType, s.joined,
         s.current = NoPiece, ~Upload(s), Proper(s, dl, {}), Busy(s, dl), NEW n \in Int,
         NEW e, e = [dl EXCEPT !.pset = Append(dl.pset, p), !.incomplete = n], dl' = e,
         peer' = [peer EXCEPT ![p] = s]
  PROVE  IInv'
<1>1. /\ Sound(Now, {}, {}, {}) /\ Now.dl = dl /\ Now.peer = peer
  BY NowIs
<1>2. /\ dl \in DlType /\ peer \in [Peers -> PeerType] /\ PartsSound(dl)
      /\ SetSound(Now) /\ MarksSound(Now) /\ FewSound(Now) /\ Now \in State
      /\ \A q \in Peers : peer[q] \in PeerType /\ Proper(peer[q], dl, {}) /\ Busy(peer[q], dl)
  BY <1>1, Unfold
<1>3. e = [dl EXCEPT !.pset = Append(dl.pset, p), !.incomplete = n]
  OBVIOUS
<1>4. PICK T : T = [dl |-> e, peer |-> [peer EXCEPT ![p] = s]]
  OBVIOUS
<1>5. /\ dl.pset \in Seq(Peers) /\ IsInjective(dl.pset) /\ p \notin Range(dl.pset)
      /\ Range(dl.pset) = {q \in Peers : peer[q].joined}
  BY <1>1, <1>2 DEF DlType, SetSound
<1>6. PICK t : t = Append(dl.pset, p)
  OBVIOUS
<1>7. /\ t \in Seq(Peers) /\ IsInjective(t)
      /\ \A y : y \in Range(t) <=> y \in Range(dl.pset) \/ y = p
  <2>1. PICK ps : ps = dl.pset
    OBVIOUS
  <2>2. p \in Peers /\ ps \in Seq(Peers) /\ IsInjective(ps) /\ p \notin Range(ps) /\ t = Append(ps, p)
    BY <1>5, <1>6, <2>1
  <2>3. /\ t \in Seq(Peers) /\ IsInjective(t)
        /\ \A y : y \in Range(t) <=> y \in Range(ps) \/ y = p
    BY <2>2, AppendNew
  <2> QED BY <2>1, <2>3
<1>8. /\ e \in DlType /\ e.pset = t /\ e.completed = dl.completed /\ e.requested = dl.requested
      /\ e.interested = dl.interested /\ e.partial = dl.partial
  BY <1>2, <1>3, <1>6, <1>7 DEF DlType
<1>9. /\ T \in State /\ T.dl = e /\ T.peer[p] = s
      /\ \A q \in Peers \ {p} : T.peer[q] = peer[q]
  BY <1>1, <1>2, <1>4, <1>8, NewState
<1>10. Keeps(dl, e) /\ PartsSound(e)
  BY <1>2, <1>8 DEF Keeps, PartsSound, HasPart
<1>11. SetSound(T)
  BY ZenonT(60), <1>5, <1>7, <1>8, <1>9 DEF SetSound
<1>12. MarksSound(T)
  <2> SUFFICES ASSUME NEW b \in e.requested \ e.completed
               PROVE  \E q \in Peers : T.peer[q].current = b
    BY <1>9 DEF MarksSound
  <2>1. PICK q \in Peers : peer[q].current = b
    BY <1>1, <1>2, <1>8 DEF MarksSound
  <2>2. b # NoPiece
    BY <1>8, PiecesAre DEF DlType
  <2>3. q # p
    BY <1>2, <2>1, <2>2 DEF Proper, Asking
  <2> QED BY <1>9, <2>1, <2>3
<1>13. \A q \in Peers : Proper(T.peer[q], e, {}) /\ Busy(T.peer[q], e)
  BY <1>2, <1>9, <1>10, ProperKept
<1>16. FewSound(T)
  <2>1. \A q \in Peers : NoNewUpload(Now.peer[q], T.peer[q])
    BY <1>1, <1>9 DEF NoNewUpload
  <2> QED BY <1>2, <2>1, FewKept
<1>14. Sound(T, {}, {}, {})
  BY <1>9, <1>10, <1>11, <1>12, <1>13, <1>16 DEF Sound, Whole
<1>15. dl' = T.dl /\ peer' = T.peer
  BY <1>3, <1>4
<1> QED BY <1>14, <1>15, NextSound

LEMMA PeerAddSound ==
  ASSUME IInv, NEW p \in Peers, NEW atOnce \in BOOLEAN, PeerAdd(p, atOnce)
  PROVE  IInv'
<1>1. /\ peer[p] \in PeerType /\ Proper(peer[p], dl, {}) /\ dl \in DlType
  BY NowIs, Unfold
<1>2. PICK m : m = IF atOnce THEN "OUTGOING" ELSE "INIT"
  OBVIOUS
<1>3. PICK k : k = IF atOnce THEN dl.completed ELSE {}
  OBVIOUS
<1>4. PICK s : s = [Nobody EXCEPT !.joined = TRUE, !.state = m, !.told = k]
  OBVIOUS
<1>5. /\ peer' = [peer EXCEPT ![p] = s] /\ peer[p].state = "NONE"
      /\ dl' = [dl EXCEPT !.pset = Append(dl.pset, p)]
  BY <1>2, <1>3, <1>4 DEF PeerAdd
<1>6. ~peer[p].joined
  BY <1>1, <1>5 DEF Proper, Phases
<1>7. k \in SUBSET Pieces /\ m \in {"OUTGOING", "INIT"} /\ (m = "OUTGOING" => k = dl.completed)
  BY <1>1, <1>2, <1>3 DEF DlType
<1>8. Fresh(s, dl) /\ s.joined
  <2>1. Nobody \in PeerType
    BY NobodyProper
  <2> QED BY ZenonT(60), <1>4, <1>7, <2>1 DEF Fresh, Nobody, PeerType
<1>9. s \in PeerType /\ s.current = NoPiece
  BY <1>8 DEF Fresh
<1>10. PICK n : n = dl.incomplete
  OBVIOUS
<1>11. n \in Int /\ dl' = [dl EXCEPT !.pset = Append(dl.pset, p), !.incomplete = n]
  BY <1>1, <1>5, <1>10 DEF DlType
<1>12. PICK e : e = [dl EXCEPT !.pset = Append(dl.pset, p), !.incomplete = n] /\ dl' = e
  BY <1>11
<1>13. ~Upload(s) /\ Proper(s, dl, {}) /\ Busy(s, dl)
  BY <1>8, FreshProper DEF Fresh, Upload
<1> QED BY <1>5, <1>6, <1>8, <1>9, <1>11, <1>12, <1>13, EnterSound

LEMMA JoinSound ==
  ASSUME IInv, NEW p \in Peers, ~peer[p].joined, Shaking(p),
         NEW m \in {"OUTGOING", "INCOMING", "GOOD"}, m \in {peer[p].state, "GOOD"},
         NEW c, c = dl.completed,
         NEW s, s = [peer[p] EXCEPT !.joined = TRUE, !.told = c, !.state = m]
  PROVE  /\ s \in PeerType /\ s.joined /\ s.current = NoPiece /\ ~Upload(s)
         /\ Proper(s, dl, {}) /\ Busy(s, dl)
<1>1. /\ dl \in DlType /\ peer[p] \in PeerType /\ Proper(peer[p], dl, {}) /\ Busy(peer[p], dl)
  BY NowIs, Unfold
<1>2. /\ peer[p].state \in {"OUTGOING", "INCOMING"} /\ peer[p].rchoked /\ peer[p].lchoked
      /\ peer[p].current = NoPiece
  BY <1>1 DEF Shaking, Proper, Phases, Asking
<1>3. c \in SUBSET Pieces
  BY <1>1 DEF DlType
<1>4. /\ s \in PeerType /\ s.joined /\ s.current = peer[p].current
      /\ s.inqueue = peer[p].inqueue /\ s.wire = peer[p].wire /\ s.state = m
      /\ s.rchoked = peer[p].rchoked /\ s.ltimer = peer[p].ltimer /\ s.lchoked = peer[p].lchoked
      /\ s.rtimer = peer[p].rtimer /\ s.linterested = peer[p].linterested
      /\ s.rinterested = peer[p].rinterested /\ s.queue = peer[p].queue /\ s.told = c
      /\ s.blocks = peer[p].blocks /\ s.down = peer[p].down /\ s.missed = peer[p].missed
  BY ZenonT(60), <1>1, <1>3 DEF PeerType
<1>5. Asking(s, dl, {}) /\ Owed(s, dl) /\ Told(s, dl, {})
  BY <1>1, <1>2, <1>4 DEF Proper, Asking, Owed, Told
<1>6. Phases(s) /\ Timed(s) /\ Busy(s, dl)
  BY <1>1, <1>2, <1>4 DEF Proper, Phases, Timed, Busy
<1> QED BY <1>2, <1>4, <1>5, <1>6 DEF Proper, Upload

LEMMA HalfHandshakeSound ==
  ASSUME IInv, NEW p \in Peers, HalfHandshake(p)
  PROVE  IInv'
<1>1. /\ dl \in DlType /\ peer \in [Peers -> PeerType] /\ peer[p] \in PeerType
      /\ Now.dl = dl /\ Now.peer = peer
  BY NowIs, Unfold
<1>2. Shaking(p) /\ ~peer[p].joined /\ peer[p].state \in {"OUTGOING", "INCOMING"}
  BY DEF HalfHandshake, Shaking
<1>3. PICK c : c = dl.completed
  OBVIOUS
<1>4. PICK m : m = peer[p].state
  OBVIOUS
<1>5. PICK s : s = [peer[p] EXCEPT !.joined = TRUE, !.told = c, !.state = m]
  OBVIOUS
<1>6. /\ s \in PeerType /\ s.joined /\ s.current = NoPiece /\ ~Upload(s)
      /\ Proper(s, dl, {}) /\ Busy(s, dl)
  BY ZenonT(60), <1>2, <1>3, <1>4, <1>5, JoinSound
<1>7. PICK n : n = dl.incomplete
  OBVIOUS
<1>8. PICK e : e = [dl EXCEPT !.pset = Append(dl.pset, p), !.incomplete = n]
  OBVIOUS
<1>9. n \in Int /\ e = [dl EXCEPT !.pset = Append(dl.pset, p)]
  BY <1>1, <1>7, <1>8 DEF DlType
<1>10. /\ dl' = [dl EXCEPT !.pset = Append(dl.pset, p)]
       /\ peer' = [peer EXCEPT ![p].joined = TRUE, ![p].told = c]
  BY <1>1, <1>2, <1>3 DEF HalfHandshake, Join
<1>11. peer' = [peer EXCEPT ![p] = s]
  <2>1. [peer EXCEPT ![p].joined = TRUE, ![p].told = c] = [peer EXCEPT ![p] = [peer[p] EXCEPT !.joined = TRUE, !.told = c]]
    BY <1>1
  <2>2. [peer[p] EXCEPT !.joined = TRUE, !.told = c] = s
    BY <1>1, <1>4, <1>5 DEF PeerType
  <2> QED BY <1>10, <2>1, <2>2
<1>12. dl' = e
  BY <1>9, <1>10
<1> QED BY <1>2, <1>6, <1>8, <1>9, <1>11, <1>12, EnterSound

LEMMA RecvHandshakeSound ==
  ASSUME IInv, NEW p \in Peers, RecvHandshake(p)
  PROVE  IInv'
<1>1. /\ dl \in DlType /\ peer \in [Peers -> PeerType] /\ peer[p] \in PeerType
      /\ Proper(peer[p], dl, {}) /\ Busy(peer[p], dl)
      /\ Sound(Now, {}, {}, {}) /\ Now.dl = dl /\ Now.peer = peer /\ Now \in State
  BY NowIs, Unfold
<1>2. Shaking(p) /\ peer[p].state \in {"OUTGOING", "INCOMING"}
  BY DEF RecvHandshake, Shaking
<1>3. PICK n : n = dl.incomplete + 1
  OBVIOUS
<1>4. n \in Int
  BY <1>1, <1>3 DEF DlType
<1>5. CASE peer[p].joined
  <2>1. PICK s : s = [peer[p] EXCEPT !.state = "GOOD"]
    OBVIOUS
  <2>2. PICK e : e = [dl EXCEPT !.incomplete = n]
    OBVIOUS
  <2>3. peer' = [peer EXCEPT ![p] = s] /\ dl' = e
    <3>1. peer' = [peer EXCEPT ![p].state = "GOOD"] /\ dl' = [dl EXCEPT !.incomplete = dl.incomplete + 1]
      BY <1>1, <1>5 DEF RecvHandshake, Join
    <3> QED BY <1>1, <1>3, <2>1, <2>2, <3>1
  <2>4. /\ s \in PeerType /\ s.joined = peer[p].joined /\ s.current = peer[p].current
        /\ s.inqueue = peer[p].inqueue /\ s.wire = peer[p].wire /\ s.state = "GOOD"
        /\ s.rchoked = peer[p].rchoked /\ s.ltimer = peer[p].ltimer /\ s.lchoked = peer[p].lchoked
        /\ s.rtimer = peer[p].rtimer /\ s.linterested = peer[p].linterested
        /\ s.rinterested = peer[p].rinterested /\ s.queue = peer[p].queue /\ s.told = peer[p].told
        /\ s.blocks = peer[p].blocks /\ s.down = peer[p].down /\ s.missed = peer[p].missed
    BY ZenonT(60), <1>1, <2>1 DEF PeerType
  <2>5. Asking(s, dl, {}) /\ Owed(s, dl) /\ Told(s, dl, {})
    BY <1>1, <1>2, <1>5, <2>4 DEF Proper, Asking, Owed, Told
  <2>6. Phases(s) /\ Timed(s) /\ Busy(s, dl)
    BY <1>1, <1>2, <1>5, <2>4 DEF Proper, Phases, Timed, Busy
  <2>7. e \in DlType /\ SameParts(dl, e)
    BY <1>1, <1>4, <2>2 DEF DlType, SameParts
  <2>8. PICK T : T = [dl |-> e, peer |-> [Now.peer EXCEPT ![p] = s]]
    OBVIOUS
  <2>9. /\ s.joined = Now.peer[p].joined /\ s.current = Now.peer[p].current
        /\ Proper(s, Now.dl, {}) /\ Busy(s, Now.dl) /\ SameParts(Now.dl, e) /\ Within({}, {}, p)
    BY <1>1, <2>4, <2>5, <2>6, <2>7 DEF Proper, Within
  <2>12. NoNewUpload(Now.peer[p], s)
    <3>1. peer[p].lchoked
      BY <1>1, <1>2 DEF Proper, Phases
    <3> QED BY <2>4, <3>1 DEF NoNewUpload, Upload
  <2>10. Sound(T, {}, {}, {})
    BY <1>1, <2>4, <2>7, <2>8, <2>9, <2>12, WriteSound
  <2>11. dl' = T.dl /\ peer' = T.peer
    BY <1>1, <2>3, <2>8
  <2> QED BY <2>10, <2>11, NextSound
<1>6. CASE ~peer[p].joined
  <2>1. PICK c : c = dl.completed
    OBVIOUS
  <2>2. PICK m : m = "GOOD"
    OBVIOUS
  <2>3. PICK s : s = [peer[p] EXCEPT !.joined = TRUE, !.told = c, !.state = m]
    OBVIOUS
  <2>4. /\ s \in PeerType /\ s.joined /\ s.current = NoPiece /\ ~Upload(s)
        /\ Proper(s, dl, {}) /\ Busy(s, dl)
    BY <1>2, <1>6, <2>1, <2>2, <2>3, JoinSound
  <2>5. PICK e : e = [dl EXCEPT !.pset = Append(dl.pset, p), !.incomplete = n]
    OBVIOUS
  <2>6. PICK S : S = Join(Now, p)
    OBVIOUS
  <2>7. S = [dl |-> [dl EXCEPT !.pset = Append(dl.pset, p)],
             peer |-> [peer EXCEPT ![p].joined = TRUE, ![p].told = c]]
    BY <1>1, <1>6, <2>1, <2>6 DEF Join
  <2>8. peer' = [S.peer EXCEPT ![p].state = "GOOD"] /\ dl' = [S.dl EXCEPT !.incomplete = S.dl.incomplete + 1]
    BY <2>6 DEF RecvHandshake
  <2>9. dl' = e
    <3>1. PICK f : f = [dl EXCEPT !.pset = Append(dl.pset, p)]
      OBVIOUS
    <3>2. S.dl = f /\ f.incomplete = dl.incomplete
      BY <1>1, <2>7, <3>1 DEF DlType
    <3>3. dl' = [f EXCEPT !.incomplete = n]
      BY <1>3, <2>8, <3>2
    <3> QED BY <1>1, <2>5, <3>1, <3>3 DEF DlType
  <2>10. peer' = [peer EXCEPT ![p] = s]
    <3>1. PICK f : f = [peer[p] EXCEPT !.joined = TRUE, !.told = c]
      OBVIOUS
    <3>2. S.peer = [peer EXCEPT ![p] = f]
      BY <1>1, <2>7, <3>1
    <3>3. peer' = [peer EXCEPT ![p] = [f EXCEPT !.state = m]]
      BY <1>1, <2>2, <2>8, <3>2
    <3>4. [f EXCEPT !.state = m] = s
      BY <1>1, <2>3, <3>1 DEF PeerType
    <3> QED BY <3>3, <3>4
  <2> QED BY <1>4, <1>6, <2>4, <2>5, <2>9, <2>10, EnterSound
<1> QED BY <1>5, <1>6

-----------------------------------------------------------------------------
(* Who is served.                                                          *)

(* A place given to p: those behind it move on, one too many goes.         *)
Inserted(f, i, p, D) == LET new == InsertAt(f, i, p) IN SubSeq(new, 1, Min({D, Len(new)}))

LEMMA InsertedIs ==
  ASSUME NEW R, NEW f \in Seq(R), NEW p \in R, NEW D \in Nat, Len(f) <= D,
         NEW i \in 1..Len(f)+1, i <= D, NEW t, t = Inserted(f, i, p, D)
  PROVE  /\ t \in Seq(R) /\ Len(t) = IF Len(f) < D THEN Len(f) + 1 ELSE D
         /\ \A k \in 1..Len(t) : t[k] = IF k < i THEN f[k] ELSE IF k = i THEN p ELSE f[k - 1]
<1> DEFINE a == SubSeq(f, 1, i - 1)
           b == SubSeq(f, i, Len(f))
           new == a \o <<p>> \o b
<1>0. Len(f) \in Nat /\ i \in Nat /\ i >= 1
  OBVIOUS
<1>1. a \in Seq(R) /\ Len(a) = i - 1 /\ \A k \in 1..i-1 : a[k] = f[k]
  OBVIOUS
<1>2. b \in Seq(R) /\ Len(b) = Len(f) - i + 1 /\ \A k \in 1..Len(f)-i+1 : b[k] = f[i + k - 1]
  OBVIOUS
<1>3. InsertAt(f, i, p) = new
  BY DEF InsertAt
<1> HIDE DEF a, b
<1>4. PICK c : c = a \o <<p>>
  OBVIOUS
<1>5. /\ c \in Seq(R) /\ Len(c) = i /\ c[i] = p
      /\ \A k \in 1..i-1 : c[k] = f[k]
  <2>1. c = Append(a, p)
    BY <1>1, <1>4
  <2> QED BY <1>0, <1>1, <2>1
<1>6. new = c \o b
  BY <1>4
<1>7. /\ new \in Seq(R) /\ Len(new) = Len(f) + 1
      /\ \A k \in 1..Len(f)+1 : new[k] = IF k <= i THEN c[k] ELSE b[k - i]
  <2>1. /\ c \o b \in Seq(R) /\ Len(c \o b) = Len(c) + Len(b)
        /\ \A k \in 1..Len(c)+Len(b) : (c \o b)[k] = IF k <= Len(c) THEN c[k] ELSE b[k - Len(c)]
    BY <1>2, <1>5, ConcatProperties
  <2>2. Len(c) + Len(b) = Len(f) + 1
    BY <1>0, <1>2, <1>5
  <2> QED BY <1>5, <1>6, <2>1, <2>2
<1>8. \A k \in i+1..Len(f)+1 : b[k - i] = f[k - 1]
  <2> TAKE k \in i+1..Len(f)+1
  <2>1. k - i \in 1..Len(f)-i+1 /\ i + (k - i) - 1 = k - 1
    BY <1>0
  <2> QED BY <1>2, <2>1
<1> HIDE DEF new
<1>9. PICK m : m = Min({D, Len(new)})
  OBVIOUS
<1>10. m \in 0..Len(f)+1 /\ m = IF Len(f) < D THEN Len(f) + 1 ELSE D
  <2>1. {D, Len(f) + 1} \in SUBSET Nat /\ {D, Len(f) + 1} # {}
    BY <1>0
  <2>2. m \in {D, Len(f) + 1} /\ \A y \in {D, Len(f) + 1} : m <= y
    BY <1>7, <1>9, <2>1, MinProperties
  <2> QED BY <1>0, <2>2
<1>11. t = SubSeq(new, 1, m)
  BY <1>3, <1>9 DEF Inserted
<1>12. t \in Seq(R) /\ Len(t) = m /\ \A k \in 1..m : t[k] = new[k]
  BY <1>7, <1>10, <1>11
<1>13. \A k \in 1..m : t[k] = IF k < i THEN f[k] ELSE IF k = i THEN p ELSE f[k - 1]
  <2> TAKE k \in 1..m
  <2>1. k \in 1..Len(f)+1 /\ t[k] = new[k]
    BY <1>10, <1>12
  <2>2. CASE k < i
    BY <1>0, <1>5, <1>7, <2>1, <2>2
  <2>3. CASE k = i
    BY <1>0, <1>5, <1>7, <2>1, <2>3
  <2>4. CASE k > i
    <3>1. k \in i+1..Len(f)+1 /\ ~(k <= i)
      BY <1>0, <2>1, <2>4
    <3>2. new[k] = b[k - i]
      BY <1>7, <2>1, <3>1
    <3>3. b[k - i] = f[k - 1]
      BY <1>8, <3>1
    <3> QED BY <1>0, <2>1, <2>4, <3>2, <3>3
  <2> QED BY <1>0, <2>2, <2>3, <2>4
<1> QED BY <1>10, <1>12, <1>13

Wanting(p) == ~peer[p].snubbed /\ peer[p].rinterested

(* The favorites f among the first i of the set: one who wants blocks only  *)
(* stands behind interested ones, and is left out only for them.            *)
Favored(f, ps, i) ==
  /\ f \in Seq(Peers) /\ Len(f) <= DOWNLOADS /\ \A k \in 1..Len(f) : Good(f[k])
  /\ \A k, j \in 1..Len(f) : k < j /\ Wanting(f[j]) => peer[f[k]].rinterested
  /\ \A j \in 1..i : Good(ps[j]) /\ Wanting(ps[j]) /\ ps[j] \notin Range(f)
       => Len(f) = DOWNLOADS /\ \A k \in 1..Len(f) : peer[f[k]].rinterested

Takes(f, p, rate, i) ==
  \/ i > Len(f)
  \/ Wanting(p) /\ ~peer[f[i]].rinterested
  \/ rate[p] > rate[f[i]] /\ (Wanting(p) \/ ~peer[f[i]].rinterested)

(* The place a peer is given, if any: all before it have a better claim.   *)
LEMMA PrioritizeIs ==
  ASSUME NEW f \in Seq(Peers), Len(f) <= DOWNLOADS, NEW p \in Peers, NEW rate,
         NEW t, t = Prioritize(f, p, rate)
  PROVE  \/ /\ t = f /\ Len(f) = DOWNLOADS
            /\ \A k \in 1..Len(f) : ~Takes(f, p, rate, k)
         \/ \E m \in 1..Len(f)+1 :
              /\ m <= DOWNLOADS /\ t = Inserted(f, m, p, DOWNLOADS) /\ Takes(f, p, rate, m)
              /\ \A k \in 1..m-1 : ~Takes(f, p, rate, k)
<1>1. Len(f) \in Nat /\ DOWNLOADS \in Nat /\ DOWNLOADS > 0
  BY SwarmAssumption
<1>2. PICK ok : ok = {i \in 1..DOWNLOADS : Takes(f, p, rate, i)}
  OBVIOUS
<1>3. t = IF ok = {} THEN f ELSE Inserted(f, Min(ok), p, DOWNLOADS)
  BY <1>2, Zenon DEF Prioritize, Takes, Wanting, Inserted
<1>4. CASE ok = {}
  <2>1. \A k \in 1..DOWNLOADS : ~Takes(f, p, rate, k)
    BY <1>2, <1>4
  <2>2. Len(f) = DOWNLOADS
    <3>1. DOWNLOADS \in 1..DOWNLOADS
      BY <1>1
    <3>2. ~(DOWNLOADS > Len(f))
      BY <2>1, <3>1 DEF Takes
    <3> QED BY <1>1, <3>2
  <2> QED BY <1>3, <1>4, <2>1, <2>2
<1>5. CASE ok # {}
  <2>1. ok \in SUBSET Nat
    BY <1>1, <1>2
  <2>2. Min(ok) \in ok /\ \A y \in ok : Min(ok) <= y
    BY <1>5, <2>1, MinProperties
  <2>3. PICK m : m = Min(ok)
    OBVIOUS
  <2>4. m \in 1..DOWNLOADS /\ Takes(f, p, rate, m)
    BY <1>2, <2>2, <2>3
  <2>5. \A k \in 1..m-1 : ~Takes(f, p, rate, k)
    <3> SUFFICES ASSUME NEW k \in 1..m-1, Takes(f, p, rate, k) PROVE FALSE
      OBVIOUS
    <3>1. k \in 1..DOWNLOADS /\ ~(m <= k)
      BY <1>1, <2>4
    <3>2. k \in ok
      BY <1>2, <3>1
    <3> QED BY <2>2, <2>3, <3>1, <3>2
  <2>6. m <= Len(f) + 1
    <3> SUFFICES ASSUME m > Len(f) + 1 PROVE FALSE
      BY <1>1, <2>4
    <3>1. Len(f) + 1 \in 1..m-1 /\ Len(f) + 1 > Len(f)
      BY <1>1, <2>4
    <3> QED BY <2>5, <3>1 DEF Takes
  <2>7. m \in 1..Len(f)+1 /\ m <= DOWNLOADS
    BY <1>1, <2>4, <2>6
  <2> QED BY <1>3, <1>5, <2>3, <2>4, <2>5, <2>7
<1> QED BY <1>4, <1>5

(* Each place in the new list has what was there, p, or what was before.    *)
LEMMA InsertedKeeps ==
  ASSUME NEW R, NEW f \in Seq(R), NEW p \in R, NEW D \in Nat, Len(f) <= D,
         NEW m \in 1..Len(f)+1, m <= D, NEW t, t = Inserted(f, m, p, D)
  PROVE  /\ t \in Seq(R) /\ Len(t) <= D /\ Len(t) >= Len(f) /\ p \in Range(t)
         /\ \A k \in 1..Len(t) : t[k] = IF k < m THEN f[k] ELSE IF k = m THEN p ELSE f[k - 1]
         /\ \A y \in Range(f) : y \in Range(t) \/ (Len(f) = D /\ y = f[Len(f)])
<1>1. /\ t \in Seq(R) /\ Len(t) = IF Len(f) < D THEN Len(f) + 1 ELSE D
      /\ \A k \in 1..Len(t) : t[k] = IF k < m THEN f[k] ELSE IF k = m THEN p ELSE f[k - 1]
  BY InsertedIs
<1>2. Len(f) \in Nat /\ DOMAIN f = 1..Len(f) /\ DOMAIN t = 1..Len(t) /\ Len(t) \in Nat
  BY <1>1
<1>3. p \in Range(t)
  <2>1. m \in 1..Len(t)
    BY <1>1, <1>2
  <2>2. t[m] = p
    BY <1>1, <2>1
  <2> QED BY <1>2, <2>1, <2>2 DEF Range
<1>4. ASSUME NEW y \in Range(f), y \notin Range(t)
      PROVE  Len(f) = D /\ y = f[Len(f)]
  <2>1. PICK k \in 1..Len(f) : f[k] = y
    BY <1>2 DEF Range
  <2>2. \A j \in 1..Len(t) : t[j] # y
    BY <1>2, <1>4 DEF Range
  <2>3. ~(k < m)
    <3> SUFFICES ASSUME k < m PROVE FALSE
      OBVIOUS
    <3>1. k \in 1..Len(t)
      BY <1>1, <1>2, <2>1
    <3> QED BY <1>1, <2>1, <2>2, <3>1
  <2>4. ~(k + 1 <= Len(t))
    <3> SUFFICES ASSUME k + 1 <= Len(t) PROVE FALSE
      OBVIOUS
    <3>1. k + 1 \in 1..Len(t) /\ ~(k + 1 < m) /\ k + 1 # m /\ k + 1 - 1 = k
      BY <1>2, <2>1, <2>3
    <3>2. t[k + 1] = f[k]
      BY <1>1, <3>1
    <3> QED BY <2>1, <2>2, <3>1, <3>2
  <2>5. Len(t) = IF Len(f) < D THEN Len(f) + 1 ELSE D
    BY <1>1
  <2>6. PICK n, l : n = Len(f) /\ l = Len(t)
    OBVIOUS
  <2>7. /\ n \in Nat /\ l \in Nat /\ n <= D /\ l = (IF n < D THEN n + 1 ELSE D)
        /\ k \in 1..n /\ ~(k + 1 <= l)
    BY <1>2, <2>4, <2>5, <2>6
  <2>8. n = D /\ k = n
    BY <2>7
  <2> QED BY <2>1, <2>6, <2>8
<1>5. Len(t) <= D /\ Len(t) >= Len(f)
  BY <1>1, <1>2
<1> QED BY <1>1, <1>3, <1>4, <1>5

(* The claims of those in a list, as p, wanting or not, finds them.         *)
LEMMA PrioritizeSound ==
  ASSUME \A q \in Peers : peer[q] \in PeerType, NEW ps, NEW i \in Nat \ {0}, NEW f, Favored(f, ps, i - 1),
         NEW p \in Peers, p = ps[i], Good(p), NEW rate, NEW t, t = Prioritize(f, p, rate)
  PROVE  Favored(t, ps, i)
<1> DEFINE R(k) == peer[f[k]].rinterested
<1>1. /\ f \in Seq(Peers) /\ Len(f) <= DOWNLOADS /\ Len(f) \in Nat /\ DOWNLOADS \in Nat \ {0}
      /\ \A k \in 1..Len(f) : f[k] \in Peers /\ Good(f[k])
  BY SwarmAssumption DEF Favored
<1>2. \A k, j \in 1..Len(f) : k < j /\ Wanting(f[j]) => R(k)
  BY DEF Favored
<1>3. ASSUME NEW j \in 1..i, j # i, Good(ps[j]), Wanting(ps[j]), ps[j] \notin Range(f)
      PROVE  Len(f) = DOWNLOADS /\ \A k \in 1..Len(f) : R(k)
  <2>1. j \in 1..i-1
    BY <1>3
  <2> QED BY <1>3, <2>1 DEF Favored
<1>4. \A q : Wanting(q) => peer[q].rinterested
  BY DEF Wanting
<1>5. CASE t = f /\ Len(f) = DOWNLOADS /\ \A k \in 1..Len(f) : ~Takes(f, p, rate, k)
  <2>1. Wanting(p) => \A k \in 1..Len(f) : R(k)
    BY <1>5 DEF Takes
  <2>2. ASSUME NEW j \in 1..i, Good(ps[j]), Wanting(ps[j]), ps[j] \notin Range(f)
        PROVE  Len(f) = DOWNLOADS /\ \A k \in 1..Len(f) : R(k)
    <3>1. CASE j = i
      BY <1>5, <2>1, <2>2, <3>1
    <3>2. CASE j # i
      BY <1>3, <2>2, <3>2
    <3> QED BY <3>1, <3>2
  <2> QED BY <1>1, <1>2, <1>5, <2>2 DEF Favored
<1>6. CASE \E m \in 1..Len(f)+1 :
             /\ m <= DOWNLOADS /\ t = Inserted(f, m, p, DOWNLOADS) /\ Takes(f, p, rate, m)
             /\ \A k \in 1..m-1 : ~Takes(f, p, rate, k)
  <2>1. PICK m \in 1..Len(f)+1 :
           /\ m <= DOWNLOADS /\ t = Inserted(f, m, p, DOWNLOADS) /\ Takes(f, p, rate, m)
           /\ \A k \in 1..m-1 : ~Takes(f, p, rate, k)
    BY <1>6
  <2>2. /\ t \in Seq(Peers) /\ Len(t) <= DOWNLOADS /\ Len(t) >= Len(f) /\ p \in Range(t)
        /\ \A k \in 1..Len(t) : t[k] = IF k < m THEN f[k] ELSE IF k = m THEN p ELSE f[k - 1]
        /\ \A y \in Range(f) : y \in Range(t) \/ (Len(f) = DOWNLOADS /\ y = f[Len(f)])
    BY <1>1, <2>1, InsertedKeeps
  <2>3. Len(t) \in Nat /\ (Len(f) = DOWNLOADS => Len(t) = DOWNLOADS) /\ Len(t) <= Len(f) + 1
    <3>1. Len(t) = IF Len(f) < DOWNLOADS THEN Len(f) + 1 ELSE DOWNLOADS
      BY <1>1, <2>1, InsertedIs
    <3> QED BY <1>1, <2>2, <3>1
  <2>4. m \in Nat /\ m >= 1 /\ m <= Len(f) + 1
    BY <1>1, <2>1
  <2> DEFINE T(k) == peer[t[k]].rinterested
  <2>10. \A k \in 1..Len(t) : Good(t[k])
    <3> TAKE k \in 1..Len(t)
    <3>1. CASE k < m
      <4>1. t[k] = f[k] /\ k \in 1..Len(f)
        BY <2>2, <2>4, <3>1
      <4> QED BY <1>1, <4>1
    <3>2. CASE k = m
      BY <2>2, <3>2
    <3>3. CASE k > m
      <4>1. t[k] = f[k - 1] /\ k - 1 \in 1..Len(f)
        BY <1>1, <2>2, <2>3, <2>4, <3>3
      <4> QED BY <1>1, <4>1
    <3> QED BY <2>4, <3>1, <3>2, <3>3
  (* p takes a place in the list from someone it has a better claim than.   *)
  <2>5. ASSUME m <= Len(f), R(m) PROVE peer[p].rinterested
    <3>1. ~(m > Len(f))
      BY <1>1, <2>4, <2>5
    <3>2. Wanting(p)
      BY <2>1, <2>5, <3>1 DEF Takes
    <3> QED BY <1>4, <3>2
  <2>6. ASSUME NEW k \in 1..m-1, Wanting(p) PROVE R(k)
    <3>1. ~Takes(f, p, rate, k)
      BY <2>1
    <3> QED BY <2>6, <3>1 DEF Takes
  <2>7. ASSUME NEW k \in 1..Len(t), NEW j \in 1..Len(t), k < j, Wanting(t[j])
        PROVE  T(k)
    <3>1. CASE j < m
      <4>1. t[j] = f[j] /\ t[k] = f[k] /\ j \in 1..Len(f) /\ k \in 1..Len(f)
        BY <2>2, <2>4, <2>7, <3>1
      <4> QED BY <1>2, <2>7, <4>1
    <3>2. CASE j = m
      <4>1. t[j] = p /\ t[k] = f[k] /\ k \in 1..m-1
        BY <2>2, <2>4, <2>7, <3>2
      <4> QED BY <2>6, <2>7, <4>1
    <3>3. CASE j > m
      <4>1. t[j] = f[j - 1] /\ j - 1 \in 1..Len(f) /\ m <= j - 1 /\ m <= Len(f)
        BY <1>1, <2>2, <2>3, <2>4, <3>3
      <4>2. CASE k < m
        <5>1. t[k] = f[k] /\ k \in 1..Len(f) /\ k < j - 1
          BY <2>2, <2>4, <4>1, <4>2
        <5> QED BY <1>2, <2>7, <4>1, <5>1
      <4>3. CASE k = m
        <5>1. t[k] = p
          BY <2>2, <4>3
        <5>2. R(m)
          <6>1. CASE m = j - 1
            BY <1>4, <2>7, <4>1, <6>1
          <6>2. CASE m < j - 1
            <7>1. m \in 1..Len(f)
              BY <2>4, <4>1
            <7> QED BY <1>2, <2>7, <4>1, <6>2, <7>1
          <6> QED BY <2>4, <4>1, <6>1, <6>2
        <5> QED BY <2>5, <4>1, <5>1, <5>2
      <4>4. CASE k > m
        <5>1. t[k] = f[k - 1] /\ k - 1 \in 1..Len(f) /\ k - 1 < j - 1
          BY <1>1, <2>2, <2>3, <2>4, <2>7, <4>1, <4>4
        <5> QED BY <1>2, <2>7, <4>1, <5>1
      <4> QED BY <2>4, <4>2, <4>3, <4>4
    <3> QED BY <2>4, <3>1, <3>2, <3>3
  (* With all of the old list interested, all of the new are. *)
  <2>8. ASSUME Len(f) = DOWNLOADS, \A k \in 1..Len(f) : R(k)
        PROVE  \A k \in 1..Len(t) : T(k)
    <3>1. m <= Len(f) /\ m \in 1..Len(f)
      BY <1>1, <2>1, <2>4, <2>8
    <3>2. peer[p].rinterested
      BY <2>5, <2>8, <3>1
    <3> TAKE k \in 1..Len(t)
    <3>3. CASE k < m
      <4>1. t[k] = f[k] /\ k \in 1..Len(f)
        BY <2>2, <2>4, <3>1, <3>3
      <4> QED BY <2>8, <4>1
    <3>4. CASE k = m
      <4>1. t[k] = p
        BY <2>2, <3>4
      <4> QED BY <3>2, <4>1
    <3>5. CASE k > m
      <4>1. t[k] = f[k - 1] /\ k - 1 \in 1..Len(f)
        BY <1>1, <2>2, <2>3, <2>4, <3>5
      <4> QED BY <2>8, <4>1
    <3> QED BY <2>4, <3>3, <3>4, <3>5
  <2>9. ASSUME NEW j \in 1..i, Good(ps[j]), Wanting(ps[j]), ps[j] \notin Range(t)
        PROVE  Len(t) = DOWNLOADS /\ \A k \in 1..Len(t) : T(k)
    <3>1. j # i
      BY <2>2, <2>9
    <3>2. CASE ps[j] \notin Range(f)
      <4>1. Len(f) = DOWNLOADS /\ \A k \in 1..Len(f) : R(k)
        BY <1>3, <2>9, <3>1, <3>2
      <4> QED BY <2>3, <2>8, <4>1
    <3>3. CASE ps[j] \in Range(f)
      <4>1. Len(f) = DOWNLOADS /\ ps[j] = f[Len(f)] /\ Len(f) \in 1..Len(f)
        BY <1>1, <2>2, <2>9, <3>3
      <4>2. ASSUME NEW k \in 1..Len(f) PROVE R(k)
        <5>1. CASE k = Len(f)
          BY <1>4, <2>9, <4>1, <5>1
        <5>2. CASE k # Len(f)
          <6>1. k < Len(f)
            BY <1>1, <5>2
          <6> QED BY <1>2, <2>9, <4>1, <6>1
        <5> QED BY <5>1, <5>2
      <4> QED BY <2>3, <2>8, <4>1, <4>2
    <3> QED BY <3>2, <3>3
  <2> QED BY <2>2, <2>7, <2>9, <2>10 DEF Favored
<1> QED BY <1>1, <1>5, <1>6, PrioritizeIs

FavoriteTurns(ps, rate, g, m) ==
  g = [i \in 0..m |-> IF i = 0 THEN <<>>
                      ELSE IF Good(ps[i]) THEN Prioritize(g[i - 1], ps[i], rate) ELSE g[i - 1]]

LEMMA FavoriteTurnsExist ==
  ASSUME NEW ps, NEW rate, NEW n \in Nat
  PROVE  \E g : FavoriteTurns(ps, rate, g, n)
<1> DEFINE A == {m \in Nat : \E g : FavoriteTurns(ps, rate, g, m)}
           Turn1(x, i) == IF Good(ps[i]) THEN Prioritize(x, ps[i], rate) ELSE x
<1>0. \A g, m : FavoriteTurns(ps, rate, g, m)
                  <=> g = [i \in 0..m |-> IF i = 0 THEN <<>> ELSE Turn1(g[i - 1], i)]
  BY DEF FavoriteTurns
<1> HIDE DEF Turn1
<1>1. 0 \in A
  <2>1. FavoriteTurns(ps, rate, [i \in 0..0 |-> <<>>], 0)
    BY DEF FavoriteTurns
  <2> QED BY <2>1
<1>2. ASSUME NEW m \in 1..n, m - 1 \in A
      PROVE  m \in A
  <2>1. PICK g : FavoriteTurns(ps, rate, g, m - 1)
    BY <1>2
  <2> DEFINE h == [i \in 0..m |-> IF i = m THEN Turn1(g[m - 1], m) ELSE g[i]]
  <2>2. \A i \in 0..m : h[i] = IF i = 0 THEN <<>> ELSE Turn1(h[i - 1], i)
    <3>1. \A i \in 0..m-1 : g[i] = IF i = 0 THEN <<>> ELSE Turn1(g[i - 1], i)
      BY <1>0, <2>1
    <3>2. \A i \in 0..m : i # m => i \in 0..m-1
      OBVIOUS
    <3>3. \A i \in 0..m : i # 0 => i - 1 \in 0..m /\ i - 1 # m /\ h[i - 1] = g[i - 1]
      OBVIOUS
    <3>4. m # 0
      OBVIOUS
    <3> QED BY <3>1, <3>2, <3>3, <3>4
  <2>3. h = [i \in 0..m |-> h[i]]
    OBVIOUS
  <2> HIDE DEF h
  <2>4. FavoriteTurns(ps, rate, h, m)
    BY <1>0, <2>2, <2>3
  <2> QED BY <2>4
<1> HIDE DEF A
<1>3. n \in A
  BY <1>1, <1>2, UpTo
<1> QED BY <1>3 DEF A

(* The peers the choice leaves unchoked: no more than DOWNLOADS, and with   *)
(* one left out who wants blocks, all interested.                           *)
LEMMA FavoritesAre ==
  ASSUME \A q \in Peers : peer[q] \in PeerType, dl.pset \in Seq(Peers), NEW rate,
         NEW fav, fav = Favorites(rate)
  PROVE  /\ fav \subseteq Peers /\ IsFiniteSet(fav) /\ Cardinality(fav) <= DOWNLOADS
         /\ \A q \in fav : Good(q)
         /\ \A p \in Range(dl.pset), q \in fav :
              Good(p) /\ Wanting(p) /\ p \notin fav => peer[q].rinterested
<1>1. PICK ps, n : ps = dl.pset /\ n = Len(ps)
  OBVIOUS
<1>2. ps \in Seq(Peers) /\ n \in Nat /\ DOMAIN ps = 1..n /\ \A i \in 1..n : ps[i] \in Peers
  BY <1>1
<1>3. PICK g : FavoriteTurns(ps, rate, g, n) /\ fav = Range(g[n])
  <2> DEFINE h == CHOOSE h : FavoriteTurns(ps, rate, h, n)
  <2>1. fav = Range(h[n])
    BY <1>1, Zenon DEF Favorites, FavoriteTurns
  <2>2. FavoriteTurns(ps, rate, h, n)
    BY <1>2, FavoriteTurnsExist
  <2> HIDE DEF h
  <2> QED BY <2>1, <2>2
<1>4. \A i \in 0..n : g[i] = IF i = 0 THEN <<>>
                             ELSE IF Good(ps[i]) THEN Prioritize(g[i - 1], ps[i], rate) ELSE g[i - 1]
  BY <1>3 DEF FavoriteTurns
<1> DEFINE A == {i \in 0..n : Favored(g[i], ps, i)}
<1>5. 0 \in A
  <2>1. 0 \in 0..n /\ g[0] = <<>>
    BY <1>2, <1>4
  <2>2. Favored(<<>>, ps, 0)
    BY SwarmAssumption DEF Favored
  <2> QED BY <2>1, <2>2
<1>6. ASSUME NEW i \in 1..n, i - 1 \in A
      PROVE  i \in A
  <2>1. i \in 0..n /\ i # 0 /\ i - 1 \in 0..n /\ i \in Nat \ {0}
    BY <1>2, <1>6
  <2>2. Favored(g[i - 1], ps, i - 1)
    BY <1>6
  <2>3. CASE Good(ps[i])
    <3>1. g[i] = Prioritize(g[i - 1], ps[i], rate)
      BY <1>4, <2>1, <2>3
    <3>2. PICK f, t, p : f = g[i - 1] /\ t = g[i] /\ p = ps[i]
      OBVIOUS
    <3>3. /\ p \in Peers /\ p = ps[i] /\ Good(p) /\ Favored(f, ps, i - 1)
          /\ t = Prioritize(f, p, rate)
      BY <1>2, <2>2, <2>3, <3>1, <3>2
    <3>4. Favored(t, ps, i)
      BY <2>1, <3>3, PrioritizeSound
    <3> QED BY <2>1, <3>2, <3>4
  <2>4. CASE ~Good(ps[i])
    <3>1. g[i] = g[i - 1]
      BY <1>4, <2>1, <2>4
    <3>2. \A j \in 1..i : Good(ps[j]) => j \in 1..i-1
      <4> TAKE j \in 1..i
      <4>1. j = i \/ j \in 1..i-1
        BY <2>1
      <4> QED BY <2>4, <4>1
    <3>3. Favored(g[i - 1], ps, i)
      BY <2>2, <3>2 DEF Favored
    <3> QED BY <2>1, <3>1, <3>3
  <2> QED BY <2>3, <2>4
<1> HIDE DEF A
<1>7. n \in A
  <2>1. \A i \in 1..n : i - 1 \in A => i \in A
    BY <1>6
  <2>2. \A i \in 0..n : i \in A
    BY <1>2, <1>5, <2>1, UpTo
  <2> QED BY <1>2, <2>2
<1>8. PICK f : f = g[n]
  OBVIOUS
<1>9. Favored(f, ps, n) /\ fav = Range(f)
  BY <1>3, <1>7, <1>8 DEF A
<1>10. f \in Seq(Peers) /\ Len(f) <= DOWNLOADS /\ Len(f) \in Nat /\ DOMAIN f = 1..Len(f)
  BY <1>9 DEF Favored
<1>11. fav \subseteq Peers /\ \A q \in fav : Good(q)
  BY <1>9, <1>10 DEF Range, Favored
<1>12. IsFiniteSet(fav) /\ Cardinality(fav) <= DOWNLOADS
  <2>1. IsFiniteSet(1..Len(f)) /\ Cardinality(1..Len(f)) = Len(f)
    <3>1. 1 \in Int /\ Len(f) \in Int /\ Len(f) >= 0
      BY <1>10
    <3>2. /\ IsFiniteSet(1..Len(f))
          /\ Cardinality(1..Len(f)) = IF 1 > Len(f) THEN 0 ELSE Len(f) - 1 + 1
      BY <3>1, FS_Interval
    <3> QED BY <3>1, <3>2
  <2>2. f \in Surjection(1..Len(f), fav)
    <3>1. f \in [1..Len(f) -> fav]
      BY <1>9, <1>10 DEF Range
    <3>2. \A y \in fav : \E x \in 1..Len(f) : f[x] = y
      BY <1>9, <1>10 DEF Range
    <3> QED BY <3>1, <3>2 DEF Surjection
  <2>3. IsFiniteSet(fav) /\ Cardinality(fav) <= Cardinality(1..Len(f))
    BY <2>1, <2>2, FS_Surjection
  <2>4. Cardinality(fav) \in Nat
    BY <2>3, FS_CardinalityType
  <2> QED BY <1>10, <2>1, <2>3, <2>4, SwarmAssumption
<1>13. ASSUME NEW p \in Range(ps), NEW q \in fav, Good(p), Wanting(p), p \notin fav
       PROVE  peer[q].rinterested
  <2>1. PICK j \in 1..n : ps[j] = p
    BY <1>2 DEF Range
  <2>2. PICK k \in 1..Len(f) : f[k] = q
    BY <1>9, <1>10 DEF Range
  <2>3. \A x \in 1..Len(f) : peer[f[x]].rinterested
    BY <1>9, <1>13, <2>1 DEF Favored
  <2> QED BY <2>2, <2>3
<1> QED BY <1>1, <1>11, <1>12, <1>13

(* What the choice makes of one peer.                                      *)
LEMMA NotifyIs ==
  ASSUME NEW p, NEW fav, peer[p] \in PeerType, NEW s, s = Notify(fav, p)
  PROVE  /\ s.rinterested = peer[p].rinterested /\ s.snubbed = peer[p].snubbed
         /\ s.state = "GOOD" => peer[p].state = "GOOD"
         /\ Upload(s) => p \in fav
         /\ p \in fav => ~s.lchoked
<1> DEFINE r == peer[p]
<1>1. PICK a : a = Answering(r)
  OBVIOUS
<1>2. a \in {r.state, "ERROR"}
  BY <1>1 DEF Answering
<1>3. CASE s = r /\ (p \in fav => ~r.lchoked) /\ (p \notin fav => r.lchoked \/ r.state # "GOOD")
  BY <1>3 DEF Upload
<1>4. CASE p \in fav /\ s = Served(r)
  <2>1. s = [r EXCEPT !.queue = <<>>, !.lchoked = FALSE, !.ltimer = @ \/ r.rinterested, !.state = a]
    BY <1>1, <1>4 DEF Served
  <2>2. /\ s.rinterested = r.rinterested /\ s.snubbed = r.snubbed /\ s.state = a /\ s.lchoked = FALSE
    BY <2>1 DEF PeerType
  <2> QED BY <1>2, <1>4, <2>2
<1>5. CASE p \notin fav /\ s = Refused(r)
  <2>1. s = [r EXCEPT !.queue = <<>>, !.lchoked = TRUE, !.ltimer = FALSE, !.state = a]
    BY <1>1, <1>5 DEF Refused
  <2>2. /\ s.rinterested = r.rinterested /\ s.snubbed = r.snubbed /\ s.state = a /\ s.lchoked = TRUE
    BY <2>1 DEF PeerType
  <2> QED BY <1>2, <1>5, <2>2 DEF Upload
<1>6. \/ s = r /\ (p \in fav => ~r.lchoked) /\ (p \notin fav => r.lchoked \/ r.state # "GOOD")
      \/ p \in fav /\ s = Served(r)
      \/ p \notin fav /\ s = Refused(r)
  BY DEF Notify
<1> QED BY <1>3, <1>4, <1>5, <1>6

(* After the choice those served are favorites.                            *)
LEMMA ChoiceIs ==
  ASSUME IInv, ChooseFavorites
  PROVE  \E fav \in SUBSET Peers :
           /\ IsFiniteSet(fav) /\ Cardinality(fav) <= DOWNLOADS
           /\ \A p \in Peers : /\ peer'[p].rinterested = peer[p].rinterested
                               /\ peer'[p].snubbed = peer[p].snubbed
                               /\ Upload(peer'[p]) => p \in fav
                               /\ p \in fav /\ peer'[p].state = "GOOD" => ~peer'[p].lchoked
           /\ \A p \in Peers, q \in fav :
                peer'[p].state = "GOOD" /\ Wanting(p) /\ p \notin fav => peer[q].rinterested
<1>1. /\ dl \in DlType /\ SetSound(Now) /\ Now.dl = dl /\ Now.peer = peer
      /\ \A q \in Peers : peer[q] \in PeerType /\ Proper(peer[q], dl, {})
  <2>1. Sound(Now, {}, {}, {}) /\ Now.dl = dl /\ Now.peer = peer
    BY NowIs
  <2>2. \A q \in Peers : peer[q] \in PeerType /\ Proper(peer[q], dl, {})
    BY <2>1, Unfold
  <2> QED BY <2>1, <2>2 DEF Sound, Whole, State
<1>2. dl.pset \in Seq(Peers) /\ Range(dl.pset) = {q \in Peers : peer[q].joined}
  BY <1>1 DEF DlType, SetSound
<1>3. PICK rate : peer' = [p \in Peers |-> IF p \in Range(dl.pset) THEN Notify(Favorites(rate), p) ELSE peer[p]]
  BY DEF ChooseFavorites
<1>4. PICK fav : fav = Favorites(rate)
  OBVIOUS
<1>5. /\ fav \subseteq Peers /\ IsFiniteSet(fav) /\ Cardinality(fav) <= DOWNLOADS
      /\ \A p \in Range(dl.pset), q \in fav :
           Good(p) /\ Wanting(p) /\ p \notin fav => peer[q].rinterested
  BY <1>1, <1>2, <1>4, FavoritesAre
<1>6. \A p \in Peers : peer[p].state = "GOOD" => p \in Range(dl.pset)
  BY <1>1, <1>2 DEF Proper, Phases
<1>7. ASSUME NEW p \in Peers
      PROVE  /\ peer'[p].rinterested = peer[p].rinterested /\ peer'[p].snubbed = peer[p].snubbed
             /\ peer'[p].state = "GOOD" => peer[p].state = "GOOD"
             /\ Upload(peer'[p]) => p \in fav
             /\ p \in fav /\ peer'[p].state = "GOOD" => ~peer'[p].lchoked
  <2>1. CASE p \in Range(dl.pset)
    <3>1. PICK s : s = Notify(fav, p)
      OBVIOUS
    <3>2. peer'[p] = s
      BY <1>3, <1>4, <2>1, <3>1
    <3> QED BY <1>1, <3>1, <3>2, NotifyIs
  <2>2. CASE p \notin Range(dl.pset)
    <3>1. peer'[p] = peer[p] /\ peer[p].state # "GOOD"
      BY <1>3, <1>6, <2>2
    <3> QED BY <3>1 DEF Upload
  <2> QED BY <2>1, <2>2
<1>8. ASSUME NEW p \in Peers, NEW q \in fav, peer'[p].state = "GOOD", Wanting(p), p \notin fav
      PROVE  peer[q].rinterested
  BY <1>5, <1>6, <1>7, <1>8 DEF Good
<1> QED BY <1>5, <1>7, <1>8

(* After the choice of favorites no peer that wants our blocks and is not   *)
(* snubbed waits while one that does not want them is served.               *)
LEMMA WantersFirst == IInv /\ ChooseFavorites => WantersServed
<1> SUFFICES ASSUME IInv, ChooseFavorites, NEW p \in Peers, NEW q \in Peers,
                    peer'[p].state = "GOOD", peer'[p].lchoked, peer'[p].rinterested, ~peer'[p].snubbed,
                    peer'[q].state = "GOOD", ~peer'[q].lchoked
             PROVE  peer'[q].rinterested
  BY DEF WantersServed
<1>1. PICK fav \in SUBSET Peers :
           /\ IsFiniteSet(fav) /\ Cardinality(fav) <= DOWNLOADS
           /\ \A x \in Peers : /\ peer'[x].rinterested = peer[x].rinterested
                               /\ peer'[x].snubbed = peer[x].snubbed
                               /\ Upload(peer'[x]) => x \in fav
                               /\ x \in fav /\ peer'[x].state = "GOOD" => ~peer'[x].lchoked
           /\ \A x \in Peers, y \in fav :
                peer'[x].state = "GOOD" /\ Wanting(x) /\ x \notin fav => peer[y].rinterested
  BY ChoiceIs
<1>2. Wanting(p) /\ p \notin fav
  BY <1>1 DEF Wanting
<1>3. q \in fav
  BY <1>1 DEF Upload
<1> QED BY <1>1, <1>2, <1>3

(* ... and no more than DOWNLOADS are.                                      *)
LEMMA FewChosen ==
  ASSUME IInv, ChooseFavorites, NEW T, T.peer = peer'
  PROVE  FewSound(T)
<1>1. PICK fav \in SUBSET Peers :
           /\ IsFiniteSet(fav) /\ Cardinality(fav) <= DOWNLOADS
           /\ \A x \in Peers : Upload(peer'[x]) => x \in fav
  BY ChoiceIs
<1>2. PICK up : up = {x \in Peers : Upload(T.peer[x])}
  OBVIOUS
<1>3. up \subseteq fav
  BY <1>1, <1>2
<1>4. IsFiniteSet(up) /\ Cardinality(up) <= Cardinality(fav)
      /\ Cardinality(up) \in Nat /\ Cardinality(fav) \in Nat
  BY <1>1, <1>3, FS_Subset, FS_CardinalityType
<1>5. Cardinality(up) <= DOWNLOADS
  BY <1>1, <1>4, SwarmAssumption
<1> QED BY <1>2, <1>4, <1>5 DEF FewSound

(* The choice of favorites writes every peer of the set.                   *)
Alike(r, s) == s \in PeerType /\ s.joined = r.joined /\ s.current = r.current

LEMMA NotifySound ==
  ASSUME IInv, NEW p \in Peers, NEW fav, p \in fav => Good(p), NEW s, s = Notify(fav, p)
  PROVE  Alike(peer[p], s) /\ Proper(s, dl, {}) /\ Busy(s, dl)
<1> DEFINE r == peer[p]
<1>1. r \in PeerType /\ Proper(r, dl, {}) /\ Busy(r, dl)
  BY NowIs, Unfold
<1>2. PICK a : a = Answering(r)
  OBVIOUS
<1>3. a \in {r.state, "ERROR"} /\ a \in {"NONE", "INIT", "OUTGOING", "INCOMING", "GOOD", "ERROR"}
  BY <1>1, <1>2 DEF Answering, PeerType
<1>4. PICK t : t = (r.ltimer \/ r.rinterested)
  OBVIOUS
<1>5. t \in BOOLEAN /\ (t => r.rinterested)
  BY <1>1, <1>4 DEF PeerType, Proper, Timed
<1>6. CASE s = r
  BY <1>1, <1>6 DEF Alike
<1>7. CASE (s = Served(r) /\ Good(p)) \/ s = Refused(r)
  <2>1. PICK c \in BOOLEAN, u \in BOOLEAN :
           s = [r EXCEPT !.queue = <<>>, !.lchoked = c, !.ltimer = u, !.state = a] /\ (u => t /\ ~c)
           /\ (c \/ r.state = "GOOD")
    <3>1. CASE s = Served(r) /\ Good(p)
      <4>1. s = [r EXCEPT !.queue = <<>>, !.lchoked = FALSE, !.ltimer = t, !.state = a]
        <5>1. s = Served(r)
          BY <3>1
        <5> QED BY <1>2, <1>4, <5>1 DEF Served
      <4>2. r.state = "GOOD"
        BY <3>1 DEF Good
      <4> QED BY <1>5, <4>1, <4>2
    <3>2. CASE s = Refused(r)
      BY <1>2, <3>2 DEF Refused
    <3> QED BY <1>7, <3>1, <3>2
  <2>2. /\ s \in PeerType /\ s.joined = r.joined /\ s.current = r.current
        /\ s.inqueue = r.inqueue /\ s.wire = r.wire /\ s.state = a
        /\ s.rchoked = r.rchoked /\ s.ltimer = u /\ s.lchoked = c
        /\ s.rtimer = r.rtimer /\ s.linterested = r.linterested
        /\ s.rinterested = r.rinterested /\ s.queue = <<>> /\ s.told = r.told
        /\ s.missed = r.missed /\ s.blocks = r.blocks /\ s.down = r.down
    <3>1. PICK e : e = <<>>
      OBVIOUS
    <3>2. PICK v : v = [r EXCEPT !.queue = e, !.lchoked = c]
      OBVIOUS
    <3>3. e \in Seq(Pieces)
      BY <3>1
    <3>4. /\ v \in PeerType /\ v.queue = e /\ v.lchoked = c
          /\ v.joined = r.joined /\ v.current = r.current
          /\ v.inqueue = r.inqueue /\ v.wire = r.wire
          /\ v.rchoked = r.rchoked /\ v.rtimer = r.rtimer /\ v.linterested = r.linterested
          /\ v.rinterested = r.rinterested /\ v.told = r.told
          /\ v.missed = r.missed /\ v.blocks = r.blocks /\ v.down = r.down
      BY <1>1, <3>2, <3>3 DEF PeerType
    <3>5. s = [v EXCEPT !.ltimer = u, !.state = a]
      BY <2>1, <3>1, <3>2
    <3>6. /\ s \in PeerType /\ s.queue = v.queue /\ s.lchoked = v.lchoked /\ s.ltimer = u /\ s.state = a
          /\ s.joined = v.joined /\ s.current = v.current
          /\ s.inqueue = v.inqueue /\ s.wire = v.wire
          /\ s.rchoked = v.rchoked /\ s.rtimer = v.rtimer /\ s.linterested = v.linterested
          /\ s.rinterested = v.rinterested /\ s.told = v.told
          /\ s.missed = v.missed /\ s.blocks = v.blocks /\ s.down = v.down
      BY ZenonT(60), <1>3, <3>4, <3>5 DEF PeerType
    <3> QED BY <3>1, <3>4, <3>6
  <2>3. Asking(s, dl, {}) /\ Owed(s, dl) /\ Told(s, dl, {})
    BY <1>1, <1>3, <2>2 DEF Proper, Asking, Owed, Told
  <2>4. Phases(s) /\ Timed(s) /\ Busy(s, dl)
    BY <1>1, <1>3, <1>5, <2>1, <2>2 DEF Proper, Phases, Timed, Busy, Interesting
  <2> QED BY <2>2, <2>3, <2>4 DEF Proper, Alike
<1> QED BY <1>6, <1>7 DEF Notify

LEMMA ChooseFavoritesSound ==
  ASSUME IInv, ChooseFavorites
  PROVE  IInv'
<1>1. /\ Sound(Now, {}, {}, {}) /\ Now.dl = dl /\ Now.peer = peer /\ Whole(Now)
      /\ \A q \in Peers : peer[q] \in PeerType /\ Proper(peer[q], dl, {}) /\ Busy(peer[q], dl)
  <2>1. Sound(Now, {}, {}, {}) /\ Now.dl = dl /\ Now.peer = peer
    BY NowIs
  <2>2. Whole(Now)
    BY <2>1 DEF Sound
  <2>3. \A q \in Peers : peer[q] \in PeerType /\ Proper(peer[q], dl, {}) /\ Busy(peer[q], dl)
    BY <2>1, Unfold
  <2> QED BY <2>1, <2>2, <2>3
<1>2. PICK f : f = peer' /\ \E rate :
        f = [p \in Peers |-> IF p \in Range(dl.pset) THEN Notify(Favorites(rate), p) ELSE peer[p]]
  BY DEF ChooseFavorites
<1>3. PICK T : T = [dl |-> dl, peer |-> f]
  OBVIOUS
<1>4. ASSUME NEW q \in Peers
      PROVE  Alike(peer[q], f[q]) /\ Proper(f[q], dl, {}) /\ Busy(f[q], dl)
  <2>1. PICK rate : f = [p \in Peers |-> IF p \in Range(dl.pset) THEN Notify(Favorites(rate), p) ELSE peer[p]]
    BY <1>2
  <2>3. q \in Favorites(rate) => Good(q)
    <3>1. dl.pset \in Seq(Peers)
      BY <1>1 DEF Whole, State, DlType
    <3> QED BY <1>1, <3>1, FavoritesAre
  <2>2. f[q] = Notify(Favorites(rate), q) \/ f[q] = peer[q]
    BY <2>1
  <2> QED BY <1>1, <2>2, <2>3, NotifySound DEF Alike
<1>5. f \in [Peers -> PeerType]
  <2>1. DOMAIN f = Peers /\ f = [q \in Peers |-> f[q]]
    BY <1>2
  <2> QED BY <1>4, <2>1 DEF Alike
<1>6. T \in State
  BY <1>1, <1>3, <1>5 DEF Whole, State
<1>7. SetSound(T) /\ MarksSound(T)
  BY <1>1, <1>3, <1>4 DEF Alike, Whole, SetSound, MarksSound
<1>10. FewSound(T)
  <2>1. T.peer = peer'
    BY <1>2, <1>3
  <2> QED BY <2>1, FewChosen
<1>8. Sound(T, {}, {}, {})
  BY <1>1, <1>3, <1>4, <1>6, <1>7, <1>10 DEF Sound, Whole
<1>9. dl' = T.dl /\ peer' = T.peer
  BY <1>2, <1>3 DEF ChooseFavorites
<1> QED BY <1>8, <1>9, NextSound

(* A block arrives: one that p does not wait for ...                       *)
LEMMA DropSound ==
  ASSUME IInv, NEW p \in Peers, NEW rq \in Pieces \X Blocks, rq \notin Range(peer[p].inqueue),
         NEW w, w = RemoveFirst(peer[p].wire, rq), NEW T, T = [Now EXCEPT !.peer[p].wire = w]
  PROVE  Sound(T, {}, {}, {})
<1>1. /\ Sound(Now, {}, {}, {}) /\ Now.dl = dl /\ Now.peer = peer
      /\ peer[p] \in PeerType /\ Proper(peer[p], dl, {}) /\ Busy(peer[p], dl)
      /\ peer \in [Peers -> PeerType] /\ Now \in State
  BY NowIs, Unfold
<1>2. peer[p].wire \in Seq(Pieces \X Blocks) /\ peer[p].inqueue \in Seq(Pieces \X Blocks)
  BY <1>1 DEF PeerType
<1>3. w \in Seq(Pieces \X Blocks)
  BY <1>2, RemoveFirstTyped
<1>4. \A x \in Pieces \X Blocks : Times(peer[p].inqueue, x) <= Times(w, x)
  <2> TAKE x \in Pieces \X Blocks
  <2>1. Times(peer[p].inqueue, x) \in Nat /\ Times(peer[p].wire, x) \in Nat /\ Times(w, x) \in Nat
        /\ Times(peer[p].inqueue, x) <= Times(peer[p].wire, x)
    BY <1>1, <1>2, <1>3, SitesFinite DEF Proper, Asking
  <2>2. CASE x = rq
    <3>1. Times(peer[p].inqueue, x) = 0
      BY <1>2, <2>2, SitesFinite
    <3> QED BY <2>1, <3>1
  <2>3. CASE x # rq
    <3>1. Times(w, x) >= Times(peer[p].wire, x)
      BY <1>2, <2>3, TimesRemoveFirst
    <3> QED BY <2>1, <3>1
  <2> QED BY <2>2, <2>3
<1>5. PICK s : s = [peer[p] EXCEPT !.wire = w]
  OBVIOUS
<1>6. /\ s \in PeerType /\ s.joined = peer[p].joined /\ s.current = peer[p].current
      /\ s.inqueue = peer[p].inqueue /\ s.wire = w /\ s.state = peer[p].state
      /\ s.rchoked = peer[p].rchoked /\ s.ltimer = peer[p].ltimer /\ s.lchoked = peer[p].lchoked
      /\ s.rtimer = peer[p].rtimer /\ s.linterested = peer[p].linterested
      /\ s.rinterested = peer[p].rinterested /\ s.queue = peer[p].queue /\ s.told = peer[p].told
      /\ s.missed = peer[p].missed /\ s.blocks = peer[p].blocks /\ s.down = peer[p].down
  BY ZenonT(60), <1>1, <1>3, <1>5 DEF PeerType
<1>7. Asking(s, dl, {}) /\ Owed(s, dl) /\ Told(s, dl, {})
  BY <1>1, <1>4, <1>6 DEF Proper, Asking, Owed, Told
<1>8. Phases(s) /\ Timed(s) /\ Busy(s, dl)
  BY <1>1, <1>6 DEF Proper, Phases, Timed, Busy, Interesting
<1>9. T = Written(Now, p, s)
  BY <1>1, <1>5 DEF Written, State
<1>10. /\ s.joined = Now.peer[p].joined /\ s.current = Now.peer[p].current
       /\ Proper(s, Now.dl, {}) /\ Busy(s, Now.dl) /\ Within({}, {}, p)
  BY <1>1, <1>6, <1>7, <1>8 DEF Proper, Within
<1>11. NoNewUpload(Now.peer[p], s)
  BY <1>1, <1>6, UploadKept
<1> QED BY <1>1, <1>6, <1>9, <1>10, <1>11, WriteOne

(* ... and one that it does: the part of the piece is stored.              *)
LEMMA StoreSound ==
  ASSUME NEW d \in DlType, PartsSound(d), NEW rq \in Pieces \X Blocks, HasPart(d, rq[1]),
         NEW fine \in BOOLEAN, NEW e, e = Store(d, rq, fine)
  PROVE  /\ e \in DlType /\ PartsSound(e) /\ Keeps(d, e)
         /\ e.requested = d.requested /\ e.pset = d.pset
<1> DEFINE pp == Part(d, rq[1])
           full == pp.filled \cup {rq[2]}
           done == pp.isdone \/ full = Blocks
           bad == IF fine THEN pp.bad \ {rq[2]} ELSE pp.bad \cup {rq[2]}
           new == [pp EXCEPT !.filled = full, !.isdone = done, !.bad = bad]
<1>1. pp \in PartType /\ pp.piece = rq[1] /\ rq[2] \in Blocks
  BY PartIs
<1>2. full \in SUBSET Blocks /\ done \in BOOLEAN /\ bad \in SUBSET Blocks
  BY <1>1 DEF PartType
<1>3. e = SetPart(d, rq[1], new)
  BY DEF Store
<1> HIDE DEF full, done, bad, pp
<1>4. new \in PartType /\ new.piece = rq[1]
  BY <1>1, <1>2 DEF PartType
<1> HIDE DEF new
<1>5. /\ SetPart(d, rq[1], new) \in DlType /\ PartsSound(SetPart(d, rq[1], new))
      /\ Keeps(d, SetPart(d, rq[1], new))
      /\ SetPart(d, rq[1], new).requested = d.requested /\ SetPart(d, rq[1], new).pset = d.pset
  BY <1>4, SetPartSound
<1> QED BY <1>3, <1>5

LEMMA SameWork ==
  ASSUME NEW S, NEW L, Sound(S, {}, {}, L), NEW p \in Peers, NEW M, Within(L, M, p),
         NEW T \in State, OthersAlike(S, T, p), PartsSound(T.dl),
         T.peer[p].joined = S.peer[p].joined, T.peer[p].current = S.peer[p].current,
         T.dl.requested = S.dl.requested,
         Proper(T.peer[p], T.dl, {}), p \notin M => Busy(T.peer[p], T.dl)
  PROVE  Sound(T, {}, {}, M)
<1>1. \A c \in T.dl.requested \ S.dl.requested : T.peer[p].current = c
  OBVIOUS
<1>2. Proper(T.peer[p], T.dl, IF p \in {} THEN {} ELSE {})
  OBVIOUS
<1> QED BY <1>1, <1>2, PeerStep DEF Within

Only(X, x) == X = {x}

Taken(T, L, p, rq, w, q, e, s) ==  \* the block rq of p comes in
  /\ w = RemoveFirst(peer[p].wire, rq) /\ q = Unqueue(peer[p].inqueue, rq)
  /\ s = [peer[p] EXCEPT !.wire = w, !.inqueue = q]
  /\ T = [dl |-> e, peer |-> [peer EXCEPT ![p] = s]] /\ Only(L, p)

LEMMA TakenSound ==
  ASSUME IInv, NEW p \in Peers, NEW rq \in Pieces \X Blocks, rq \in Range(peer[p].inqueue),
         NEW fine \in BOOLEAN, NEW e, e = Store(dl, rq, fine),
         NEW w, NEW q, NEW s, NEW T, NEW L, Taken(T, L, p, rq, w, q, e, s)
  PROVE  /\ Sound(T, {}, {}, L) /\ T.dl = e /\ T.peer[p] = s /\ s.joined
         /\ s.current = peer[p].current /\ s.current = rq[1]
<1> USE DEF Taken, Only
<1>1. /\ Sound(Now, {}, {}, {}) /\ Now.dl = dl /\ Now.peer = peer
      /\ peer[p] \in PeerType /\ Proper(peer[p], dl, {})
      /\ peer \in [Peers -> PeerType] /\ Now \in State /\ dl \in DlType /\ PartsSound(dl)
  BY NowIs, Unfold
<1>2. peer[p].wire \in Seq(Pieces \X Blocks) /\ peer[p].inqueue \in Seq(Pieces \X Blocks)
  BY <1>1 DEF PeerType
<1>3. /\ w \in Seq(Pieces \X Blocks) /\ q \in Seq(Pieces \X Blocks)
      /\ Range(q) \subseteq Range(peer[p].inqueue)
  BY <1>2, RemoveFirstTyped, UnqueueIs, TimesUnqueue
<1>4. \A x \in Pieces \X Blocks : Times(q, x) <= Times(w, x)
  <2> TAKE x \in Pieces \X Blocks
  <2>1. /\ Times(peer[p].inqueue, x) \in Nat /\ Times(peer[p].wire, x) \in Nat
        /\ Times(w, x) \in Nat /\ Times(q, x) \in Nat
        /\ Times(peer[p].inqueue, x) <= Times(peer[p].wire, x)
    BY <1>1, <1>2, <1>3, SitesFinite DEF Proper, Asking
  <2>2. CASE x = rq
    <3>1. Times(q, x) <= Times(peer[p].inqueue, x) - 1
      BY <1>2, <2>2, TimesUnqueue
    <3>2. Times(w, x) >= Times(peer[p].wire, x) - 1
      BY <1>2, <2>2, TimesRemoveFirst
    <3> QED BY <2>1, <3>1, <3>2
  <2>3. CASE x # rq
    <3>1. Times(q, x) <= Times(peer[p].inqueue, x)
      BY <1>2, TimesUnqueue
    <3>2. Times(w, x) >= Times(peer[p].wire, x)
      BY <1>2, <2>3, TimesRemoveFirst
    <3> QED BY <2>1, <3>1, <3>2
  <2> QED BY <2>2, <2>3
<1>5. \A x \in Range(peer[p].inqueue) : x[1] = peer[p].current
  BY <1>1 DEF Proper, Asking, Range
<1>6. peer[p].current = rq[1] /\ rq[1] \in Pieces /\ rq[1] # NoPiece
  BY <1>5, PiecesAre
<1>7. peer[p].joined /\ HasPart(dl, rq[1])
  BY <1>1, <1>6 DEF Proper, Asking
<1>8. /\ e \in DlType /\ PartsSound(e) /\ Keeps(dl, e)
      /\ e.requested = dl.requested /\ e.pset = dl.pset
  BY <1>1, <1>7, StoreSound
<1>9. /\ s \in PeerType /\ s.joined = peer[p].joined /\ s.current = peer[p].current
      /\ s.inqueue = q /\ s.wire = w /\ s.state = peer[p].state
      /\ s.rchoked = peer[p].rchoked /\ s.ltimer = peer[p].ltimer /\ s.lchoked = peer[p].lchoked
      /\ s.rtimer = peer[p].rtimer /\ s.linterested = peer[p].linterested
      /\ s.rinterested = peer[p].rinterested /\ s.queue = peer[p].queue /\ s.told = peer[p].told
      /\ s.missed = peer[p].missed /\ s.blocks = peer[p].blocks /\ s.down = peer[p].down
  <2>1. PICK v : v = [peer[p] EXCEPT !.wire = w]
    OBVIOUS
  <2>2. /\ v \in PeerType /\ v.joined = peer[p].joined /\ v.current = peer[p].current
        /\ v.wire = w /\ v.state = peer[p].state
        /\ v.rchoked = peer[p].rchoked /\ v.ltimer = peer[p].ltimer /\ v.lchoked = peer[p].lchoked
        /\ v.rtimer = peer[p].rtimer /\ v.linterested = peer[p].linterested
        /\ v.rinterested = peer[p].rinterested /\ v.queue = peer[p].queue /\ v.told = peer[p].told
        /\ v.missed = peer[p].missed /\ v.blocks = peer[p].blocks /\ v.down = peer[p].down
    BY ZenonT(60), <1>1, <1>3, <2>1 DEF PeerType
  <2>3. s = [v EXCEPT !.inqueue = q]
    BY <2>1
  <2>4. /\ s \in PeerType /\ s.joined = v.joined /\ s.current = v.current
        /\ s.inqueue = q /\ s.wire = v.wire /\ s.state = v.state
        /\ s.rchoked = v.rchoked /\ s.ltimer = v.ltimer /\ s.lchoked = v.lchoked
        /\ s.rtimer = v.rtimer /\ s.linterested = v.linterested
        /\ s.rinterested = v.rinterested /\ s.queue = v.queue /\ s.told = v.told
        /\ s.missed = v.missed /\ s.blocks = v.blocks /\ s.down = v.down
    BY <1>3, <2>2, <2>3 DEF PeerType
  <2> QED BY <2>2, <2>4
<1>10. \A i \in DOMAIN q : q[i][1] = peer[p].current
  BY <1>3, <1>5 DEF Range
<1>11. Asking(s, dl, {}) /\ Owed(s, dl) /\ Told(s, dl, {})
  BY <1>1, <1>4, <1>9, <1>10 DEF Proper, Asking, Owed, Told
<1>12. Phases(s) /\ Timed(s)
  BY <1>1, <1>9 DEF Proper, Phases, Timed
<1>13. Proper(s, e, {})
  BY <1>8, <1>9, <1>11, <1>12, ProperKept DEF Proper
<1>14. /\ T \in State /\ T.dl = e /\ T.peer[p] = s
       /\ \A r \in Peers \ {p} : T.peer[r] = Now.peer[r]
  BY ZenonT(60), <1>1, <1>8, <1>9, NewState
<1>15. OthersAlike(Now, T, p) /\ PartsSound(T.dl)
  <2>1. NoNewUpload(Now.peer[p], T.peer[p])
    BY ZenonT(60), <1>1, <1>9, <1>14, UploadKept
  <2> QED BY <1>1, <1>8, <1>14, <2>1 DEF OthersAlike
<1>16. /\ Proper(T.peer[p], T.dl, IF p \in {} THEN {} ELSE {})
       /\ T.peer[p].joined = Now.peer[p].joined
       /\ T.peer[p].current = Now.peer[p].current
       /\ \A b \in T.dl.requested \ Now.dl.requested : T.peer[p].current = b
       /\ p \notin L => Busy(T.peer[p], T.dl)
  BY <1>1, <1>8, <1>9, <1>13, <1>14
<1>17. Sound(T, {}, {}, L)
  <2>1. PICK S, N : S = Now /\ N = {}
    OBVIOUS
  <2>2. Sound(S, {}, {}, N) /\ OthersAlike(S, T, p) /\ Within(N, L, p)
    BY <1>1, <1>15, <2>1 DEF Within
  <2>3. /\ T.peer[p].joined = S.peer[p].joined /\ T.peer[p].current = S.peer[p].current
        /\ T.dl.requested = S.dl.requested
    BY <1>1, <1>8, <1>14, <1>16, <2>1
  <2>4. /\ T \in State /\ PartsSound(T.dl) /\ Proper(T.peer[p], T.dl, {})
        /\ p \notin L => Busy(T.peer[p], T.dl)
    BY <1>13, <1>14, <1>15, <1>16
  <2> QED BY <2>2, <2>3, <2>4, SameWork
<1> QED BY <1>6, <1>7, <1>9, <1>14, <1>17

(* The piece is complete: its part goes, and until they are told the peers *)
(* of the set may still be on it.                                          *)
AllBut(k, s, t, f) ==
  /\ \A i \in DOMAIN t : f[i] \in DOMAIN s /\ f[i] # k /\ t[i] = s[f[i]]
  /\ \A i, j \in DOMAIN t : f[i] = f[j] => i = j
  /\ \A j \in DOMAIN s : j # k => \E i \in DOMAIN t : f[i] = j

LEMMA RemovedAt ==
  ASSUME NEW S, NEW s \in Seq(S), NEW k \in DOMAIN s, NEW t, t = RemoveAt(s, k)
  PROVE  t \in Seq(S) /\ \E f : AllBut(k, s, t, f)
<1>1. k \in 1..Len(s) /\ DOMAIN s = 1..Len(s) /\ Len(s) \in Nat
  BY SMTT(30)
<1>2. /\ t \in Seq(S) /\ Len(t) = Len(s) - 1
      /\ \A i \in 1..k-1 : t[i] = s[i]
      /\ \A i \in k..Len(s)-1 : t[i] = s[i + 1]
  BY <1>1, RemoveAtProperties
<1>3. DOMAIN t = 1..Len(s)-1
  BY <1>2
<1> DEFINE f == [i \in 1..Len(s)-1 |-> IF i < k THEN i ELSE i + 1]
<1>4. \A i \in 1..Len(s)-1 : f[i] = IF i < k THEN i ELSE i + 1
  OBVIOUS
<1> HIDE DEF f
<1>5. ASSUME NEW i \in 1..Len(s)-1
      PROVE  f[i] \in 1..Len(s) /\ f[i] # k /\ t[i] = s[f[i]]
  <2>1. CASE i < k
    <3>1. i \in 1..k-1 /\ f[i] = i
      BY <1>1, <1>4, <2>1
    <3> QED BY <1>1, <1>2, <2>1, <3>1
  <2>2. CASE ~(i < k)
    <3>1. i \in k..Len(s)-1 /\ f[i] = i + 1
      BY <1>1, <1>4, <2>2
    <3> QED BY <1>1, <1>2, <2>2, <3>1
  <2> QED BY <2>1, <2>2
<1>6. \A i, j \in 1..Len(s)-1 : f[i] = f[j] => i = j
  BY <1>1, <1>4
<1>7. ASSUME NEW j \in 1..Len(s), j # k
      PROVE  \E i \in 1..Len(s)-1 : f[i] = j
  <2>1. CASE j < k
    BY <1>1, <1>4, <2>1
  <2>2. CASE ~(j < k)
    <3>1. j - 1 \in 1..Len(s)-1 /\ f[j - 1] = j
      BY <1>1, <1>4, <1>7, <2>2
    <3> QED BY <3>1
  <2> QED BY <2>1, <2>2
<1>8. AllBut(k, s, t, f)
  BY <1>1, <1>3, <1>5, <1>6, <1>7 DEF AllBut
<1> QED BY <1>2, <1>8

LEMMA CompleteIs ==
  ASSUME NEW d \in DlType, PartsSound(d), NEW b \in Pieces, HasPart(d, b), NEW e, e = Complete(d, b)
  PROVE  /\ e \in DlType /\ PartsSound(e)
         /\ e.requested = d.requested /\ e.pset = d.pset
         /\ e.completed = d.completed \cup {b} /\ e.interested = d.interested \ {b}
         /\ \A c \in Pieces : c # b /\ HasPart(d, c) => HasPart(e, c)
<1>1. /\ d.completed \subseteq Pieces /\ d.interested \subseteq Pieces /\ d.partial \in Seq(PartType)
  BY DEF DlType
<1>2. PICK k, t : k = Place(d, b) /\ t = RemoveAt(d.partial, k)
  OBVIOUS
<1>3. k \in DOMAIN d.partial /\ d.partial[k].piece = b
  BY <1>1, <1>2, PlaceIs
<1>4. PICK f : t \in Seq(PartType) /\ AllBut(k, d.partial, t, f)
  <2>1. PICK s : s = d.partial
    OBVIOUS
  <2>2. s \in Seq(PartType) /\ k \in DOMAIN s /\ t = RemoveAt(s, k)
    BY <1>1, <1>2, <1>3, <2>1
  <2>3. t \in Seq(PartType) /\ \E f : AllBut(k, s, t, f)
    BY <2>2, RemovedAt
  <2> QED BY <2>1, <2>3
<1>5. PICK c, n : c = d.completed \cup {b} /\ n = d.interested \ {b}
  OBVIOUS
<1>6. e = [d EXCEPT !.completed = c, !.interested = n, !.partial = t]
  BY <1>2, <1>5 DEF Complete
<1>7. c \in SUBSET Pieces /\ n \in SUBSET Pieces /\ c \cap n = {}
  BY <1>1, <1>5 DEF PartsSound
<1>8. /\ e \in DlType /\ e.requested = d.requested /\ e.pset = d.pset
      /\ e.completed = c /\ e.interested = n /\ e.partial = t
  BY <1>4, <1>6, <1>7 DEF DlType
<1>9. \A i, j \in DOMAIN t : t[i].piece = t[j].piece => i = j
  BY <1>4 DEF PartsSound, AllBut
<1>10. \A i \in DOMAIN t : t[i].piece \notin c
  BY <1>3, <1>4, <1>5 DEF PartsSound, AllBut
<1>11. PartsSound(e)
  BY <1>7, <1>8, <1>9, <1>10 DEF PartsSound
<1>12. ASSUME NEW a \in Pieces, a # b, HasPart(d, a)
       PROVE  HasPart(e, a)
  <2>1. PICK j \in DOMAIN d.partial : d.partial[j].piece = a
    BY <1>12 DEF HasPart
  <2>2. PICK i \in DOMAIN t : f[i] = j
    BY <1>3, <1>4, <1>12, <2>1 DEF AllBut
  <2>3. t[i].piece = a
    BY <1>4, <2>1, <2>2 DEF AllBut
  <2> QED BY <1>8, <2>2, <2>3 DEF HasPart
<1> QED BY <1>5, <1>8, <1>11, <1>12

Completed(T, Z, b, B, U) == Only(B, b) /\ U = Range(T.dl.pset) /\ Z = [T EXCEPT !.dl = Complete(T.dl, b)]

LEMMA CompleteSound ==
  ASSUME NEW T, NEW L, Sound(T, {}, {}, L), NEW b \in Pieces, HasPart(T.dl, b),
         NEW B, NEW U, NEW Z, Completed(T, Z, b, B, U)
  PROVE  /\ Sound(Z, B, U, L) /\ Z.dl.pset = T.dl.pset /\ Z.peer = T.peer /\ b \in Z.dl.completed
<1> USE DEF Completed, Only
<1>1. /\ T \in State /\ T.dl \in DlType /\ T.peer \in [Peers -> PeerType]
      /\ PartsSound(T.dl) /\ SetSound(T) /\ MarksSound(T) /\ FewSound(T)
  BY DEF Sound, Whole, State
<1>2. PICK e : e = Complete(T.dl, b)
  OBVIOUS
<1>3. /\ e \in DlType /\ PartsSound(e)
      /\ e.requested = T.dl.requested /\ e.pset = T.dl.pset
      /\ e.completed = T.dl.completed \cup {b} /\ e.interested = T.dl.interested \ {b}
      /\ \A c \in Pieces : c # b /\ HasPart(T.dl, c) => HasPart(e, c)
  BY <1>1, <1>2, CompleteIs
<1>4. Z \in State /\ Z.dl = e /\ Z.peer = T.peer
  BY <1>1, <1>2, <1>3 DEF State
<1>5. SetSound(Z) /\ MarksSound(Z) /\ FewSound(Z)
  <2>1. FewSound(Z)
    BY <1>1, <1>4 DEF FewSound
  <2> QED BY <1>1, <1>3, <1>4, <2>1 DEF SetSound, MarksSound
<1>6. ASSUME NEW q \in Peers
      PROVE  /\ Proper(Z.peer[q], Z.dl, IF q \in U THEN B ELSE {})
             /\ q \notin L => Busy(Z.peer[q], Z.dl)
  <2> DEFINE r == T.peer[q]
             V == IF q \in U THEN B ELSE {}
  <2>1. r \in PeerType /\ Proper(r, T.dl, {}) /\ (q \notin L => Busy(r, T.dl))
    BY Unfold
  <2>2. r.joined => V = {b}
    BY <1>1 DEF SetSound
  <2>3. r.current \in Pieces \/ r.current = NoPiece
    BY <2>1 DEF PeerType
  <2> HIDE DEF V
  <2>4. Asking(r, e, V)
    BY <1>3, <2>1, <2>2, <2>3 DEF Proper, Asking
  <2>5. Owed(r, e) /\ Told(r, e, V)
    BY <1>3, <2>1, <2>2 DEF Proper, Owed, Told
  <2>6. q \notin L => Busy(r, e)
    BY <1>3, <2>1 DEF Busy, Interesting
  <2>7. Phases(r) /\ Timed(r)
    BY <2>1 DEF Proper
  <2> QED BY <1>4, <2>4, <2>5, <2>6, <2>7 DEF Proper, V
<1>7. Sound(Z, B, U, L)
  BY <1>3, <1>4, <1>5, <1>6 DEF Sound, Whole
<1> QED BY <1>3, <1>4, <1>7

(* The peers are told.                                                     *)
LEMMA ProperMore ==
  ASSUME NEW r, NEW d, Proper(r, d, {}), NEW B
  PROVE  Proper(r, d, B)
BY DEF Proper, Asking, Told

LEMMA Relieved ==
  ASSUME NEW S, NEW B, NEW U, NEW L, Sound(S, B, U, L), NEW p \in Peers, Proper(S.peer[p], S.dl, {}),
         NEW W, \A q \in Peers : q # p /\ q \in U => q \in W,
         \A q \in Peers : q # p /\ q \in W => q \in U
  PROVE  Sound(S, B, W, L)
<1>1. ASSUME NEW q \in Peers
      PROVE  Proper(S.peer[q], S.dl, IF q \in W THEN B ELSE {})
  <2>1. Proper(S.peer[q], S.dl, IF q \in U THEN B ELSE {})
    BY Unfold
  <2>2. CASE q = p
    BY <2>2, ProperMore
  <2>3. CASE q # p
    BY <2>1, <2>3
  <2> QED BY <2>2, <2>3
<1> QED BY <1>1 DEF Sound

CancelTurns(w, rqs, g, m) == g = [i \in 0..m |-> IF i = 0 THEN w ELSE RemoveFirst(g[i - 1], rqs[i])]

LEMMA CancelTurnsExist ==
  ASSUME NEW w, NEW rqs, NEW n \in Nat
  PROVE  \E g : CancelTurns(w, rqs, g, n)
<1> DEFINE A == {m \in Nat : \E g : CancelTurns(w, rqs, g, m)}
<1>1. 0 \in A
  <2>1. CancelTurns(w, rqs, [i \in 0..0 |-> w], 0)
    BY DEF CancelTurns
  <2> QED BY <2>1
<1>2. ASSUME NEW m \in 1..n, m - 1 \in A
      PROVE  m \in A
  <2>1. PICK g : CancelTurns(w, rqs, g, m - 1)
    BY <1>2
  <2> DEFINE h == [i \in 0..m |-> IF i = m THEN RemoveFirst(g[m - 1], rqs[m]) ELSE g[i]]
  <2>2. \A i \in 0..m : h[i] = IF i = 0 THEN w ELSE RemoveFirst(h[i - 1], rqs[i])
    <3>1. \A i \in 0..m-1 : g[i] = IF i = 0 THEN w ELSE RemoveFirst(g[i - 1], rqs[i])
      BY <2>1 DEF CancelTurns
    <3>2. \A i \in 0..m : i # m => i \in 0..m-1
      OBVIOUS
    <3>3. \A i \in 0..m : i # 0 => i - 1 \in 0..m /\ i - 1 # m /\ h[i - 1] = g[i - 1]
      OBVIOUS
    <3>4. m # 0
      OBVIOUS
    <3> QED BY <3>1, <3>2, <3>3, <3>4
  <2>3. h = [i \in 0..m |-> h[i]]
    OBVIOUS
  <2> HIDE DEF h
  <2>4. CancelTurns(w, rqs, h, m)
    BY <2>2, <2>3 DEF CancelTurns
  <2> QED BY <2>4
<1> HIDE DEF A
<1>3. n \in A
  BY <1>1, <1>2, UpTo
<1> QED BY <1>3 DEF A

LEMMA CancelledTyped ==
  ASSUME NEW R, NEW w \in Seq(R), NEW rqs \in Seq(R)
  PROVE  Cancelled(w, rqs) \in Seq(R)
<1> DEFINE n == Len(rqs)
           g == CHOOSE h : CancelTurns(w, rqs, h, n)
           A == {i \in 0..n : g[i] \in Seq(R)}
<1>1. Cancelled(w, rqs) = g[n]
  BY Zenon DEF Cancelled, CancelTurns
<1>2. n \in Nat
  OBVIOUS
<1> HIDE DEF n
<1>3. CancelTurns(w, rqs, g, n)
  BY <1>2, CancelTurnsExist
<1> HIDE DEF g
<1>4. \A i \in 0..n : g[i] = IF i = 0 THEN w ELSE RemoveFirst(g[i - 1], rqs[i])
  BY <1>3 DEF CancelTurns
<1>5. 0 \in A
  BY <1>2, <1>4
<1>6. ASSUME NEW i \in 1..n, i - 1 \in A
      PROVE  i \in A
  <2>1. i \in 0..n /\ i # 0
    BY <1>2
  <2>2. g[i] = RemoveFirst(g[i - 1], rqs[i])
    BY <1>4, <2>1
  <2>3. g[i] \in Seq(R)
    BY <1>6, <2>2, RemoveFirstTyped
  <2> QED BY <2>1, <2>3
<1> HIDE DEF A
<1>7. n \in A
  <2>1. \A i \in 1..n : i - 1 \in A => i \in A
    BY <1>6
  <2>2. \A i \in 0..n : i \in A
    BY <1>2, <1>5, <2>1, UpTo
  <2> QED BY <1>2, <2>2
<1> QED BY <1>1, <1>7 DEF A

Left(S, T, q) ==
  /\ OthersAlike(S, T, q) /\ T.dl = S.dl
  /\ T.peer[q].current = NoPiece /\ T.peer[q].joined = S.peer[q].joined

LEMMA FreedSound ==
  ASSUME NEW S, NEW B, NEW U, NEW L, Sound(S, B, U, L), NEW q \in Peers, S.peer[q].current \in S.dl.completed,
         NEW M, Within(L, M, q), q \in M, NEW T, T = Freed(S, q)
  PROVE  Sound(T, B, U, M) /\ Left(S, T, q)
<1>1. PICK r, V : r = S.peer[q] /\ V = IF q \in U THEN B ELSE {}
  OBVIOUS
<1>2. /\ S \in State /\ S.dl \in DlType /\ r \in PeerType /\ PartsSound(S.dl) /\ Proper(r, S.dl, V)
  BY <1>1, Unfold
<1>3. PICK w, e, m : /\ w = Cancelled(r.wire, r.inqueue) /\ e = <<>>
                     /\ m = IF r.down /\ r.inqueue # <<>> THEN "ERROR" ELSE r.state
  OBVIOUS
<1>4. PICK u, s : u = [r EXCEPT !.current = NoPiece, !.inqueue = e] /\ s = [u EXCEPT !.wire = w, !.state = m]
  OBVIOUS
<1>5. /\ w \in Seq(Pieces \X Blocks) /\ e \in Seq(Pieces \X Blocks)
      /\ m \in {r.state, "ERROR"} /\ m \in {"NONE", "INIT", "OUTGOING", "INCOMING", "GOOD", "ERROR"}
  <2>1. r.wire \in Seq(Pieces \X Blocks) /\ r.inqueue \in Seq(Pieces \X Blocks)
    BY <1>2 DEF PeerType
  <2>2. r.state \in {"NONE", "INIT", "OUTGOING", "INCOMING", "GOOD", "ERROR"}
    BY <1>2 DEF PeerType
  <2>3. w \in Seq(Pieces \X Blocks)
    BY <1>3, <2>1, CancelledTyped
  <2>4. e \in Seq(Pieces \X Blocks)
    BY <1>3
  <2>5. m \in {r.state, "ERROR"}
    BY <1>3
  <2> QED BY <2>2, <2>3, <2>4, <2>5
<1>6. /\ u \in PeerType /\ u.joined = r.joined /\ u.current = NoPiece
      /\ u.inqueue = e /\ u.wire = r.wire /\ u.state = r.state
      /\ u.rchoked = r.rchoked /\ u.ltimer = r.ltimer /\ u.lchoked = r.lchoked
      /\ u.rtimer = r.rtimer /\ u.linterested = r.linterested
      /\ u.rinterested = r.rinterested /\ u.queue = r.queue /\ u.told = r.told
      /\ u.missed = r.missed /\ u.blocks = r.blocks /\ u.down = r.down
  BY <1>2, <1>4, <1>5 DEF PeerType
<1>7. /\ s \in PeerType /\ s.joined = u.joined /\ s.current = u.current
      /\ s.inqueue = u.inqueue /\ s.wire = w /\ s.state = m
      /\ s.rchoked = u.rchoked /\ s.ltimer = u.ltimer /\ s.lchoked = u.lchoked
      /\ s.rtimer = u.rtimer /\ s.linterested = u.linterested
      /\ s.rinterested = u.rinterested /\ s.queue = u.queue /\ s.told = u.told
      /\ s.missed = u.missed /\ s.blocks = u.blocks /\ s.down = u.down
  BY ZenonT(60), <1>4, <1>5, <1>6 DEF PeerType
<1>8. \A x \in Pieces \X Blocks : Times(s.inqueue, x) <= Times(s.wire, x)
  <2> TAKE x \in Pieces \X Blocks
  <2>1. Times(s.inqueue, x) = 0
    BY <1>3, <1>6, <1>7, TimesEmpty
  <2>2. Times(s.wire, x) \in Nat
    BY <1>5, <1>7, SitesFinite
  <2> QED BY <2>1, <2>2
<1>9. Asking(s, S.dl, V) /\ Owed(s, S.dl) /\ Told(s, S.dl, V)
  <2>1. DOMAIN s.inqueue = {}
    BY <1>3, <1>6, <1>7
  <2> QED BY <1>2, <1>5, <1>6, <1>7, <1>8, <2>1 DEF Proper, Asking, Owed, Told
<1>10. Phases(s) /\ Timed(s)
  BY <1>2, <1>5, <1>6, <1>7 DEF Proper, Phases, Timed
<1>11. T = [S EXCEPT !.peer = [S.peer EXCEPT ![q] = s]]
  <2>1. T = [S EXCEPT !.peer[q] = [r EXCEPT !.current = NoPiece, !.inqueue = <<>>,
                                            !.wire = Cancelled(r.wire, r.inqueue),
                                            !.state = IF r.down /\ r.inqueue # <<>> THEN "ERROR" ELSE r.state]]
    BY <1>1, Zenon DEF Freed
  <2>2. T = [S EXCEPT !.peer[q] = [r EXCEPT !.current = NoPiece, !.inqueue = e, !.wire = w, !.state = m]]
    BY <1>3, <2>1, Zenon
  <2>3. [r EXCEPT !.current = NoPiece, !.inqueue = e, !.wire = w, !.state = m] = s
    BY <1>4, Zenon
  <2>4. T = [S EXCEPT !.peer[q] = s]
    BY <2>2, <2>3, Zenon
  <2> QED BY <1>2, <1>7, <2>4, OnePeer
<1>12. /\ T \in State /\ T.dl = S.dl /\ T.peer[q] = s
       /\ \A x \in Peers \ {q} : T.peer[x] = S.peer[x]
  BY <1>2, <1>7, <1>11 DEF State
<1>13. OthersAlike(S, T, q)
  <2>1. NoNewUpload(S.peer[q], T.peer[q])
    BY <1>1, <1>5, <1>6, <1>7, <1>12, UploadKept
  <2> QED BY <1>12, <2>1 DEF OthersAlike, Keeps
<1>14. Proper(T.peer[q], T.dl, IF q \in U THEN B ELSE {})
  BY <1>1, <1>9, <1>10, <1>12 DEF Proper
<1>15. /\ T.peer[q].joined = S.peer[q].joined /\ T.peer[q].current = NoPiece
       /\ S.peer[q].current \notin T.dl.requested \ T.dl.completed
       /\ T.dl.requested = S.dl.requested /\ PartsSound(T.dl)
  BY <1>1, <1>2, <1>6, <1>7, <1>12
<1>16. Sound(T, B, U, M)
  <2>1. \A c \in T.dl.requested \ S.dl.requested : T.peer[q].current = c
    BY <1>15
  <2> QED BY <1>12, <1>13, <1>14, <1>15, <2>1, PeerStep DEF Within
<1> QED BY <1>12, <1>13, <1>15, <1>16 DEF Left

(* p has the piece b among those told or missed now, or is lost.           *)
HasHeard(r, s, b) ==
  \/ r.state # "GOOD" /\ s = [r EXCEPT !.missed = r.missed \cup {b}]
  \/ s = [r EXCEPT !.state = "ERROR"]
  \/ r.state = "GOOD" /\ s = [r EXCEPT !.told = r.told \cup {b}]

LEMMA ToldSound ==
  ASSUME NEW r \in PeerType, NEW d, NEW b \in Pieces, NEW B, B = {b}, Proper(r, d, B), Busy(r, d),
         r.current # NoPiece => HasPart(d, r.current), NEW s, HasHeard(r, s, b)
  PROVE  /\ s \in PeerType /\ s.joined = r.joined /\ s.current = r.current
         /\ NoNewUpload(r, s) /\ Proper(s, d, {}) /\ Busy(s, d)
<1>1. PICK t, m : t = r.told \cup {b} /\ m = r.missed \cup {b}
  OBVIOUS
<1>2. t \in SUBSET Pieces /\ m \in SUBSET Pieces
  BY <1>1 DEF PeerType
<1>3. ASSUME /\ s \in PeerType /\ s.joined = r.joined /\ s.current = r.current
             /\ s.inqueue = r.inqueue /\ s.wire = r.wire
             /\ s.rchoked = r.rchoked /\ s.ltimer = r.ltimer /\ s.lchoked = r.lchoked
             /\ s.rtimer = r.rtimer /\ s.linterested = r.linterested
             /\ s.rinterested = r.rinterested /\ s.queue = r.queue
             /\ s.blocks = r.blocks /\ s.down = r.down,
             s.state \in {r.state, "ERROR"},
             s.state # "ERROR" => B \cup r.told \cup r.missed \subseteq s.told \cup s.missed
      PROVE  NoNewUpload(r, s) /\ Proper(s, d, {}) /\ Busy(s, d)
  <2>4. NoNewUpload(r, s)
    BY <1>3, UploadKept
  <2>1. Asking(s, d, {}) /\ Owed(s, d)
    BY <1>3 DEF Proper, Asking, Owed
  <2>2. Told(s, d, {})
    BY <1>3 DEF Proper, Told
  <2>3. Phases(s) /\ Timed(s) /\ Busy(s, d)
    BY <1>3 DEF Proper, Phases, Timed, Busy, Interesting
  <2> QED BY <2>1, <2>2, <2>3, <2>4 DEF Proper
<1>4. CASE r.state # "GOOD" /\ s = [r EXCEPT !.missed = m]
  <2>1. /\ s \in PeerType /\ s.joined = r.joined /\ s.current = r.current
        /\ s.inqueue = r.inqueue /\ s.wire = r.wire
        /\ s.rchoked = r.rchoked /\ s.ltimer = r.ltimer /\ s.lchoked = r.lchoked
        /\ s.rtimer = r.rtimer /\ s.linterested = r.linterested
        /\ s.rinterested = r.rinterested /\ s.queue = r.queue
        /\ s.blocks = r.blocks /\ s.down = r.down
        /\ s.state = r.state /\ s.told = r.told /\ s.missed = m
    BY <1>2, <1>4 DEF PeerType
  <2> QED BY <1>1, <1>3, <2>1
<1>5. CASE s = [r EXCEPT !.state = "ERROR"]
  <2>1. /\ s \in PeerType /\ s.joined = r.joined /\ s.current = r.current
        /\ s.inqueue = r.inqueue /\ s.wire = r.wire
        /\ s.rchoked = r.rchoked /\ s.ltimer = r.ltimer /\ s.lchoked = r.lchoked
        /\ s.rtimer = r.rtimer /\ s.linterested = r.linterested
        /\ s.rinterested = r.rinterested /\ s.queue = r.queue
        /\ s.blocks = r.blocks /\ s.down = r.down /\ s.state = "ERROR"
    BY <1>5 DEF PeerType
  <2> QED BY <1>3, <2>1
<1>6. CASE s = [r EXCEPT !.told = t]
  <2>1. /\ s \in PeerType /\ s.joined = r.joined /\ s.current = r.current
        /\ s.inqueue = r.inqueue /\ s.wire = r.wire
        /\ s.rchoked = r.rchoked /\ s.ltimer = r.ltimer /\ s.lchoked = r.lchoked
        /\ s.rtimer = r.rtimer /\ s.linterested = r.linterested
        /\ s.rinterested = r.rinterested /\ s.queue = r.queue
        /\ s.blocks = r.blocks /\ s.down = r.down
        /\ s.state = r.state /\ s.told = t /\ s.missed = r.missed
    BY <1>2, <1>6 DEF PeerType
  <2> QED BY <1>1, <1>3, <2>1
<1> QED BY <1>1, <1>4, <1>5, <1>6 DEF HasHeard

LEMMA FinishedForSound ==
  ASSUME NEW S, NEW B, NEW U, NEW L, Sound(S, B, U, L), NEW b \in Pieces, B = {b}, b \in S.dl.completed,
         NEW q \in Peers, S.peer[q].joined, q \in L => S.peer[q].current = b,
         NEW o, o.qlen \in Nat \ {0},
         NEW M, Within(L, M, q), q \notin M,
         NEW W, \A x \in Peers : x # q /\ x \in U => x \in W, \A x \in Peers : x # q /\ x \in W => x \in U,
         NEW X, X = FinishedFor(S, q, b, o)
  PROVE  Sound(X, B, W, M) /\ OthersAlike(S, X, q)
<1>1. PICK T : T = IF S.peer[q].current = b THEN SendRequest(Freed(S, q), q, o) ELSE S
  OBVIOUS
<1>2. /\ Sound(T, B, U, M) /\ OthersAlike(S, T, q) /\ T.peer[q].joined
      /\ T.peer[q].current # NoPiece => HasPart(T.dl, T.peer[q].current)
  <2>1. CASE S.peer[q].current = b
    <3>1. PICK F : F = Freed(S, q)
      OBVIOUS
    <3>2. PICK N : Within(L, N, q) /\ q \in N /\ Within(N, M, q)
      <4>1. Within(L, L \cup {q}, q) /\ q \in L \cup {q} /\ Within(L \cup {q}, M, q)
        BY DEF Within
      <4> QED BY <4>1
    <3>3. /\ Sound(F, B, U, N) /\ OthersAlike(S, F, q)
          /\ F.peer[q].current = NoPiece /\ F.peer[q].joined = S.peer[q].joined
      <4>1. S.peer[q].current \in S.dl.completed
        BY <2>1
      <4>2. Sound(F, B, U, N) /\ Left(S, F, q)
        BY <3>1, <3>2, <4>1, FreedSound
      <4> QED BY <4>2 DEF Left
    <3>4. T = SendRequest(F, q, o)
      BY <1>1, <2>1, <3>1
    <3>5. /\ Sound(T, B, U, N \ {q}) /\ OthersAlike(F, T, q) /\ T.peer[q].joined
          /\ T.peer[q].current # NoPiece => HasPart(T.dl, T.peer[q].current)
      <4>1. F.peer[q].joined /\ (F.peer[q].current # NoPiece => HasPart(F.dl, F.peer[q].current))
        BY <3>3
      <4>2. Sound(F, B, U, N)
        BY <3>3
      <4> QED BY <3>4, <4>1, <4>2, SendRequestSound
    <3>6. PICK K : K = N \ {q}
      OBVIOUS
    <3>7. \A x \in K \ M : FALSE
      BY <3>2, <3>6 DEF Within
    <3>8. Sound(T, B, U, M)
      BY <3>5, <3>6, <3>7, LetOff
    <3> QED BY <3>3, <3>5, <3>8, OthersTrans
  <2>2. CASE S.peer[q].current # b
    <3>1. T = S /\ q \notin L
      BY <1>1, <2>2
    <3>2. \A x \in L \ M : FALSE
      BY <3>1 DEF Within
    <3>3. Sound(T, B, U, M)
      BY <3>1, <3>2, LetOff
    <3>4. Proper(S.peer[q], S.dl, IF q \in U THEN B ELSE {})
      BY Unfold
    <3>5. S.peer[q].current # NoPiece => HasPart(S.dl, S.peer[q].current)
      BY <2>2, <3>4 DEF Proper, Asking
    <3> QED BY <3>1, <3>3, <3>5 DEF OthersAlike, Keeps, NoNewUpload
  <2> QED BY <2>1, <2>2
<1>3. PICK r : r = T.peer[q]
  OBVIOUS
<1>4. /\ T \in State /\ r \in PeerType /\ Proper(r, T.dl, IF q \in U THEN B ELSE {}) /\ Busy(r, T.dl)
      /\ T.peer \in [Peers -> PeerType]
  BY <1>2, <1>3, Unfold
<1>5. Proper(r, T.dl, B)
  BY <1>4, ProperMore
<1>6. PICK s : HasHeard(r, s, b) /\ X = [T EXCEPT !.peer = [T.peer EXCEPT ![q] = s]]
  <2>1. X = IF r.state # "GOOD" THEN [T EXCEPT !.peer[q].missed = @ \cup {b}]
            ELSE IF r.down THEN [T EXCEPT !.peer[q].state = "ERROR"]
            ELSE [T EXCEPT !.peer[q].told = @ \cup {b}]
    BY <1>1, <1>3, Zenon DEF FinishedFor
  <2>2. CASE r.state # "GOOD"
    <3>1. PICK m : m = r.missed \cup {b}
      OBVIOUS
    <3>2. X = [T EXCEPT !.peer = [T.peer EXCEPT ![q] = [r EXCEPT !.missed = m]]]
      BY <1>3, <1>4, <2>1, <2>2, <3>1 DEF State
    <3> QED BY <2>2, <3>1, <3>2 DEF HasHeard
  <2>3. CASE r.state = "GOOD" /\ r.down
    <3>1. X = [T EXCEPT !.peer = [T.peer EXCEPT ![q] = [r EXCEPT !.state = "ERROR"]]]
      BY <1>3, <1>4, <2>1, <2>3 DEF State
    <3> QED BY <3>1 DEF HasHeard
  <2>4. CASE r.state = "GOOD" /\ ~r.down
    <3>1. PICK m : m = r.told \cup {b}
      OBVIOUS
    <3>2. X = [T EXCEPT !.peer = [T.peer EXCEPT ![q] = [r EXCEPT !.told = m]]]
      BY <1>3, <1>4, <2>1, <2>4, <3>1 DEF State
    <3> QED BY <2>4, <3>1, <3>2 DEF HasHeard
  <2> QED BY <2>2, <2>3, <2>4
<1>7. /\ s \in PeerType /\ s.joined = r.joined /\ s.current = r.current
      /\ NoNewUpload(r, s) /\ Proper(s, T.dl, {}) /\ Busy(s, T.dl)
  BY <1>2, <1>3, <1>4, <1>5, <1>6, ToldSound
<1>8. /\ Sound(X, B, U, M) /\ OthersAlike(T, X, q) /\ X.peer[q] = s /\ X.dl = T.dl
  <2>1. Proper(s, T.dl, IF q \in U THEN B ELSE {})
    BY <1>7, ProperMore
  <2>2. M \subseteq M \cup {q}
    OBVIOUS
  <2>3. s.joined = T.peer[q].joined /\ s.current = T.peer[q].current
    BY <1>3, <1>7
  <2>4. X \in State /\ X.dl = T.dl /\ X.peer[q] = s /\ \A x \in Peers \ {q} : X.peer[x] = T.peer[x]
    BY <1>4, <1>6, <1>7 DEF State
  <2>5. OthersAlike(T, X, q) /\ PartsSound(X.dl)
    BY <1>2, <1>3, <1>7, <2>4, Unfold DEF OthersAlike, Keeps
  <2>6. \A c \in X.dl.requested \ T.dl.requested : X.peer[q].current = c
    BY <2>4
  <2>7. Sound(X, B, U, M)
    BY <1>2, <1>7, <2>1, <2>2, <2>3, <2>4, <2>5, <2>6, PeerStep
  <2> QED BY <2>4, <2>5, <2>7
<1>9. Sound(X, B, W, M)
  BY <1>7, <1>8, Relieved
<1> QED BY <1>2, <1>8, <1>9, OthersTrans

(* The turns of the loop over the set.                                     *)
FinishTurns(S, b, o, g, m) ==
  g = [i \in 0..m |-> IF i = 0 THEN S ELSE FinishedFor(g[i - 1], S.dl.pset[i], b, o)]

LEMMA FinishTurnsExist ==
  ASSUME NEW S, NEW b, NEW o, NEW n \in Nat
  PROVE  \E g : FinishTurns(S, b, o, g, n)
<1> DEFINE A == {m \in Nat : \E g : FinishTurns(S, b, o, g, m)}
<1>1. 0 \in A
  <2>1. FinishTurns(S, b, o, [i \in 0..0 |-> S], 0)
    BY DEF FinishTurns
  <2> QED BY <2>1
<1>2. ASSUME NEW m \in 1..n, m - 1 \in A
      PROVE  m \in A
  <2>1. PICK g : FinishTurns(S, b, o, g, m - 1)
    BY <1>2
  <2> DEFINE h == [i \in 0..m |-> IF i = m THEN FinishedFor(g[m - 1], S.dl.pset[m], b, o) ELSE g[i]]
  <2>2. \A i \in 0..m : h[i] = IF i = 0 THEN S ELSE FinishedFor(h[i - 1], S.dl.pset[i], b, o)
    <3>1. \A i \in 0..m-1 : g[i] = IF i = 0 THEN S ELSE FinishedFor(g[i - 1], S.dl.pset[i], b, o)
      BY <2>1 DEF FinishTurns
    <3>2. \A i \in 0..m : i # m => i \in 0..m-1
      OBVIOUS
    <3>3. \A i \in 0..m : i # 0 => i - 1 \in 0..m /\ i - 1 # m /\ h[i - 1] = g[i - 1]
      OBVIOUS
    <3>4. m # 0
      OBVIOUS
    <3> QED BY <3>1, <3>2, <3>3, <3>4
  <2>3. h = [i \in 0..m |-> h[i]]
    OBVIOUS
  <2> HIDE DEF h
  <2>4. FinishTurns(S, b, o, h, m)
    BY <2>2, <2>3 DEF FinishTurns
  <2> QED BY <2>4
<1> HIDE DEF A
<1>3. n \in A
  BY <1>1, <1>2, UpTo
<1> QED BY <1>3 DEF A

(* Those behind the i-th of a list.                                        *)
Behind(ps, i) == {ps[j] : j \in i+1..Len(ps)}

LEMMA BehindIs ==
  ASSUME NEW R, NEW ps \in Seq(R), IsInjective(ps)
  PROVE  /\ Behind(ps, 0) = Range(ps) /\ Behind(ps, Len(ps)) = {}
         /\ \A i \in 1..Len(ps) :
              /\ ps[i] \in R /\ ps[i] \in Behind(ps, i - 1) /\ ps[i] \notin Behind(ps, i)
              /\ \A x : x # ps[i] => (x \in Behind(ps, i) <=> x \in Behind(ps, i - 1))
<1>1. Len(ps) \in Nat /\ DOMAIN ps = 1..Len(ps)
  OBVIOUS
<1>2. Behind(ps, 0) = Range(ps)
  BY <1>1 DEF Behind, Range
<1>3. Behind(ps, Len(ps)) = {}
  BY <1>1 DEF Behind
<1>4. ASSUME NEW i \in 1..Len(ps)
      PROVE  /\ ps[i] \in R /\ ps[i] \in Behind(ps, i - 1) /\ ps[i] \notin Behind(ps, i)
             /\ \A x : x # ps[i] => (x \in Behind(ps, i) <=> x \in Behind(ps, i - 1))
  <2>1. ps[i] \in R
    BY <1>1
  <2>2. i - 1 + 1 = i /\ i \in i..Len(ps)
    BY <1>1
  <2>3. ps[i] \in Behind(ps, i - 1)
    BY <2>2 DEF Behind
  <2>4. ps[i] \notin Behind(ps, i)
    <3> SUFFICES ASSUME NEW j \in i+1..Len(ps), ps[j] = ps[i] PROVE FALSE
      BY DEF Behind
    <3>1. j \in DOMAIN ps /\ i \in DOMAIN ps /\ j # i
      BY <1>1
    <3> QED BY <3>1 DEF IsInjective
  <2>5. ASSUME NEW x, x # ps[i]
        PROVE  x \in Behind(ps, i) <=> x \in Behind(ps, i - 1)
    <3>1. \A j \in i..Len(ps) : j # i => j \in i+1..Len(ps)
      BY <1>1
    <3>2. \A j \in i+1..Len(ps) : j \in i..Len(ps)
      BY <1>1
    <3>3. Behind(ps, i - 1) = {ps[j] : j \in i..Len(ps)}
      BY <2>2 DEF Behind
    <3> QED BY <2>5, <3>1, <3>2, <3>3 DEF Behind
  <2> QED BY <2>1, <2>3, <2>4, <2>5
<1> QED BY <1>2, <1>3, <1>4

LEMMA FinishSound ==
  ASSUME NEW S, NEW B, NEW U, NEW L, Sound(S, B, U, L), NEW b \in Pieces, Only(B, b), b \in S.dl.completed,
         U = Range(S.dl.pset), NEW p \in Peers, Only(L, p), S.peer[p].current = b, S.peer[p].joined,
         NEW o, o.qlen \in Nat \ {0}, NEW F, F = Finish(S, b, o)
  PROVE  Sound(F, {}, {}, {}) /\ F.peer[p].joined
<1> USE DEF Only
<1>1. PICK ps, n : ps = S.dl.pset /\ n = Len(ps)
  OBVIOUS
<1>2. /\ ps \in Seq(Peers) /\ n \in Nat /\ IsInjective(ps)
      /\ Range(ps) = {q \in Peers : S.peer[q].joined}
  BY <1>1 DEF Sound, Whole, State, DlType, SetSound
<1>3. PICK g : FinishTurns(S, b, o, g, n) /\ F = g[n]
  <2> DEFINE h == CHOOSE h : FinishTurns(S, b, o, h, n)
  <2>1. F = h[n]
    BY <1>1, Zenon DEF Finish, FinishTurns
  <2>2. FinishTurns(S, b, o, h, n)
    BY <1>2, FinishTurnsExist
  <2> HIDE DEF h
  <2> QED BY <2>1, <2>2
<1>4. \A i \in 0..n : g[i] = IF i = 0 THEN S ELSE FinishedFor(g[i - 1], ps[i], b, o)
  BY <1>1, <1>3 DEF FinishTurns
<1> DEFINE Fine(i) == /\ Sound(g[i], B, Behind(ps, i), L \cap Behind(ps, i))
                      /\ g[i].dl.pset = ps /\ b \in g[i].dl.completed
                      /\ p \in Behind(ps, i) => g[i].peer[p].current = b
           A == {i \in 0..n : Fine(i)}
<1>5. 0 \in A
  <2>1. 0 \in 0..n /\ g[0] = S
    BY <1>2, <1>4
  <2>2. Behind(ps, 0) = U /\ p \in U
    BY <1>1, <1>2, BehindIs
  <2>3. L \cap Behind(ps, 0) = L
    BY <2>2
  <2> QED BY <1>1, <2>1, <2>2, <2>3
<1>6. ASSUME NEW i \in 1..n, i - 1 \in A
      PROVE  i \in A
  <2>1. i \in 0..n /\ i # 0 /\ i - 1 \in 0..n /\ Fine(i - 1)
    BY <1>2, <1>6
  <2>2. PICK q, X, Y, V, W, K, M :
          /\ q = ps[i] /\ X = g[i - 1] /\ Y = g[i] /\ V = Behind(ps, i - 1) /\ W = Behind(ps, i)
          /\ K = L \cap V /\ M = L \cap W
    OBVIOUS
  <2>3. /\ q \in Peers /\ q \in V /\ q \notin W
        /\ \A x : x # q => (x \in W <=> x \in V)
    BY <1>1, <1>2, <2>2, BehindIs
  <2>4. /\ Sound(X, B, V, K) /\ X.dl.pset = ps /\ b \in X.dl.completed
        /\ p \in V => X.peer[p].current = b
    BY <2>1, <2>2
  <2>5. Y = FinishedFor(X, q, b, o)
    BY <1>4, <2>1, <2>2
  <2>6. Within(K, M, q) /\ q \notin M /\ (q \in K => X.peer[q].current = b)
    BY <2>2, <2>3, <2>4 DEF Within
  <2>7. X.peer[q].joined
    <3>1. Range(X.dl.pset) = {x \in Peers : X.peer[x].joined}
      BY <2>3, <2>4, Unfold DEF SetSound
    <3>2. q \in Range(ps)
      BY <1>1, <1>2, <2>2 DEF Range
    <3> QED BY <2>4, <3>1, <3>2
  <2>8. Sound(Y, B, W, M) /\ OthersAlike(X, Y, q)
    <3>1. (\A x \in Peers : x # q /\ x \in V => x \in W) /\ (\A x \in Peers : x # q /\ x \in W => x \in V)
      BY <2>3
    <3> QED BY <2>3, <2>4, <2>5, <2>6, <2>7, <3>1, FinishedForSound
  <2>9. /\ Y.dl.pset = ps /\ b \in Y.dl.completed
        /\ p \in W => Y.peer[p].current = b
    BY <2>3, <2>4, <2>8 DEF OthersAlike, Keeps
  <2> QED BY <2>1, <2>2, <2>8, <2>9
<1> HIDE DEF A
<1>7. n \in A
  <2>1. \A i \in 1..n : i - 1 \in A => i \in A
    BY <1>6
  <2>2. \A i \in 0..n : i \in A
    BY <1>2, <1>5, <2>1, UpTo
  <2> QED BY <1>2, <2>2
<1>8. Sound(F, B, {}, {}) /\ F.dl.pset = ps
  <2>1. Fine(n)
    BY <1>7 DEF A
  <2>2. Behind(ps, n) = {}
    BY <1>1, <1>2, BehindIs
  <2>3. L \cap {} = {}
    OBVIOUS
  <2> QED BY <1>3, <2>1, <2>2, <2>3
<1>9. Sound(F, {}, {}, {})
  BY <1>8 DEF Sound
<1>10. F.peer[p].joined
  BY <1>1, <1>2, <1>8 DEF Sound, Whole, SetSound
<1> QED BY <1>9, <1>10

LEMMA PieceSound ==
  ASSUME IInv, NEW p \in Peers, NEW rq \in Pieces \X Blocks, NEW fine \in BOOLEAN, Piece(p, rq, fine)
  PROVE  IInv'
<1>1. /\ Now.dl = dl /\ Now.peer = peer /\ Now = [dl |-> dl, peer |-> peer]
      /\ peer[p] \in PeerType /\ Proper(peer[p], dl, {})
      /\ peer \in [Peers -> PeerType] /\ dl \in DlType
  BY NowIs, Unfold
<1>2. PICK w, q, e : /\ w = RemoveFirst(peer[p].wire, rq) /\ q = Unqueue(peer[p].inqueue, rq)
                     /\ e = Store(dl, rq, fine)
  OBVIOUS
<1>3. PICK S : S = [Now EXCEPT !.peer[p].wire = w]
  OBVIOUS
<1>4. S = [Now EXCEPT !.peer[p].wire = RemoveFirst(@, rq)]
  BY <1>1, <1>2, <1>3
<1>5. PICK T : T = [S EXCEPT !.dl = e, !.peer[p].inqueue = Unqueue(@, rq)]
  OBVIOUS
<1>6. \/ peer[p].current = NoPiece /\ Turn(S, p)
      \/ rq \notin Range(peer[p].inqueue) /\ Turn(S, p)
      \/ /\ rq \in Range(peer[p].inqueue)
         /\ \E o \in Chances({}) : Asks(T, p, o)
      \/ /\ rq \in Range(peer[p].inqueue)
         /\ \E o \in Chances({r \in Peers : peer[r].current = rq[1]}) :
              Asks(Finish([T EXCEPT !.dl = Complete(e, rq[1])], rq[1], o), p, o)
  BY <1>2, <1>4, <1>5, Zenon DEF Piece
<1>7. peer[p].current = NoPiece => rq \notin Range(peer[p].inqueue)
  <2>1. \A x \in Range(peer[p].inqueue) : x[1] = peer[p].current
    BY <1>1 DEF Proper, Asking, Range
  <2>2. rq[1] # NoPiece
    BY PiecesAre
  <2> QED BY <2>1, <2>2
<1>8. CASE rq \notin Range(peer[p].inqueue) /\ Turn(S, p)
  <2>1. Sound(S, {}, {}, {})
    BY <1>2, <1>3, <1>8, DropSound
  <2> QED BY <1>8, <2>1, TurnSound
<1>9. ASSUME rq \in Range(peer[p].inqueue)
      PROVE  /\ \E L : Only(L, p) /\ Sound(T, {}, {}, L)
             /\ T.dl = e /\ T.peer[p].joined /\ T.peer[p].current = rq[1] /\ HasPart(e, rq[1])
  <2>1. PICK s, L : s = [peer[p] EXCEPT !.wire = w, !.inqueue = q] /\ Only(L, p)
    BY DEF Only
  <2>2. T = [dl |-> e, peer |-> [peer EXCEPT ![p] = s]]
    <3>1. PICK v : v = [peer[p] EXCEPT !.wire = w]
      OBVIOUS
    <3>2. S = [dl |-> dl, peer |-> [peer EXCEPT ![p] = v]]
      BY <1>1, <1>3, <3>1
    <3>3. v.inqueue = peer[p].inqueue
      BY <1>1, <3>1 DEF PeerType
    <3>4. T = [dl |-> e, peer |-> [peer EXCEPT ![p] = [v EXCEPT !.inqueue = Unqueue(v.inqueue, rq)]]]
      BY <1>1, <1>5, <3>2
    <3>5. [v EXCEPT !.inqueue = q] = s
      BY <2>1, <3>1, Zenon
    <3> QED BY <1>2, <3>3, <3>4, <3>5, Zenon
  <2>3. /\ Sound(T, {}, {}, L) /\ T.dl = e /\ T.peer[p] = s /\ s.joined
        /\ s.current = peer[p].current /\ s.current = rq[1]
    <3>1. Taken(T, L, p, rq, w, q, e, s)
      BY <1>2, <2>1, <2>2, Zenon DEF Taken
    <3> QED BY <1>2, <1>9, <3>1, TakenSound
  <2>4. HasPart(T.dl, rq[1])
    <3>1. Proper(T.peer[p], T.dl, {}) /\ rq[1] # NoPiece
      BY <2>3, Unfold, PiecesAre
    <3> QED BY <2>3, <3>1 DEF Proper, Asking
  <2> QED BY <2>1, <2>3, <2>4
<1>10. CASE rq \in Range(peer[p].inqueue) /\ \E o \in Chances({}) : Asks(T, p, o)
  <2>1. PICK o : Asks(T, p, o) /\ o.qlen \in Nat \ {0}
    BY <1>10, ChancesAre
  <2>2. PICK L : L \subseteq {p} /\ Sound(T, {}, {}, L) /\ T.peer[p].joined
    BY <1>9, <1>10 DEF Only
  <2> QED BY <2>1, <2>2, AsksSound
<1>11. CASE /\ rq \in Range(peer[p].inqueue)
            /\ \E o \in Chances({r \in Peers : peer[r].current = rq[1]}) :
                 Asks(Finish([T EXCEPT !.dl = Complete(e, rq[1])], rq[1], o), p, o)
  <2>1. PICK o : /\ Asks(Finish([T EXCEPT !.dl = Complete(e, rq[1])], rq[1], o), p, o)
                 /\ o.qlen \in Nat \ {0}
    BY <1>11, ChancesAre
  <2>2. PICK L : Only(L, p) /\ Sound(T, {}, {}, L)
    BY <1>9, <1>11
  <2>3. PICK b : b = rq[1]
    OBVIOUS
  <2>4. b \in Pieces /\ T.dl = e /\ T.peer[p].joined /\ T.peer[p].current = b /\ HasPart(T.dl, b)
    BY <1>9, <1>11, <2>3
  <2>5. PICK B, U, Z : Completed(T, Z, b, B, U)
    BY DEF Completed, Only
  <2>6. Sound(Z, B, U, L) /\ Z.dl.pset = T.dl.pset /\ Z.peer = T.peer /\ b \in Z.dl.completed
    BY <2>2, <2>4, <2>5, CompleteSound
  <2>7. PICK F : F = Finish(Z, b, o)
    OBVIOUS
  <2>8. Only(B, b) /\ U = Range(Z.dl.pset) /\ Z.peer[p].current = b /\ Z.peer[p].joined
    BY <2>4, <2>5, <2>6 DEF Completed
  <2>9. Sound(F, {}, {}, {}) /\ F.peer[p].joined
    BY <2>1, <2>2, <2>4, <2>6, <2>7, <2>8, FinishSound
  <2>10. Asks(F, p, o)
    BY <2>1, <2>3, <2>4, <2>5, <2>7 DEF Completed
  <2>11. PICK N : N = {}
    OBVIOUS
  <2>12. Sound(F, {}, {}, N) /\ N \subseteq {p}
    BY <2>9, <2>11
  <2> QED BY <2>1, <2>9, <2>10, <2>12, AsksSound
<1> QED BY <1>6, <1>7, <1>8, <1>10, <1>11

(***************************************************************************)
(* The theorem.                                                            *)
(***************************************************************************)

LEMMA InitSound == Init => IInv
<1> SUFFICES ASSUME Init PROVE IInv
  OBVIOUS
<1>1. Now.dl = dl /\ Now.peer = peer /\ Now = [dl |-> dl, peer |-> peer]
  BY DEF Now
<1>2. \A p \in Peers : peer[p] = Nobody /\ peer[p].joined = FALSE
  BY NobodyProper DEF Init
<1>3. /\ dl.completed = OnDisk /\ dl.requested = OnDisk /\ dl.interested = Pieces \ OnDisk
      /\ dl.partial = <<>> /\ dl.pset = <<>>
  BY DEF Init
<1>4. dl \in DlType
  BY SwarmAssumption DEF Init, DlType
<1>5. Now \in State
  BY <1>1, <1>4, NobodyProper DEF State, Init
<1>6. PartsSound(dl)
  BY <1>3 DEF PartsSound
<1>7. SetSound(Now)
  BY <1>1, <1>2, <1>3 DEF SetSound, IsInjective, Range
<1>8. MarksSound(Now)
  BY <1>1, <1>3 DEF MarksSound
<1>10. FewSound(Now)
  <2>1. {p \in Peers : Upload(Now.peer[p])} = {}
    BY <1>1, <1>2 DEF Upload, Nobody
  <2> QED BY <2>1, FS_EmptySet, SwarmAssumption DEF FewSound
<1>9. \A p \in Peers : Proper(peer[p], dl, {}) /\ Busy(peer[p], dl)
  BY <1>2, NobodyProper
<1> QED BY <1>1, <1>5, <1>6, <1>7, <1>8, <1>9, <1>10 DEF IInv, Sound, Whole

(* Every step of the client keeps the invariant.                           *)
LEMMA NextKeeps ==
  ASSUME IInv, [Next]_vars
  PROVE  IInv'
<1>1. CASE UNCHANGED vars
  BY <1>1, NowIs, NextSound DEF vars
<1>2. ASSUME NEW p \in Peers, Hear(p)
      PROVE  IInv'
  <2>1. CASE Choke(p) \/ Unchoke(p) \/ Interested(p) \/ NotInterested(p)
    BY <2>1, ChokeSound, UnchokeSound, InterestedSound
  <2>2. ASSUME NEW b \in Pieces, Have(p, b) \/ Request(p, b) \/ Cancel(p, b)
        PROVE  IInv'
    BY <2>2, HaveSound, RequestSound
  <2>3. ASSUME NEW bs \in SUBSET Pieces, Bitfield(p, bs)
        PROVE  IInv'
    BY <2>3, BitfieldSound
  <2>4. ASSUME NEW rq \in Pieces \X Blocks, NEW fine \in BOOLEAN, Piece(p, rq, fine)
        PROVE  IInv'
    BY <2>4, PieceSound
  <2> QED BY <1>2, <2>1, <2>2, <2>3, <2>4 DEF Hear
<1>3. ASSUME NEW p \in Peers, Connect(p)
      PROVE  IInv'
  BY <1>3, PeerAddSound, ConnectCompleteSound, PeerAnswerSound, HalfHandshakeSound, RecvHandshakeSound
  DEF Connect
<1>4. ASSUME NEW p \in Peers, Execute(p) \/ Snub(p) \/ Gone(p) \/ Close(p)
      PROVE  IInv'
  BY <1>4, QuietSound, SnubSound, GoneSound
<1> QED BY <1>1, <1>2, <1>3, <1>4, ChooseFavoritesSound DEF Next

(* What the invariant says of the peers, part by part.                     *)
LEMMA IInvGives == IInv => PeersSound
<1> SUFFICES ASSUME IInv PROVE PeersSound
  OBVIOUS
<1>1. /\ dl \in DlType /\ PartsSound(dl) /\ SetSound(Now) /\ MarksSound(Now)
      /\ Now.dl = dl /\ Now.peer = peer
  BY NowIs DEF Sound, Whole, State
<1>2. \A p \in Peers : peer[p] \in PeerType /\ Proper(peer[p], dl, {}) /\ Busy(peer[p], dl)
  BY NowIs, Unfold
<1>3. TypeOK
  BY <1>1, <1>2 DEF TypeOK, DlType, PartsSound, SetSound
<1>4. ASSUME NEW p \in Peers, peer[p].current # NoPiece
      PROVE  /\ HasPart(dl, peer[p].current) /\ peer[p].current \notin dl.completed
             /\ peer[p].current \in Pieces /\ peer[p].inqueue # <<>>
  <2>1. HasPart(dl, peer[p].current) /\ peer[p].inqueue # <<>> /\ peer[p].current \in Pieces
    BY <1>2, <1>4 DEF Proper, Asking, Busy, PeerType
  <2> QED BY <1>1, <2>1 DEF HasPart, PartsSound
<1>5. RequestsOfCurrent
  <2>1. ASSUME NEW p \in Peers, NEW rq \in Range(peer[p].inqueue)
        PROVE  Times(peer[p].inqueue, rq) <= Times(peer[p].wire, rq)
    <3>1. peer[p].inqueue \in Seq(Pieces \X Blocks)
      BY <1>2 DEF PeerType
    <3>2. rq \in Pieces \X Blocks
      BY <3>1 DEF Range
    <3> QED BY <1>2, <3>2 DEF Proper, Asking
  <2> QED BY <1>2, <1>4, <2>1 DEF RequestsOfCurrent, Proper, Asking
<1>6. NoOrphan
  BY <1>1 DEF NoOrphan, MarksSound
<1>7. NeverIdle
  BY <1>2 DEF NeverIdle, Good, Busy
<1>8. CompleteMeansFree
  BY <1>4 DEF CompleteMeansFree
<1>9. QueueServable
  BY <1>2 DEF QueueServable, Proper, Owed
<1>10. TimersHonest
  BY <1>2 DEF TimersHonest, Proper, Timed
<1>11. HavesReach
  BY <1>2 DEF HavesReach, Good, Proper, Phases, Told
<1> QED BY <1>3, <1>5, <1>6, <1>7, <1>8, <1>9, <1>10, <1>11 DEF PeersSound

(* The peers of a torrent stay sound: what one waits for is of its piece   *)
(* and was sent; a piece marked requested is somebody's; no peer that may  *)
(* give is left without one; all are free when the torrent is complete;    *)
(* what is queued for a peer is of a piece we have and the peer is not     *)
(* choked; every piece finished is told (peer.c, segmenter.c).             *)
THEOREM PeersSoundHolds == Spec => []PeersSound
<1>1. Init => IInv
  BY InitSound
<1>2. IInv /\ [Next]_vars => IInv'
  BY NextKeeps
<1>3. IInv => PeersSound
  BY IInvGives
<1> QED BY <1>1, <1>2, <1>3, PTL DEF Spec

(* At most DOWNLOADS peers are served at a time.                           *)
LEMMA IInvFew == IInv => FewServed
<1> SUFFICES ASSUME IInv PROVE FewServed
  OBVIOUS
<1>1. FewSound(Now) /\ Now.peer = peer
  BY NowIs DEF Sound, Whole
<1>2. {p \in Peers : Good(p) /\ ~peer[p].lchoked} = {p \in Peers : Upload(Now.peer[p])}
  BY <1>1 DEF Upload, Good
<1> QED BY <1>1, <1>2 DEF FewServed, FewSound

(* The uploads: at most DOWNLOADS peers are served, whoever comes, goes or  *)
(* asks between two choices, and a choice serves nobody who does not want   *)
(* our blocks while somebody who does, and is not snubbed, waits (peer.c:   *)
(* prioritize, peer_favorites).                                             *)
THEOREM UploadsSoundHolds == Spec => []FewServed /\ [][WantersServed]_vars
<1>1. Init => IInv
  BY InitSound
<1>2. IInv /\ [Next]_vars => IInv'
  BY NextKeeps
<1>3. IInv => FewServed
  BY IInvFew
<1>4. IInv => WantersServed
  BY WantersFirst DEF WantersServed
<1> QED BY <1>1, <1>2, <1>3, <1>4, PTL DEF Spec
=============================================================================
