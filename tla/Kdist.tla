-------------------------------- MODULE Kdist --------------------------------
(***************************************************************************)
(* Ids and distances: kaddist_t (btdht/kutils.cc), the bucket of an id     *)
(* (ktable::bit1_index_of()), and the id checkerd looks for to refresh a   *)
(* bucket (genrefreshid() in btdht/btkad.cc), byte by byte as in the code. *)
(***************************************************************************)
EXTENDS Integers, Bitwise

CONSTANTS
  Bytes, \* of an id: 20
  Bits   \* of a byte: 8

KdistAssumption == Bytes \in Nat \ {0} /\ Bits \in Nat \ {0}

Byte == 0 .. 2^Bits - 1
Id == [0 .. Bytes - 1 -> Byte]
IdBits == Bytes * Bits

VARIABLES
  tableid,  \* b_tableid
  nbucket0, \* b_nbucket0: the buckets farther than the closest contacts, size_of_table()
  nbucket1, \* b_nbucket1: the buckets in use
  bootid,   \* the last id made by genrefreshid()
  index     \* and the bucket it was made for, or -1

vars == <<tableid, nbucket0, nbucket1, bootid, index>>

-----------------------------------------------------------------------------
(* kaddist_t(kadid1, kadid2) and its order, that of memcmp(). *)
Dist(a, b) == [i \in 0 .. Bytes - 1 |-> a[i] ^^ b[i]]

Closer(d, e) == \E i \in 0 .. Bytes - 1 : d[i] < e[i] /\ \A j \in 0 .. i - 1 : d[j] = e[j]

(* mtable: the leading zeros of a byte. *)
mtable(m) == CHOOSE n \in 0 .. Bits : m < 2^(Bits - n) /\ (n < Bits => m >= 2^(Bits - n - 1))

(* The leading zeros of the bytes up to the first that is not zero. *)
bit1_start_at(d) ==
  IF \A i \in 0 .. Bytes - 1 : d[i] = 0 THEN IdBits
  ELSE LET f == CHOOSE i \in 0 .. Bytes - 1 : d[i] # 0 /\ \A j \in 0 .. i - 1 : d[j] = 0
       IN  f * Bits + mtable(d[f])

bit1_index_of(id) == bit1_start_at(Dist(id, tableid))

(* Mutant: the mask leaves the bit of the bucket to chance. *)
maskShort(u) == (2^u - 1) * 2^(Bits - u)

(* __mask: the first u + 1 bits of a byte. *)
mask(u) == (2^(u + 1) - 1) * 2^(Bits - u - 1)

(* genrefreshid(): r is what genkadid() made. *)
RefreshId(r, idx) ==
  LET j == idx \div Bits
      u == idx % Bits
      kept == (tableid[j] & mask(u)) + (r[j] & (2^Bits - 1 - mask(u)))
  IN  [i \in 0 .. Bytes - 1 |->
         IF i < j THEN tableid[i] ELSE IF i > j THEN r[i]
         ELSE IF nbucket0 > idx THEN kept ^^ (2^(Bits - 1 - u)) ELSE kept]

-----------------------------------------------------------------------------
Init ==
  /\ tableid = [i \in 0 .. Bytes - 1 |-> 0]
  /\ nbucket0 = 0 /\ nbucket1 = 1 /\ bootid = tableid /\ index = -1

setkadid(id) ==
  tableid' = id /\ index' = -1 /\ UNCHANGED <<nbucket0, nbucket1, bootid>>

(* ktable::insert_node(); the table's own id has no bucket.  An id stands for *)
(* as many contacts of its bucket as there are: b_nbucket0 leaves buckets     *)
(* behind while more than eight contacts lie beyond, and never the last one,  *)
(* which has room for eight (Ktable counts them).                             *)
insert_node(id) ==
  /\ bit1_index_of(id) < IdBits
  /\ LET n == bit1_index_of(id) + 1 IN nbucket1' = (IF n > nbucket1 THEN n ELSE nbucket1)
  /\ nbucket0' \in nbucket0 .. nbucket1' - 1
  /\ index' = -1 /\ UNCHANGED <<tableid, bootid>>

(* checkerd asks for buckets below b_nbucket0, the lookups of refreshd for any. *)
genrefreshid(r, idx) ==
  bootid' = RefreshId(r, idx) /\ index' = idx /\ UNCHANGED <<tableid, nbucket0, nbucket1>>

Next ==
  \/ \E id \in Id : setkadid(id) \/ insert_node(id)
  \/ \E r \in Id, idx \in 0 .. IdBits - 1 : genrefreshid(r, idx)

Spec == Init /\ [][Next]_vars

-----------------------------------------------------------------------------
TypeOK ==
  /\ tableid \in Id /\ bootid \in Id
  /\ nbucket1 \in 1 .. IdBits /\ nbucket0 \in 0 .. nbucket1 - 1

(* btkad.cc:246, assert(bit1_index_of(bootid) == index): the id made for a  *)
(* bucket below b_nbucket0 is one of that bucket, for any table id and any  *)
(* random id; for a later bucket, in use or not, the bit is not flipped and *)
(* the id is nearer than that bucket.                                       *)
RefreshInBucket ==
  index # -1 => IF index < nbucket0 THEN bit1_index_of(bootid) = index
                ELSE bit1_index_of(bootid) > index

(* Buckets are rings around the table's id: every id of a later bucket is   *)
(* closer to it than every id of an earlier one.                            *)
BucketsAreRings ==
  \A a \in Id : bit1_index_of(a) > bit1_index_of(bootid) =>
                  Closer(Dist(a, tableid), Dist(bootid, tableid))

(* A lookup keeps contacts by their distance: two ids at one distance from  *)
(* a target are the same, and the order has no ties and no cycles.          *)
DistanceNames ==
  \A a, b \in Id :
    LET d == Dist(a, bootid)
        e == Dist(b, bootid)
    IN  ((Closer(d, e) \/ Closer(e, d)) <=> a # b) /\ ~(Closer(d, e) /\ Closer(e, d))
=============================================================================
