------------------------------- MODULE Benc -------------------------------
(***************************************************************************)
(* The objects of libbt (types.c), their encoding (benc.c) and the string  *)
(* streams they are read from (bts.c).  A character is its code.  The hash *)
(* that names a torrent is taken of its "info" read and written again.     *)
(***************************************************************************)
EXTENDS Integers, SequencesExt

CONSTANTS
  Leaves,     \* objects the program makes: numbers, strings, empty lists and dictionaries
  Keys,       \* keys it uses
  Chunks,     \* what curl hands over at a time
  STRDIGITS, INTDIGITS,  \* 10 and 25: buffers for the digits of a length, of a number
  MAXSTRING,  \* strings are shorter
  MaxPool, MaxNodes, MaxChunks  \* bounds

VARIABLES
  pool,  \* objects nobody owns yet
  bts, chunks  \* what a stream holds, in how many chunks it came

vars == <<pool, bts, chunks>>

Object(t) == [t |-> t, num |-> 0, str |-> <<>>, key |-> <<>>, list |-> <<>>]
Num(n) == [Object("INTEGER") EXCEPT !.num = n]
Str(s) == [Object("STRING") EXCEPT !.str = s]

Init == pool = <<>> /\ bts = <<>> /\ chunks = 0

-----------------------------------------------------------------------------
(* Dictionaries: sorted arrays of keys and values.                          *)

Sign(n) == IF n < 0 THEN -1 ELSE IF n > 0 THEN 1 ELSE 0

(* btString_cmp: strncmp(), which also ends at a 0, and then the length. *)
Cmp(a, b) ==
  LET d == SelectInSeq(Zip(a, b), LAMBDA p : p[1] # p[2] \/ p[1] = 0)
  IN IF d = 0 \/ a[d] = b[d] THEN Sign(Len(a) - Len(b)) ELSE Sign(a[d] - b[d])

(* Mutant: the upper half begins at the middle. *)
RECURSIVE SearchPast(_, _, _, _)
SearchPast(key, k, lo, hi) ==
  IF lo >= hi THEN [found |-> FALSE, pos |-> hi]
  ELSE LET mid == (lo + hi) \div 2
           res == Cmp(k, key[mid + 1])
       IN IF res = 0 THEN [found |-> TRUE, pos |-> mid]
          ELSE IF res < 0 THEN SearchPast(key, k, lo, mid) ELSE SearchPast(key, k, mid + 2, hi)

RECURSIVE Search(_, _, _, _)
Search(key, k, lo, hi) ==
  IF lo >= hi THEN [found |-> FALSE, pos |-> hi]
  ELSE LET mid == (lo + hi) \div 2
           res == Cmp(k, key[mid + 1])
       IN IF res = 0 THEN [found |-> TRUE, pos |-> mid]
          ELSE IF res < 0 THEN Search(key, k, lo, mid) ELSE Search(key, k, mid + 1, hi)

Find(d, k) == LET s == Search(d.key, k, 0, Len(d.key)) IN IF s.found THEN <<d.list[s.pos + 1]>> ELSE <<>>

(* btDict_add *)
Added(d, k, v) ==
  LET s == Search(d.key, k, 0, Len(d.key))
  IN [found |-> s.found,
      d |-> [d EXCEPT !.key = InsertAt(@, s.pos + 1, k), !.list = InsertAt(@, s.pos + 1, v)]]

-----------------------------------------------------------------------------
(* Writing.                                                                 *)

RECURSIVE Decimal(_), Put(_)
Decimal(n) == IF n < 10 THEN <<48 + n>> ELSE Decimal(n \div 10) \o <<48 + (n % 10)>>

PutString(s) == Decimal(Len(s)) \o <<58>> \o s

Put(o) ==
  CASE o.t = "INTEGER" -> <<105>> \o Decimal(o.num) \o <<101>>
    [] o.t = "STRING" -> PutString(o.str)
    [] o.t = "LIST" -> <<108>> \o FlattenSeq([i \in DOMAIN o.list |-> Put(o.list[i])]) \o <<101>>
    [] o.t = "DICT" -> <<100>> \o FlattenSeq([i \in DOMAIN o.key |->
                         PutString(o.key[i]) \o Put(Find(o, o.key[i])[1])]) \o <<101>>

-----------------------------------------------------------------------------
(* Reading: what is read, and where the stream then is; end 0 for an error. *)

Peek(text, cur) == IF cur >= Len(text) THEN -1 ELSE text[cur + 1]

Wrong == [end |-> 0, o |-> Object("none")]

Value(digits) == FoldLeft(LAMBDA n, c : 10 * n + c - 48, 0, digits)

(* bts_scanbreak: digits, none will do, up to a character that ends them. *)
Scanbreak(text, cur, break, size) ==
  LET rest == SubSeq(text, cur + 1, Len(text))
      n == SelectInSeq(rest, LAMBDA c : c \notin 48..57)
  IN IF n = 0 \/ n > size THEN [end |-> 0, val |-> 0]
     ELSE IF rest[n] # break THEN [end |-> 0, val |-> 0]
     ELSE [end |-> cur + n, val |-> Value(SubSeq(rest, 1, n - 1))]

(* A string of MAXSTRING or more ends the program: nothing is read. *)
GetString(text, cur) ==
  LET len == Scanbreak(text, cur, 58, STRDIGITS)
  IN IF len.end = 0 \/ len.val >= MAXSTRING \/ len.end + len.val > Len(text) THEN Wrong
     ELSE [end |-> len.end + len.val, o |-> Str(SubSeq(text, len.end + 1, len.end + len.val))]

GetInt(text, cur) ==
  LET n == Scanbreak(text, cur + 1, 101, INTDIGITS)
  IN IF n.end = 0 THEN Wrong ELSE [end |-> n.end, o |-> Num(n.val)]

RECURSIVE GetObject(_, _), GetItems(_, _, _), GetPairs(_, _, _)

GetItems(text, cur, a) ==
  IF Peek(text, cur) = 101 THEN [end |-> cur + 1, o |-> a]
  ELSE LET g == GetObject(text, cur) IN
       IF g.end = 0 THEN Wrong ELSE GetItems(text, g.end, [a EXCEPT !.list = Append(@, g.o)])

GetPairs(text, cur, d) ==
  IF Peek(text, cur) = 101 THEN [end |-> cur + 1, o |-> d]
  ELSE LET k == GetString(text, cur)
           g == GetObject(text, k.end)
           added == Added(d, k.o.str, g.o)
       IN IF k.end = 0 THEN Wrong ELSE IF g.end = 0 THEN Wrong
          ELSE IF added.found THEN Wrong ELSE GetPairs(text, g.end, added.d)

GetObject(text, cur) ==
  LET c == Peek(text, cur)
  IN CASE c = 100 -> GetPairs(text, cur + 1, Object("DICT"))
       [] c = 108 -> GetItems(text, cur + 1, Object("LIST"))
       [] c = 105 -> GetInt(text, cur)
       [] c \in 48..57 -> GetString(text, cur)
       [] OTHER -> Wrong

-----------------------------------------------------------------------------
(* The program.                                                             *)

RECURSIVE Nodes(_)
Nodes(o) == 1 + FoldLeft(LAMBDA n, x : n + Nodes(x), 0, o.list)
Room == FoldLeft(LAMBDA n, x : n + Nodes(x), 0, pool) < MaxNodes /\ Len(pool) < MaxPool

Create == \E o \in Leaves : Room /\ pool' = Append(pool, o) /\ UNCHANGED <<bts, chunks>>

Destroy(i) == pool' = RemoveAt(pool, i) /\ UNCHANGED <<bts, chunks>>

Without(s, i, o, j) == RemoveAt([s EXCEPT ![i] = o], j)

(* The list owns what is added to it. *)
ListAdd(i, j) ==
  /\ i # j /\ pool[i].t = "LIST"
  /\ pool' = Without(pool, i, [pool[i] EXCEPT !.list = Append(@, pool[j])], j)
  /\ UNCHANGED <<bts, chunks>>

(* A key that is there already: len was counted up for an entry that was    *)
(* not made, and the one caller gives up both.                              *)
DictAdd(i, k, j) ==
  /\ i # j /\ pool[i].t = "DICT"
  /\ LET added == Added(pool[i], k, pool[j])
     IN pool' = IF added.found THEN SelectSeq(pool, LAMBDA o : o # pool[i] /\ o # pool[j])
                ELSE Without(pool, i, added.d, j)
  /\ UNCHANGED <<bts, chunks>>

(* writebts *)
Write(chunk) ==
  /\ Room /\ chunks < MaxChunks /\ chunks' = chunks + 1
  /\ bts' = bts \o chunk /\ UNCHANGED pool

(* bts_rewind and benc_get_object, as for a tracker's answer. *)
Load ==
  /\ bts # <<>> /\ Room
  /\ LET g == GetObject(bts, 0) IN pool' = IF g.end = 0 THEN pool ELSE Append(pool, g.o)
  /\ bts' = <<>> /\ chunks' = 0

(* The program makes objects, and streams are read. *)
Make ==
  \/ Create
  \/ \E i \in DOMAIN pool : Destroy(i) \/ \E j \in DOMAIN pool : ListAdd(i, j) \/ \E k \in Keys : DictAdd(i, k, j)
Stream == Load \/ \E chunk \in Chunks : Write(chunk)

Next == Make \/ Stream

Spec == Init /\ [][Next]_vars

-----------------------------------------------------------------------------

RECURSIVE PartsOf(_)
PartsOf(o) == {o} \cup UNION {PartsOf(o.list[i]) : i \in DOMAIN o.list}
AllObjects == UNION {PartsOf(pool[i]) : i \in DOMAIN pool}

(* Types, and the arrays of a dictionary go together. *)
TypeOK ==
  \A o \in AllObjects :
    /\ o.t \in {"INTEGER", "STRING", "LIST", "DICT"} /\ o.num \in Nat
    /\ o.t = "DICT" => Len(o.key) = Len(o.list)

(* Keys are kept in the order of their bytes, in whatever order they were   *)
(* added or read: the encoding is the only one.                             *)
KeysAscend ==
  \A d \in AllObjects : \A i \in DOMAIN d.key : \A j \in 1..i-1 :
    LET a == d.key[j]  b == d.key[i]  IN
      \/ IsStrictPrefix(a, b)
      \/ \E n \in DOMAIN a \cap DOMAIN b : a[n] < b[n] /\ \A m \in 1..n-1 : a[m] = b[m]

(* The binary search finds what was added, and nothing else. *)
FindsAdded ==
  \A d \in AllObjects : d.t = "DICT" =>
    \A k \in Keys \cup Range(d.key) :
      Find(d, k) = IF \E i \in DOMAIN d.key : d.key[i] = k
                   THEN <<d.list[CHOOSE i \in DOMAIN d.key : d.key[i] = k]>> ELSE <<>>

(* What is written is read back as it was, to its last character. *)
RoundTrip ==
  \A o \in AllObjects : LET text == Put(o) IN GetObject(text, 0) = [end |-> Len(text), o |-> o]

-----------------------------------------------------------------------------
(* The texts of the format, without the reader.                             *)

Natural(ds) == ds # <<>> /\ Range(ds) \subseteq 48..57 /\ (ds[1] = 48 => Len(ds) = 1)

RECURSIVE Canonical(_), Row(_), Pairs(_, _)
IsString(t) ==
  \E n \in 1..Len(t) : /\ t[n] = 58 /\ Natural(SubSeq(t, 1, n - 1))
                       /\ Value(SubSeq(t, 1, n - 1)) = Len(t) - n
Row(t) == t = <<>> \/ \E n \in 1..Len(t) : Canonical(SubSeq(t, 1, n)) /\ Row(SubSeq(t, n + 1, Len(t)))
Pairs(t, above) ==
  \/ t = <<>>
  \/ \E n \in 1..Len(t) : LET k == SubSeq(t, 1, n) IN
       /\ IsString(k)
       /\ LET s == SubSeq(k, SelectInSeq(k, LAMBDA c : c = 58) + 1, n) IN
            /\ above = <<>> \/ Cmp(above[1], s) < 0
            /\ \E m \in n+1..Len(t) : /\ Canonical(SubSeq(t, n + 1, m))
                                      /\ Pairs(SubSeq(t, m + 1, Len(t)), <<s>>)
Canonical(t) ==
  IF t = <<>> THEN FALSE
  ELSE LET inner == SubSeq(t, 2, Len(t) - 1) IN
       \/ IsString(t)
       \/ Len(t) > 1 /\ t[Len(t)] = 101 /\ ( \/ t[1] = 105 /\ Natural(inner)
                                             \/ t[1] = 108 /\ Row(inner)
                                             \/ t[1] = 100 /\ Pairs(inner, <<>>) )

(* The hash that names a torrent is that of its own text: what is read of a *)
(* text in the format is written again as it was.                           *)
SameHash ==
  Canonical(bts) => LET g == GetObject(bts, 0) IN g.end = Len(bts) /\ Put(g.o) = bts
=============================================================================
