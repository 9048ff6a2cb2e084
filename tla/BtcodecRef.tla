----------------------------- MODULE BtcodecRef -----------------------------
(***************************************************************************)
(* Btcodec beside a reference: values and their encodings, and the set of  *)
(* all encodings of a length.                                              *)
(***************************************************************************)
EXTENDS Btcodec, FiniteSets

CONSTANT MaxLen \* of the texts that are gone through one and all

VARIABLES top, value \* the value of the text, and of the entity

refvars == <<vars, top, value>>

(* Numbers, strings of characters, lists, and dictionaries as lists of pairs, *)
(* each with its kind.                                                        *)
IntV(n) == <<"int", n>>
StrV(cs) == <<"str", cs>>
ListV(vs) == <<"list", vs>>
DictV(ps) == <<"dict", ps>>
NoneV == <<"INFINITE">>

Chars(n) == IF n < 10 THEN <<ToString(n)>> ELSE <<ToString(n \div 10), ToString(n % 10)>>
EncodeStr(cs) == Chars(Len(cs)) \o <<":">> \o cs
RECURSIVE Encode(_)
Encode(x) ==
  CASE x[1] = "int" -> <<"i">> \o Chars(x[2]) \o <<"e">>
    [] x[1] = "str" -> EncodeStr(x[2])
    [] x[1] = "list" -> <<"l">> \o FlattenSeq([i \in DOMAIN x[2] |-> Encode(x[2][i])]) \o <<"e">>
    [] x[1] = "dict" -> <<"d">> \o FlattenSeq([i \in DOMAIN x[2] |->
                          EncodeStr(x[2][i][1]) \o Encode(x[2][i][2])]) \o <<"e">>

(* Small values, with strings that look like structure. *)
Leaves == {IntV(7), IntV(42), StrV(<<>>), StrV(<<"e">>), StrV(<<"i", "d">>), StrV(<<"1", ":", "l">>)}
Lists == {ListV(<<x, y>>) : x, y \in Leaves} \cup {ListV(<<>>)}
Dicts(vals) == {DictV(<<>>)} \cup {DictV(<<<<n, v>>>>) : n \in Names, v \in vals}
               \cup {DictV(<<<<<<"r">>, v>>, <<<<"i", "d">>, w>>>>) : v \in vals, w \in Leaves}
Values == Lists \cup Dicts(Leaves \cup Lists \cup Dicts(Leaves))

(* All encodings of n characters over a small alphabet. *)
Alphabet == {"l", "d", "i", "e", "1", ":"}
RECURSIVE Encodings(_), Rows(_)
Encodings(n) ==
  (IF n \in 3 .. 11 THEN {<<"i">> \o [j \in 1 .. n - 2 |-> "1"] \o <<"e">>} ELSE {})
  \cup (IF n = 3 THEN {<<"1", ":", x>> : x \in Alphabet} ELSE {})
  \cup (IF n >= 2 THEN {<<x>> \o r \o <<"e">> : x \in {"l", "d"}, r \in Rows(n - 2)} ELSE {})
Rows(n) ==
  IF n = 0 THEN {<<>>}
  ELSE UNION {{x \o r : x \in Encodings(j), r \in Rows(n - j)} : j \in 1 .. n}

EncodingsOf == [n \in 0 .. MaxLen |-> Encodings(n)]

-----------------------------------------------------------------------------
(* What a path of bget()s should lead to, computed on the value. *)
RefIndex(x, i) == IF x[1] = "list" /\ i < Len(x[2]) THEN x[2][i + 1] ELSE NoneV
RefName(x, n) ==
  IF x[1] = "dict" /\ \E j \in DOMAIN x[2] : x[2][j][1] = n
  THEN x[2][CHOOSE j \in DOMAIN x[2] : x[2][j][1] = n][2] ELSE NoneV

(* The text is the encoding of a value; any text; none. *)
ValuesInit ==
  /\ top \in Values /\ value = top
  /\ text = Encode(top) /\ entity = bobject(text, 0)

TextsInit ==
  /\ top = NoneV /\ value = NoneV
  /\ text \in BoundedSeq(Alphabet, MaxLen) /\ entity = bobject(text, 0)

RestInit == top = NoneV /\ value = NoneV /\ text = <<>> /\ entity = Infinite(0)

ValuesNext ==
  /\ \/ \E i \in 0 .. MaxIndex : bgetIndex(i) /\ value' = RefIndex(value, i)
     \/ \E n \in Names : bgetName(n) /\ value' = RefName(value, n)
     \/ bgetTop /\ value' = top
  /\ UNCHANGED top

TextsNext == Next /\ UNCHANGED <<top, value>>

(* Every path of bget()s leads to the value it names: the entity spans its  *)
(* encoding, also behind strings that look like the end of a list.          *)
LeadsToValue ==
  /\ entity.kind = value[1]
  /\ value # NoneV => SubSeq(text, entity.off + 1, entity.end) = Encode(value)

(* The reader takes a text that starts with an encoding, and no other; only *)
(* a string on its own needs one more character behind it.  No entity       *)
(* reaches beyond the text.                                                 *)
TakesEncodings ==
  LET x == bobject(text, 0)
      prefixes == {n \in 1 .. Len(text) : SubSeq(text, 1, n) \in EncodingsOf[n]}
  IN  /\ ~Ended(x) => x.end \in prefixes
      /\ Ended(x) => prefixes \subseteq {n \in {Len(text)} \ {0} : text[1] = "1"}
      /\ entity.end <= Len(text)
=============================================================================
