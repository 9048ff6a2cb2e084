------------------------------- MODULE Btcodec -------------------------------
(***************************************************************************)
(* The bencode reader of the node (btcodec.cc).  Nothing is decoded ahead: *)
(* an entity is a place in the text, b_off and b_len, and every bget()     *)
(* reads the text from there again with the one cursor of the codec.       *)
(* Lengths have so few digits that int64_t does not overflow, and the keys *)
(* of a dictionary are strings.                                            *)
(***************************************************************************)
EXTENDS Integers, Sequences, SequencesExt

CONSTANTS
  Texts, \* the texts that are loaded, as sequences of characters
  Names, \* the keys that are asked for
  MaxIndex

BtcodecAssumption == Texts \subseteq Seq(STRING) /\ MaxIndex \in Nat

Digits == {"0", "1", "2", "3", "4", "5", "6", "7", "8", "9"}
Value(c) == CHOOSE n \in 0 .. 9 : ToString(n) = c

VARIABLES
  text,  \* b_text
  entity \* where the last bget() led

vars == <<text, entity>>

-----------------------------------------------------------------------------
(* What bobject() returns, and where it leaves the cursor.  INFINITE stands  *)
(* for "no object" and FINISH for the "e" that ends a list or a dictionary.  *)
Infinite(o) == [kind |-> "INFINITE", off |-> o, end |-> o]
Object(kind, off, end) == [kind |-> kind, off |-> off, end |-> end]

getbyte(s, o) == IF o < Len(s) THEN s[o + 1] ELSE "#"

(* The first place from o on that holds no digit, and the number before it. *)
AfterDigits(s, o) ==
  CHOOSE e \in o .. Len(s) : getbyte(s, e) \notin Digits /\ \A i \in o .. e - 1 : getbyte(s, i) \in Digits
Number(s, o) ==
  FoldLeft(LAMBDA n, c : 10 * n + Value(c), 0, SubSeq(s, o + 1, AfterDigits(s, o)))

IntAt(s, o) ==
  LET e == AfterDigits(s, o + 1)
  IN  IF e > o + 1 /\ getbyte(s, e) = "e" THEN Object("int", o, e + 1) ELSE Infinite(o)

(* Mutant: the string may run past the end. *)
FitsNot(s, e, n) == TRUE

(* b_off+valOfInt < b_len: a string is never the last thing in the text. *)
Fits(s, e, n) == e + 1 + n < Len(s)

StrAt(s, o) ==
  LET e == AfterDigits(s, o)
      n == Number(s, o)
  IN  IF e > o /\ getbyte(s, e) = ":" /\ Fits(s, e, n)
      THEN Object("str", o, e + 1 + n) ELSE Infinite(o)

RECURSIVE bobject(_, _), Compound(_, _, _, _)
bobject(s, o) ==
  CASE getbyte(s, o) = "d" -> Compound(s, o, o + 1, "dict")
    [] getbyte(s, o) = "l" -> Compound(s, o, o + 1, "list")
    [] getbyte(s, o) = "i" -> IntAt(s, o)
    [] getbyte(s, o) = "e" -> Object("FINISH", o, o + 1)
    [] OTHER -> StrAt(s, o)

(* The objects from i on, until the one that ends the compound at off. *)
Compound(s, off, i, kind) ==
  LET x == bobject(s, i)
  IN  CASE x.kind = "INFINITE" -> Infinite(off)
        [] x.kind = "FINISH" -> Object(kind, off, x.end)
        [] OTHER -> Compound(s, off, x.end, kind)

Ended(x) == x.kind \in {"INFINITE", "FINISH"}

RECURSIVE ListFrom(_, _, _)
(* btlist::bget() *)
ListFrom(s, i, index) ==
  LET x == bobject(s, i)
  IN  IF Ended(x) THEN Infinite(i) ELSE IF index = 0 THEN x ELSE ListFrom(s, x.end, index - 1)

(* c_str() of a string; the other kinds have none. *)
c_str(s, x) ==
  IF x.kind = "str" THEN SubSeq(s, AfterDigits(s, x.off) + 2, x.end) ELSE <<"none">>

(* btdict::bget() *)
RECURSIVE DictFrom(_, _, _)
DictFrom(s, i, name) ==
  LET key == bobject(s, i)
      val == bobject(s, key.end)
  IN  IF Ended(key) \/ Ended(val) THEN Infinite(i)
      ELSE IF c_str(s, key) = name THEN val ELSE DictFrom(s, val.end, name)

Load == \E s \in Texts : text = s /\ entity = bobject(s, 0)

bgetIndex(index) ==
  /\ entity' = (IF entity.kind = "list" THEN ListFrom(text, entity.off + 1, index)
                ELSE Infinite(entity.off))
  /\ UNCHANGED text

bgetName(name) ==
  /\ entity' = (IF entity.kind = "dict" THEN DictFrom(text, entity.off + 1, name)
                ELSE Infinite(entity.off))
  /\ UNCHANGED text

(* btcodec::bget() *)
bgetTop == entity' = bobject(text, 0) /\ UNCHANGED text

Next == (\E i \in 0 .. MaxIndex : bgetIndex(i)) \/ (\E n \in Names : bgetName(n)) \/ bgetTop

Spec == Load /\ [][Next]_vars
=============================================================================
