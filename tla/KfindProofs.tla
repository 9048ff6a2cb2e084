----------------------------- MODULE KfindProofs -----------------------------
(***************************************************************************)
(* Proofs about Kfind, for any contacts, any responses, any K and any      *)
(* number of requests at a time, and about Kgetpeers, for any values in    *)
(* the responses besides.                                                  *)
(***************************************************************************)
EXTENDS Kgetpeers, FiniteSetTheorems, WellFoundedInduction, TLAPS

USE KfindAssumption

-----------------------------------------------------------------------------
(* Sequences and extremes of finite sets. *)

LEMMA AppendProperties ==
  ASSUME NEW S, NEW s \in Seq(S), NEW x \in S
  PROVE  /\ Append(s, x) \in Seq(S)
         /\ DOMAIN s = 1 .. Len(s)
         /\ Len(s) \in Nat
         /\ DOMAIN Append(s, x) = 1 .. Len(s) + 1
         /\ \A i \in 1 .. Len(s) : Append(s, x)[i] = s[i]
         /\ Append(s, x)[Len(s) + 1] = x
  OBVIOUS

LEMMA PopProperties ==
  ASSUME NEW S, NEW s \in Seq(S), s # <<>>
  PROVE  Head(s) \in S /\ Tail(s) \in Seq(S)
  OBVIOUS

(* A finite set of numbers that is not empty has a greatest and a least     *)
(* member: a smallest counterexample would have one after all.             *)
LEMMA MaxExists ==
  ASSUME NEW S \in SUBSET Nat, IsFiniteSet(S), S # {}
  PROVE  \E x \in S : \A y \in S : x >= y
<1> DEFINE Bad == {T \in FiniteSubsetsOf(S) : T # {} /\ ~\E x \in T : \A y \in T : x >= y}
<1> SUFFICES Bad = {}
  BY DEF FiniteSubsetsOf
<1> SUFFICES ASSUME Bad # {} PROVE FALSE
  OBVIOUS
<1>1. Bad \subseteq FiniteSubsetsOf(S)
  OBVIOUS
<1> HIDE DEF Bad
<1>2. PICK T \in Bad : \A U \in Bad : <<U, T>> \notin StrictSubsetOrdering(S)
  BY <1>1, FS_StrictSubsetOrderingWellFounded, WFMin
<1>3. /\ T \subseteq S /\ IsFiniteSet(T) /\ T # {}
      /\ ~\E x \in T : \A y \in T : x >= y
  BY DEF Bad, FiniteSubsetsOf
<1>4. PICK x \in T : TRUE
  BY <1>3
<1>5. T \ {x} \notin Bad
  BY <1>2, <1>3, <1>4 DEF StrictSubsetOrdering
<1>6. IsFiniteSet(T \ {x}) /\ T \ {x} \subseteq S
  BY <1>3, FS_RemoveElement
<1>7. CASE T \ {x} = {}
  BY <1>3, <1>4, <1>7
<1>8. CASE T \ {x} # {}
  <2>1. PICK m \in T \ {x} : \A y \in T \ {x} : m >= y
    BY <1>5, <1>6, <1>8 DEF Bad, FiniteSubsetsOf
  <2>2. m \in Nat /\ x \in Nat
    BY <1>3, <2>1
  <2>3. CASE m >= x
    BY <1>3, <2>1, <2>3
  <2>4. CASE x > m
    <3>1. \A y \in T : x >= y
      BY <1>3, <2>1, <2>2, <2>4
    <3> QED BY <1>3, <3>1
  <2> QED BY <2>2, <2>3, <2>4
<1> QED BY <1>7, <1>8

LEMMA MaxProperties ==
  ASSUME NEW S \in SUBSET Nat, IsFiniteSet(S), S # {}
  PROVE  Max(S) \in S /\ \A y \in S : y <= Max(S)
<1>1. Max(S) \in S /\ \A y \in S : Max(S) >= y
  BY MaxExists DEF Max
<1> QED BY <1>1

-----------------------------------------------------------------------------
(* Types.  b_ended is a member of b_mapined, so its type needs b_mapined to *)
(* be finite.                                                              *)
TypeInv == TypeOK /\ IsFiniteSet(mapined)

LEMMA TypeInit == Init => TypeInv
<1> SUFFICES ASSUME Init PROVE TypeInv
  OBVIOUS
<1>1. todo \in Seq(Contact)
  BY DEF Init
<1>2. ship \in Seq(Packets) /\ asked \in Seq(Contact) /\ replies \in [Hosts -> Nat]
  BY DEF Init
<1>3. /\ qfind \subseteq Contact /\ outqueue \subseteq Contact
      /\ seenid \subseteq Ids /\ seenhost \subseteq Hosts /\ mapined \subseteq Ids
      /\ learned \subseteq Contact /\ failed \subseteq Contact
      /\ answered \subseteq Ids /\ heard \subseteq answered
  BY DEF Init
<1>4. pc = "new" /\ ended \in Nat /\ concurrency \in Int
  BY DEF Init
<1>5. trim \in BOOLEAN /\ finding \in BOOLEAN /\ expired \in BOOLEAN
  BY DEF Init
<1>6. IsFiniteSet(mapined)
  BY FS_EmptySet DEF Init
<1> QED BY <1>1, <1>2, <1>3, <1>4, <1>5, <1>6 DEF TypeInv, TypeOK

LEMMA QueueType ==
  ASSUME TypeOK, NEW c \in Contact, Queue(c)
  PROVE  qfind' \subseteq Contact /\ seenid' \subseteq Ids /\ seenhost' \subseteq Hosts
BY DEF Queue, TypeOK, Contact

LEMMA KeepType ==
  ASSUME TypeInv, NEW id \in Ids
  PROVE  Keep(id) \subseteq mapined \cup {id} /\ IsFiniteSet(Keep(id))
<1>1. IsFiniteSet(mapined \cup {id})
  BY FS_AddElement DEF TypeInv
<1> QED BY <1>1, FS_RemoveElement DEF Keep

LEMMA TypeStep == TypeInv /\ [Next]_vars => TypeInv'
<1> SUFFICES ASSUME TypeInv, [Next]_vars PROVE TypeInv'
  OBVIOUS
<1> TypeOK
  BY DEF TypeInv
<1>1. CASE NewItem
  <2>1. Head(todo) \in Contact /\ Tail(todo) \in Seq(Contact)
    BY <1>1, PopProperties DEF NewItem, TypeOK
  <2>2. qfind' \subseteq Contact /\ seenid' \subseteq Ids /\ seenhost' \subseteq Hosts
    BY <1>1, <2>1, QueueType DEF NewItem
  <2> QED BY <1>1, <2>1, <2>2 DEF NewItem, TypeInv, TypeOK, best
<1>2. CASE NewDone \/ SendDone
  BY <1>2 DEF NewDone, SendDone, TypeInv, TypeOK, known, best, history
<1>3. ASSUME NEW c \in qfind, Send(c) PROVE TypeInv'
  <2>1. c \in Contact
    BY DEF TypeOK
  <2>2. Append(asked, c) \in Seq(Contact)
    BY <2>1, AppendProperties DEF TypeOK
  <2>3. /\ qfind' \subseteq Contact /\ outqueue' \subseteq Contact
        /\ concurrency' \in Int
    BY <1>3, <2>1 DEF Send, TypeOK
  <2>4. asked' \in Seq(Contact)
    BY <1>3, <2>2 DEF Send
  <2>5. finding' \in BOOLEAN /\ expired' \in BOOLEAN
    BY <1>3 DEF Send
  <2> QED BY <1>3, <2>3, <2>4, <2>5 DEF Send, TypeInv, TypeOK, best, history
<1>4. CASE Receive
  <2> DEFINE p == Head(ship)
  <2>1. p \in Packets /\ Tail(ship) \in Seq(Packets)
    BY <1>4, PopProperties DEF Receive, TypeOK
  <2>2. p.id \in Ids /\ p.nodes \in Seq(Contact)
    BY <1>4, <2>1 DEF Receive, HasId
  <2>3. mapined' \subseteq Ids /\ IsFiniteSet(mapined')
    BY <1>4, <2>2, KeepType DEF Receive, TypeOK
  <2>4. ended' \in Nat /\ trim' \in BOOLEAN
    <3>1. CASE Enough(mapined')
      <4>1. mapined' # {}
        BY <3>1, FS_EmptySet DEF Enough
      <4>2. Max(mapined') \in Nat
        BY <2>3, <4>1, MaxProperties
      <4> QED BY <1>4, <3>1, <4>2 DEF Receive
    <3>2. CASE ~Enough(mapined')
      BY <1>4, <3>2 DEF Receive, TypeOK
    <3> QED BY <3>1, <3>2
  <2>5. /\ outqueue' \subseteq Contact /\ todo' \in Seq(Contact)
        /\ answered' \subseteq Ids /\ heard' \subseteq answered'
    BY <1>4, <2>2 DEF Receive, StillOut, TypeOK
  <2> QED BY <1>4, <2>1, <2>3, <2>4, <2>5 DEF Receive, TypeInv, TypeOK, known
<1>5. CASE ReceiveBad
  <2>1. Tail(ship) \in Seq(Packets)
    BY <1>5, PopProperties DEF ReceiveBad, TypeOK
  <2> QED BY <1>5, <2>1 DEF ReceiveBad, TypeInv, TypeOK, known, best, history
<1>6. CASE Expand
  <2>1. Head(todo) \in Contact /\ Tail(todo) \in Seq(Contact)
    BY <1>6, PopProperties DEF Expand, TypeOK
  <2>2. qfind' \subseteq Contact /\ seenid' \subseteq Ids /\ seenhost' \subseteq Hosts
    BY <1>6, <2>1, QueueType DEF Expand, known, TypeOK
  <2> QED BY <1>6, <2>1, <2>2 DEF Expand, TypeInv, TypeOK, best
<1>7. CASE ExpandDone
  BY <1>7 DEF ExpandDone, TypeInv, TypeOK, known, best, history
<1>8. CASE ReceiveDone
  <2>1. /\ concurrency' \in Int /\ outqueue' \subseteq Contact /\ failed' \subseteq Contact
    BY <1>8 DEF ReceiveDone, TypeOK
  <2>2. finding' \in BOOLEAN /\ pc' \in {"send", "asleep", "done"}
    <3>1. CASE concurrency' < Concurrent /\ finding
      BY <1>8, <3>1 DEF ReceiveDone
    <3>2. CASE ~(concurrency' < Concurrent /\ finding)
      BY <1>8, <3>2 DEF ReceiveDone, TypeOK
    <3> QED BY <3>1, <3>2
  <2> QED BY <1>8, <2>1, <2>2 DEF ReceiveDone, TypeInv, TypeOK, known, best
<1>9. CASE Wake
  BY <1>9 DEF Wake, TypeInv, TypeOK, known, best
<1>10. ASSUME NEW p \in Packets, Deliver(p) PROVE TypeInv'
  <2>1. Append(ship, p) \in Seq(Packets)
    BY AppendProperties DEF TypeOK
  <2> QED BY SMTT(30), <1>10, <2>1 DEF Deliver, TypeInv, TypeOK, known, best, history
<1>11. CASE UNCHANGED vars
  BY <1>11 DEF vars, TypeInv, TypeOK, known, best, history
<1> QED
  BY <1>1, <1>2, <1>3, <1>4, <1>5, <1>6, <1>7, <1>8, <1>9, <1>10, <1>11 DEF Next, Step

(* Type correctness of the lookup, whatever the hosts send.               *)
THEOREM TypeCorrect == Spec => []TypeOK
<1>1. Spec => []TypeInv
  BY TypeInit, TypeStep, PTL DEF Spec
<1>2. TypeInv => TypeOK
  BY DEF TypeInv
<1> QED BY <1>1, <1>2, PTL

-----------------------------------------------------------------------------
(* Who is asked.  What is queued was seen, under its id and its host, and   *)
(* nothing that was seen is queued again.                                  *)
Differ(c, d) == c.id # d.id /\ c.host # d.host

WasSeen == \A c \in qfind \cup Asked : c.id \in seenid /\ c.host \in seenhost
QueuedDiffer == \A c, d \in qfind : c # d => Differ(c, d)
QueuedFresh == \A c \in qfind, d \in Asked : Differ(c, d)

SeenInv == WasSeen /\ QueuedDiffer /\ QueuedFresh /\ AskedOnce

LEMMA SeenInit == Init => SeenInv
<1> SUFFICES ASSUME Init PROVE SeenInv
  OBVIOUS
<1>1. DOMAIN asked = {} /\ Asked = {} /\ qfind = {}
  BY DEF Init, Asked
<1> QED BY <1>1 DEF SeenInv, WasSeen, QueuedDiffer, QueuedFresh, AskedOnce

LEMMA SeenQueue ==
  ASSUME TypeOK, SeenInv, NEW c \in Contact, Queue(c), asked' = asked
  PROVE  SeenInv'
<1>1. Asked' = Asked
  BY DEF Asked
<1>2. CASE c.id \notin seenid /\ c.host \notin seenhost
  <2>1. qfind' = qfind \cup {c} /\ seenid' = seenid \cup {c.id} /\ seenhost' = seenhost \cup {c.host}
    BY <1>2 DEF Queue
  <2>2. \A d \in qfind \cup Asked : Differ(c, d) /\ Differ(d, c)
    BY <1>2 DEF SeenInv, WasSeen, Differ
  <2> QED BY <1>1, <2>1, <2>2 DEF SeenInv, WasSeen, QueuedDiffer, QueuedFresh, AskedOnce
<1>3. CASE ~(c.id \notin seenid /\ c.host \notin seenhost)
  BY <1>1, <1>3 DEF Queue, SeenInv, WasSeen, QueuedDiffer, QueuedFresh, AskedOnce
<1> QED BY <1>2, <1>3

LEMMA SeenSend ==
  ASSUME TypeOK, SeenInv, NEW c \in qfind, Send(c)
  PROVE  SeenInv' /\ Asked' = Asked \cup {c}
<1> DEFINE n == Len(asked)
<1>1. /\ n \in Nat /\ DOMAIN asked = 1 .. n
      /\ DOMAIN asked' = 1 .. n + 1
      /\ \A i \in 1 .. n : asked'[i] = asked[i]
      /\ asked'[n + 1] = c
  BY AppendProperties DEF Send, TypeOK
<1> HIDE DEF n
<1>2. Asked' = Asked \cup {c}
  <2>1. \A i \in DOMAIN asked' : asked'[i] \in Asked \cup {c}
    <3> TAKE i \in DOMAIN asked'
    <3>1. i \in 1 .. n \/ i = n + 1
      BY <1>1
    <3> QED BY <1>1, <3>1 DEF Asked
  <2>2. \A d \in Asked : \E i \in DOMAIN asked' : asked'[i] = d
    <3> TAKE d \in Asked
    <3>1. PICK i \in 1 .. n : asked[i] = d
      BY <1>1 DEF Asked
    <3>2. i \in DOMAIN asked'
      BY <1>1
    <3> QED BY <1>1, <3>1, <3>2
  <2>3. n + 1 \in DOMAIN asked'
    BY <1>1
  <2> QED BY <1>1, <2>1, <2>2, <2>3 DEF Asked
<1>3. qfind' = qfind \ {c} /\ seenid' = seenid /\ seenhost' = seenhost
  BY DEF Send
<1>4. (WasSeen /\ QueuedDiffer)'
  BY <1>2, <1>3 DEF SeenInv, WasSeen, QueuedDiffer
<1>5. QueuedFresh'
  BY <1>2, <1>3 DEF SeenInv, QueuedFresh, QueuedDiffer
<1>6. AskedOnce'
  <2> SUFFICES ASSUME NEW i \in DOMAIN asked', NEW j \in DOMAIN asked', i # j
               PROVE  asked'[i].id # asked'[j].id /\ asked'[i].host # asked'[j].host
    BY DEF AskedOnce
  <2>1. \A k \in 1 .. n : Differ(c, asked[k])
    BY <1>1 DEF SeenInv, QueuedFresh, Asked
  <2>2. (i \in 1 .. n \/ i = n + 1) /\ (j \in 1 .. n \/ j = n + 1)
    BY <1>1
  <2>3. CASE i \in 1 .. n /\ j \in 1 .. n
    BY <1>1, <2>3 DEF SeenInv, AskedOnce
  <2>4. CASE i = n + 1 /\ j \in 1 .. n
    BY <1>1, <2>1, <2>4 DEF Differ
  <2>5. CASE i \in 1 .. n /\ j = n + 1
    BY <1>1, <2>1, <2>5 DEF Differ
  <2> QED BY <2>2, <2>3, <2>4, <2>5
<1> QED BY <1>2, <1>4, <1>5, <1>6 DEF SeenInv

LEMMA SeenStep == TypeInv /\ SeenInv /\ [Next]_vars => SeenInv'
<1> SUFFICES ASSUME TypeInv, SeenInv, [Next]_vars PROVE SeenInv'
  OBVIOUS
<1> TypeOK
  BY DEF TypeInv
<1>1. CASE UNCHANGED <<known, asked>>
  BY <1>1 DEF known, SeenInv, WasSeen, QueuedDiffer, QueuedFresh, AskedOnce, Asked
<1>2. CASE NewItem \/ Expand
  <2>1. Head(todo) \in Contact
    BY <1>2, PopProperties DEF NewItem, Expand, TypeOK
  <2> QED BY <1>1, <1>2, <2>1, SeenQueue DEF NewItem, Expand
<1>3. ASSUME NEW c \in qfind, Send(c) PROVE SeenInv'
  BY <1>3, SeenSend
<1> QED
  BY <1>1, <1>2, <1>3
  DEF Next, Step, NewDone, SendDone, Receive, ReceiveBad, ExpandDone, ReceiveDone, Wake, Deliver, vars

(* No host is asked twice and no id is asked for twice, in whatever order   *)
(* and however often contacts come up in the responses.                    *)
THEOREM NeverAskedTwice == Spec => []AskedOnce
<1>1. Spec => [](TypeInv /\ SeenInv)
  BY TypeInit, TypeStep, SeenInit, SeenStep, PTL DEF Spec
<1>2. SeenInv => AskedOnce
  BY DEF SeenInv
<1> QED BY <1>1, <1>2, PTL

-----------------------------------------------------------------------------
(* The window.  b_concurrency is the number of requests out, except while   *)
(* the responses that came in are read: they are read only once the time    *)
(* is up, so the count is set right again before it is used.               *)
OutAsked == IsFiniteSet(outqueue) /\ outqueue \subseteq Asked

Counting == (pc = "receive" /\ expired) \/ pc = "expand"

Counted == ~Counting => concurrency = Cardinality(outqueue) /\ concurrency <= Concurrent

ReadAtTimeout ==
  /\ pc = "expand" => expired
  /\ ~Counting /\ pc # "asleep" => ship = <<>>

SleepsForAnswers == pc = "asleep" => concurrency >= 1

DoneEmpty == pc = "done" => outqueue = {}

WindowInv == OutAsked /\ Counted /\ ReadAtTimeout /\ SleepsForAnswers /\ DoneEmpty

LEMMA WindowInit == Init => WindowInv
<1> SUFFICES ASSUME Init PROVE WindowInv
  OBVIOUS
<1>1. IsFiniteSet(outqueue) /\ Cardinality(outqueue) = 0
  BY FS_EmptySet DEF Init
<1> QED
  BY <1>1
  DEF Init, WindowInv, OutAsked, Counted, ReadAtTimeout, SleepsForAnswers, DoneEmpty, Counting

(* A request that goes out was not out before. *)
LEMMA WindowSend ==
  ASSUME TypeOK, SeenInv, WindowInv, NEW c \in qfind, Send(c)
  PROVE  WindowInv'
<1>1. Asked' = Asked \cup {c}
  BY SeenSend
<1>2. c \notin outqueue
  BY DEF SeenInv, QueuedFresh, Differ, WindowInv, OutAsked
<1>3. /\ IsFiniteSet(outqueue')
      /\ Cardinality(outqueue') = Cardinality(outqueue) + 1
  BY <1>2, FS_AddElement DEF WindowInv, OutAsked, Send
<1>4. concurrency = Cardinality(outqueue)
  BY DEF Send, WindowInv, Counted, Counting
<1>5. OutAsked'
  BY <1>1, <1>3 DEF Send, WindowInv, OutAsked
<1>6. Counted'
  BY <1>3, <1>4 DEF Send, Counted, TypeOK
<1>7. (ReadAtTimeout /\ SleepsForAnswers /\ DoneEmpty)'
  BY DEF Send, WindowInv, ReadAtTimeout, SleepsForAnswers, DoneEmpty, Counting
<1> QED BY <1>5, <1>6, <1>7 DEF WindowInv

LEMMA WindowReceiveDone ==
  ASSUME TypeOK, WindowInv, ReceiveDone
  PROVE  WindowInv'
<1>1. IsFiniteSet(outqueue') /\ outqueue' \subseteq Asked
  BY FS_EmptySet DEF ReceiveDone, WindowInv, OutAsked
<1>2. concurrency' = Cardinality(outqueue') /\ concurrency' <= Concurrent
  <2>1. CASE expired
    BY <2>1, FS_EmptySet DEF ReceiveDone
  <2>2. CASE ~expired
    BY <2>2 DEF ReceiveDone, WindowInv, Counted, Counting
  <2> QED BY <2>1, <2>2
<1>3. Cardinality(outqueue') \in Nat
  BY <1>1, FS_CardinalityType
<1>4. /\ pc' \in {"send", "asleep", "done"}
      /\ pc' = "asleep" => concurrency' > 0
      /\ pc' = "done" => ~(concurrency' > 0) \/ concurrency' < Concurrent
  <2>1. CASE concurrency' < Concurrent /\ finding
    BY <2>1 DEF ReceiveDone
  <2>2. CASE ~(concurrency' < Concurrent /\ finding)
    BY <2>2 DEF ReceiveDone
  <2> QED BY <2>1, <2>2
<1>5. pc' = "done" => concurrency' = 0
  <2>1. CASE concurrency' < Concurrent /\ finding
    BY <2>1 DEF ReceiveDone
  <2>2. CASE ~(concurrency' < Concurrent /\ finding)
    BY <1>2, <1>3, <2>2 DEF ReceiveDone
  <2> QED BY <2>1, <2>2
<1>6. OutAsked'
  BY <1>1 DEF ReceiveDone, OutAsked, Asked
<1>7. (Counted /\ SleepsForAnswers)'
  BY <1>2, <1>3, <1>4 DEF Counted, SleepsForAnswers
<1>8. ReadAtTimeout'
  BY <1>4 DEF ReceiveDone, ReadAtTimeout
<1>9. DoneEmpty'
  BY <1>1, <1>2, <1>5, FS_EmptySet DEF DoneEmpty
<1> QED BY <1>6, <1>7, <1>8, <1>9 DEF WindowInv

LEMMA WindowStep == TypeInv /\ SeenInv /\ WindowInv /\ [Next]_vars => WindowInv'
<1> SUFFICES ASSUME TypeInv, SeenInv, WindowInv, [Next]_vars PROVE WindowInv'
  OBVIOUS
<1> TypeOK
  BY DEF TypeInv
<1> USE DEF WindowInv, OutAsked, Counted, ReadAtTimeout, SleepsForAnswers, DoneEmpty, Counting
<1>1. CASE NewItem \/ NewDone
  BY <1>1 DEF NewItem, NewDone, Asked
<1>2. ASSUME NEW c \in qfind, Send(c) PROVE WindowInv'
  BY <1>2, WindowSend
<1>3. CASE SendDone
  <2>1. concurrency = Cardinality(outqueue) /\ concurrency <= Concurrent
    BY <1>3 DEF SendDone
  <2>2. concurrency = 0 => outqueue = {}
    BY <2>1, FS_EmptySet
  <2> QED BY <1>3, <2>1, <2>2 DEF SendDone, Asked
<1>4. CASE Receive
  <2>1. IsFiniteSet(outqueue') /\ outqueue' \subseteq outqueue
    BY <1>4, FS_Subset DEF Receive, StillOut
  <2> QED BY <1>4, <2>1 DEF Receive, Asked
<1>5. CASE ReceiveBad
  BY <1>5 DEF ReceiveBad, Asked
<1>6. CASE Expand
  BY <1>6 DEF Expand, Asked
<1>7. CASE ExpandDone
  BY <1>7 DEF ExpandDone, Asked
<1>8. CASE ReceiveDone
  BY <1>8, WindowReceiveDone
<1>9. CASE Wake
  BY <1>9 DEF Wake, Asked
<1>10. ASSUME NEW p \in Packets, Deliver(p) PROVE WindowInv'
  BY <1>10 DEF Deliver, Asked
<1>11. CASE UNCHANGED vars
  BY <1>11 DEF vars, Asked
<1> QED
  BY <1>1, <1>2, <1>3, <1>4, <1>5, <1>6, <1>7, <1>8, <1>9, <1>10, <1>11 DEF Next, Step

(* A sleeping lookup has between one and CONCURRENT_REQUEST requests out    *)
(* and counts them right, whatever late, duplicate or malformed responses   *)
(* it has read.                                                            *)
THEOREM WindowCounted == Spec => []WindowOK
<1>1. Spec => [](TypeInv /\ SeenInv /\ WindowInv)
  BY TypeInit, TypeStep, SeenInit, SeenStep, WindowInit, WindowStep, PTL DEF Spec
<1>2. TypeInv /\ WindowInv => WindowOK
  BY DEF TypeInv, TypeOK, WindowInv, Counted, Counting, SleepsForAnswers, WindowOK
<1> QED BY <1>1, <1>2, PTL

-----------------------------------------------------------------------------
(* What becomes of a request.                                             *)
Accounted == \A c \in Asked : c \in outqueue \/ c.id \in answered \/ c \in failed

(* While the time is up, nobody who was heard of is still waited for. *)
HeardAreIn == expired => \A c \in outqueue : c.id \notin heard

AnswerInv == Accounted /\ HeardAreIn

LEMMA AnswerInit == Init => AnswerInv
<1> SUFFICES ASSUME Init PROVE AnswerInv
  OBVIOUS
<1>1. Asked = {}
  BY DEF Init, Asked
<1> QED BY <1>1 DEF Init, AnswerInv, Accounted, HeardAreIn

LEMMA AnswerStep == TypeInv /\ SeenInv /\ AnswerInv /\ [Next]_vars => AnswerInv'
<1> SUFFICES ASSUME TypeInv, SeenInv, AnswerInv, [Next]_vars PROVE AnswerInv'
  OBVIOUS
<1> TypeOK
  BY DEF TypeInv
<1> USE DEF AnswerInv, Accounted, HeardAreIn
<1>1. ASSUME NEW c \in qfind, Send(c) PROVE AnswerInv'
  <2>1. Asked' = Asked \cup {c}
    BY <1>1, SeenSend
  <2> QED BY <1>1, <2>1 DEF Send, history
<1>2. CASE Receive
  BY <1>2 DEF Receive, StillOut, Asked
<1>3. CASE ReceiveDone
  BY <1>3 DEF ReceiveDone, Asked
<1>4. CASE Wake
  BY <1>4 DEF Wake, Asked
<1>5. CASE UNCHANGED <<asked, outqueue, expired, answered, heard, failed>>
  BY <1>5 DEF Asked
<1> QED
  BY <1>1, <1>2, <1>3, <1>4, <1>5
  DEF Next, Step, NewItem, NewDone, SendDone, ReceiveBad, Expand, ExpandDone, Deliver, vars, history

(* When the lookup ends nobody it asked is forgotten: each has answered or  *)
(* was reported to the table as failed.                                    *)
THEOREM NobodyForgotten == Spec => []NoneForgotten
<1>1. Spec => [](TypeInv /\ SeenInv /\ WindowInv /\ AnswerInv)
  BY TypeInit, TypeStep, SeenInit, SeenStep, WindowInit, WindowStep, AnswerInit, AnswerStep, PTL
  DEF Spec
<1>2. WindowInv /\ AnswerInv => NoneForgotten
  BY DEF WindowInv, DoneEmpty, AnswerInv, Accounted, NoneForgotten
<1> QED BY <1>1, <1>2, PTL

(* A node whose response was read since the lookup woke is not among those  *)
(* it then reports as failed.                                              *)
THEOREM AnswerersNotFailed == Spec => NoFalseFailure
<1>1. Spec => [](TypeInv /\ SeenInv /\ AnswerInv)
  BY TypeInit, TypeStep, SeenInit, SeenStep, AnswerInit, AnswerStep, PTL DEF Spec
<1>2. AnswerInv /\ [Next]_vars => [\A c \in failed' \ failed : c.id \notin heard]_vars
  <2> SUFFICES ASSUME AnswerInv, Next, NEW c \in failed' \ failed
               PROVE  c.id \notin heard
    OBVIOUS
  <2>1. ReceiveDone
    BY DEF Next, Step, NewItem, NewDone, Send, SendDone, Receive, ReceiveBad, Expand,
           ExpandDone, Deliver, Wake, history
  <2> QED BY <2>1 DEF ReceiveDone, AnswerInv, HeardAreIn
<1> QED BY <1>1, <1>2, PTL DEF Spec, NoFalseFailure

-----------------------------------------------------------------------------
(* The answers kept.  There are at most K, all others are farther.        *)
BestInv == BestK /\ Cardinality(mapined) <= K

LEMMA BestInit == Init => BestInv
<1> SUFFICES ASSUME Init PROVE BestInv
  OBVIOUS
<1>1. Cardinality(mapined) = 0
  BY FS_EmptySet DEF Init
<1> QED BY <1>1 DEF Init, BestInv, BestK

(* One more answer: the map grows until it holds K, then its farthest       *)
(* member makes room, and b_ended never moves away.                        *)
LEMMA BestReceive ==
  ASSUME TypeInv, BestInv, Receive
  PROVE  BestInv' /\ (trim => trim' /\ ended' <= ended)
<1> TypeOK
  BY DEF TypeInv
<1> DEFINE id == Head(ship).id
           all == mapined \cup {id}
<1>1. id \in Ids /\ id \in Nat
  <2>1. Head(ship) \in Packets
    BY PopProperties DEF Receive, TypeOK
  <2> QED BY <2>1 DEF Receive, HasId
<1>2. mapined' = Keep(id) /\ answered' = answered \cup {id}
  BY DEF Receive
<1>3. /\ IsFiniteSet(all) /\ all \in SUBSET Nat /\ all # {}
      /\ Cardinality(all) = IF id \in mapined THEN Cardinality(mapined) ELSE Cardinality(mapined) + 1
  BY <1>1, FS_AddElement DEF TypeInv, TypeOK
<1>4. Max(all) \in all /\ \A y \in all : y <= Max(all)
  BY <1>3, MaxProperties
<1>5. Cardinality(mapined) \in Nat /\ Cardinality(mapined) <= K
  BY FS_CardinalityType DEF TypeInv, BestInv
<1>6. /\ mapined \subseteq answered
      /\ trim <=> Cardinality(mapined) = K
      /\ \A i \in answered \ mapined : trim /\ ended < i
      /\ trim => ended \in mapined /\ \A i \in mapined : i <= ended
  BY DEF BestInv, BestK
<1>7. mapined \subseteq Nat /\ ended \in Nat /\ answered \subseteq Nat /\ trim \in BOOLEAN
  BY DEF TypeOK
<1> HIDE DEF id
<1>8. CASE Cardinality(all) > K
  <2>1. Keep(id) = all \ {Max(all)}
    BY <1>8 DEF Keep
  <2>2. id \notin mapined /\ Cardinality(mapined) = K /\ Cardinality(all) = K + 1
    BY <1>3, <1>5, <1>8
  <2>3. trim = TRUE
    BY <1>6, <1>7, <2>2
  <2> HIDE DEF all
  <2>4. IsFiniteSet(mapined') /\ Cardinality(mapined') = K
    BY SMTT(30), <1>2, <1>3, <1>4, <2>1, <2>2, FS_RemoveElement
  <2>5. trim' = TRUE /\ ended' = Max(mapined')
    BY <2>4 DEF Receive, Enough
  <2>6. mapined' # {} /\ mapined' \in SUBSET Nat
    BY <1>2, <1>3, <2>1, <2>4, FS_EmptySet
  <2>7. ended' \in mapined' /\ \A y \in mapined' : y <= ended'
    BY <2>4, <2>5, <2>6, MaxProperties
  <2>8. \A y \in mapined' : y <= ended
    <3>1. ended <= Max(all)
      BY <1>4, <1>6, <2>3 DEF all
    <3>2. Max(all) \in mapined => Max(all) <= ended
      BY <1>6, <2>3
    <3> TAKE y \in mapined'
    <3>3. y \in all /\ y # Max(all) /\ y <= Max(all)
      BY <1>2, <1>4, <2>1
    <3>4. CASE y = id
      <4>1. Max(all) \in mapined
        BY <1>4, <3>3, <3>4 DEF all
      <4>2. y \in Nat /\ Max(all) \in Nat
        BY <1>3, <1>4, <3>3
      <4> QED BY <1>7, <3>2, <3>3, <4>1, <4>2
    <3>5. CASE y \in mapined
      BY <1>6, <2>3, <3>5
    <3> QED BY <3>3, <3>4, <3>5 DEF all
  <2>9. ended' <= ended
    BY <2>7, <2>8
  <2>10. \A i \in answered' \ mapined' : ended' < i
    <3> TAKE i \in answered' \ mapined'
    <3>1. CASE i = Max(all)
      <4>1. ended' \in all /\ ended' # Max(all)
        BY <1>2, <2>1, <2>7
      <4>2. ended' <= Max(all) /\ ended' \in Nat /\ Max(all) \in Nat
        BY <1>3, <1>4, <4>1
      <4> QED BY <3>1, <4>1, <4>2
    <3>2. CASE i # Max(all)
      <4>1. i \in answered \ mapined
        BY <1>2, <2>1, <3>2 DEF all
      <4>2. ended < i
        BY <1>6, <4>1
      <4> QED BY <1>7, <2>6, <2>7, <2>9, <4>1, <4>2
    <3> QED BY <3>1, <3>2
  <2>11. mapined' \subseteq answered'
    BY <1>2, <1>6, <2>1 DEF all
  <2> QED BY <2>4, <2>5, <2>7, <2>9, <2>10, <2>11 DEF BestInv, BestK
<1>9. CASE ~(Cardinality(all) > K)
  <2>1. mapined' = all
    BY <1>2, <1>9 DEF Keep
  <2>2. Cardinality(all) \in Nat /\ Cardinality(all) <= K
    BY <1>3, <1>5, <1>9
  <2>3. mapined' \subseteq answered'
    BY <1>2, <1>6, <2>1
  <2>4. trim => all = mapined
    BY <1>3, <1>5, <1>6, <2>2
  <2>5. \A i \in answered' \ mapined' : i \in answered \ mapined
    BY <1>2, <2>1
  <2> HIDE DEF all
  <2>6. CASE Cardinality(all) = K
    <3>1. trim' = TRUE /\ ended' = Max(all)
      BY <2>1, <2>6 DEF Receive, Enough
    <3>2. trim => ended' <= ended
      BY <1>4, <1>6, <2>4, <3>1
    <3>3. \A i \in answered' \ mapined' : ended' < i
      <4> TAKE i \in answered' \ mapined'
      <4>1. i \in Nat /\ trim /\ ended < i
        BY <1>6, <1>7, <2>5
      <4>2. ended' \in Nat
        BY <1>3, <1>4, <3>1
      <4> QED BY <1>7, <3>2, <4>1, <4>2
    <3> QED BY <1>4, <2>1, <2>2, <2>3, <2>6, <3>1, <3>2, <3>3 DEF BestInv, BestK
  <2>7. CASE Cardinality(all) # K
    <3>1. ~trim
      BY <1>6, <2>4, <2>7
    <3>2. trim' = trim
      BY <2>1, <2>7 DEF Receive, Enough
    <3>3. answered' \ mapined' = {}
      BY <1>6, <2>5, <3>1
    <3> QED BY <2>1, <2>2, <2>3, <2>7, <3>1, <3>2, <3>3 DEF BestInv, BestK
  <2> QED BY <2>6, <2>7
<1> QED BY <1>8, <1>9

LEMMA BestOther ==
  ASSUME TypeInv, BestInv, [Next]_vars, ~Receive
  PROVE  UNCHANGED <<best, answered>>
BY DEF Next, Step, NewItem, NewDone, Send, SendDone, ReceiveBad, Expand, ExpandDone,
       ReceiveDone, Wake, Deliver, vars, history

LEMMA BestStep ==
  TypeInv /\ BestInv /\ [Next]_vars => BestInv' /\ (trim => trim' /\ ended' <= ended)
<1> SUFFICES ASSUME TypeInv, BestInv, [Next]_vars
             PROVE  BestInv' /\ (trim => trim' /\ ended' <= ended)
  OBVIOUS
<1>1. CASE Receive
  BY <1>1, BestReceive
<1>2. CASE ~Receive
  <2>1. UNCHANGED <<best, answered>>
    BY <1>2, BestOther
  <2> QED BY <2>1 DEF best, BestInv, BestK, TypeInv, TypeOK
<1> QED BY <1>1, <1>2

(* b_mapined holds the K closest of all nodes that ever answered, and       *)
(* b_ended is the farthest of them once there are K.                       *)
THEOREM ClosestKept == Spec => []BestK
<1>1. Spec => [](TypeInv /\ BestInv)
  BY TypeInit, TypeStep, BestInit, BestStep, PTL DEF Spec
<1>2. BestInv => BestK
  BY DEF BestInv
<1> QED BY <1>1, <1>2, PTL

(* The bound beyond which no node is asked only comes closer.              *)
THEOREM BoundComesCloser == Spec => EndedShrinks
<1>1. Spec => [](TypeInv /\ BestInv)
  BY TypeInit, TypeStep, BestInit, BestStep, PTL DEF Spec
<1>2. TypeInv /\ BestInv /\ [Next]_vars => [trim => trim' /\ ended' <= ended]_vars
  BY BestStep
<1> QED BY <1>1, <1>2, PTL DEF Spec, EndedShrinks

-----------------------------------------------------------------------------
(* Nothing closer is left.  What the lookup was told of was seen, unless it *)
(* was too far; what was seen leads to a contact that was asked or is       *)
(* still queued; and when it stops, what is still queued is too far.       *)
ToldSeen == \A c \in learned : Far(c) \/ c.id \in seenid
SeenLeads == \A i \in seenid : \E d \in learned : d.id = i /\ d.host \in seenhost
HostLeads == \A h \in seenhost : \E q \in Asked \cup qfind : q.host = h

ReachInv == ToldSeen /\ SeenLeads /\ HostLeads

QueuedFar == \A c \in qfind : Far(c)

SearchInv ==
  /\ pc = "new" => concurrency = 0
  /\ pc = "expand" => finding
  /\ pc = "send" /\ ~finding => concurrency < Concurrent
  /\ pc \in {"receive", "asleep"} /\ ~finding => QueuedFar
  /\ pc = "done" => QueuedFar

LEMMA MinExists ==
  ASSUME NEW S \in SUBSET Nat, S # {}
  PROVE  \E x \in S : \A y \in S : x <= y
<1>1. PICK x \in S : TRUE
  OBVIOUS
<1> DEFINE Gaps == {x - y : y \in {y \in S : y <= x}}
<1>2. Gaps \in SUBSET Nat /\ x - x \in Gaps /\ \A g \in Gaps : g <= x
  BY <1>1
<1>3. IsFiniteSet(Gaps) /\ Gaps # {}
  <2> HIDE DEF Gaps
  <2> QED BY <1>1, <1>2, FS_BoundedSetOfNaturals
<1>4. PICK g \in Gaps : \A h \in Gaps : g >= h
  <2> HIDE DEF Gaps
  <2> QED BY <1>2, <1>3, MaxExists
<1>5. PICK m \in S : m <= x /\ g = x - m
  OBVIOUS
<1>6. \A y \in S : m <= y
  <2> TAKE y \in S
  <2>1. CASE y <= x
    <3>1. x - y \in Gaps
      BY <2>1
    <3>2. g >= x - y
      BY <1>4, <3>1
    <3> QED BY <1>1, <1>5, <3>2
  <2>2. CASE ~(y <= x)
    BY <1>1, <1>5, <2>2
  <2> QED BY <2>1, <2>2
<1> QED BY <1>6

(* When the closest contact queued is too far, all are. *)
LEMMA ClosestFar ==
  ASSUME TypeOK, \A c \in qfind : Closest(c) => Far(c)
  PROVE  QueuedFar
<1> SUFFICES ASSUME NEW c \in qfind PROVE Far(c)
  BY DEF QueuedFar
<1> DEFINE S == {d.id : d \in qfind}
<1>0. \A d \in qfind : d.id \in Nat
  BY DEF TypeOK, Contact
<1>1. S \in SUBSET Nat /\ S # {}
  BY <1>0
<1>2. PICK x \in S : \A y \in S : x <= y
  <2> HIDE DEF S
  <2> QED BY <1>1, MinExists
<1>3. PICK d \in qfind : x = d.id
  OBVIOUS
<1>4. Closest(d)
  BY <1>2, <1>3 DEF Closest
<1>5. Far(d) /\ d.id <= c.id
  BY <1>2, <1>3, <1>4
<1> QED BY <1>0, <1>5 DEF Far, TypeOK

LEMMA ReachInit == Init => ReachInv
  BY DEF Init, ReachInv, ToldSeen, SeenLeads, HostLeads

(* What was too far stays too far. *)
LEMMA FarStays ==
  ASSUME TypeInv, BestInv, [Next]_vars, NEW c \in Contact, Far(c)
  PROVE  Far(c)'
<1>1. trim' /\ ended' <= ended
  BY BestStep DEF Far
<1>2. ended \in Nat /\ ended' \in Nat /\ c.id \in Nat
  BY TypeStep DEF TypeInv, TypeOK, Contact
<1> QED BY <1>1, <1>2 DEF Far

LEMMA ReachQueue ==
  ASSUME TypeOK, ReachInv, NEW c \in Contact, Queue(c),
         learned' = learned \cup {c}, UNCHANGED <<asked, best>>
  PROVE  ReachInv'
<1>1. Asked' = Asked /\ \A d : Far(d)' <=> Far(d)
  BY DEF Asked, Far, best
<1>2. seenid' = seenid \cup {c.id}
  BY DEF Queue
<1>3. CASE c.id \notin seenid /\ c.host \notin seenhost
  <2>1. seenhost' = seenhost \cup {c.host} /\ qfind' = qfind \cup {c}
    BY <1>3 DEF Queue
  <2> QED BY <1>1, <1>2, <2>1 DEF ReachInv, ToldSeen, SeenLeads, HostLeads
<1>4. CASE ~(c.id \notin seenid /\ c.host \notin seenhost)
  <2>1. UNCHANGED <<seenhost, qfind>>
    BY <1>4 DEF Queue
  <2> QED BY <1>1, <1>2, <1>4, <2>1 DEF ReachInv, ToldSeen, SeenLeads, HostLeads
<1> QED BY <1>3, <1>4

LEMMA ReachStep ==
  TypeInv /\ SeenInv /\ BestInv /\ ReachInv /\ [Next]_vars => ReachInv'
<1> SUFFICES ASSUME TypeInv, SeenInv, BestInv, ReachInv, [Next]_vars PROVE ReachInv'
  OBVIOUS
<1> TypeOK
  BY DEF TypeInv
<1>0. \A c \in learned : Far(c) => Far(c)'
  BY FarStays DEF TypeOK
<1>1. CASE NewItem
  <2>1. Head(todo) \in Contact
    BY <1>1, PopProperties DEF NewItem, TypeOK
  <2> QED BY <1>1, <2>1, ReachQueue DEF NewItem
<1>2. CASE Expand
  <2>1. Head(todo) \in Contact
    BY <1>2, PopProperties DEF Expand, TypeOK
  <2>2. CASE Far(Head(todo))
    <3>1. Asked' = Asked /\ \A d : Far(d)' <=> Far(d)
      BY <1>2 DEF Expand, Asked, Far, best
    <3>2. learned' = learned \cup {Head(todo)} /\ UNCHANGED known
      BY <1>2, <2>2 DEF Expand
    <3> QED BY <2>2, <3>1, <3>2 DEF known, ReachInv, ToldSeen, SeenLeads, HostLeads
  <2>3. CASE ~Far(Head(todo))
    BY <1>2, <2>1, <2>3, ReachQueue DEF Expand
  <2> QED BY <2>2, <2>3
<1>3. ASSUME NEW c \in qfind, Send(c) PROVE ReachInv'
  <2>1. Asked' \cup qfind' = Asked \cup qfind
    BY <1>3, SeenSend DEF Send
  <2>2. UNCHANGED <<learned, seenid, seenhost>>
    BY <1>3 DEF Send, history
  <2> QED BY <1>0, <2>1, <2>2 DEF ReachInv, ToldSeen, SeenLeads, HostLeads
<1>4. CASE UNCHANGED <<known, asked, learned>>
  BY <1>0, <1>4 DEF known, ReachInv, ToldSeen, SeenLeads, HostLeads, Asked
<1> QED
  BY <1>1, <1>2, <1>3, <1>4
  DEF Next, Step, NewDone, SendDone, Receive, ReceiveBad, ExpandDone, ReceiveDone, Wake,
      Deliver, vars, history

LEMMA SearchInit == Init => SearchInv
  BY DEF Init, SearchInv

LEMMA SearchStep ==
  TypeInv /\ WindowInv /\ SearchInv /\ [Next]_vars => SearchInv'
<1> SUFFICES ASSUME TypeInv, WindowInv, SearchInv, [Next]_vars PROVE SearchInv'
  OBVIOUS
<1> TypeOK
  BY DEF TypeInv
<1>1. CASE NewItem \/ NewDone
  BY <1>1 DEF NewItem, NewDone, SearchInv
<1>2. ASSUME NEW c \in qfind, Send(c) PROVE SearchInv'
  BY <1>2 DEF Send, SearchInv
<1>3. CASE SendDone
  <2>1. finding' = finding /\ concurrency' = concurrency
        /\ pc = "send" /\ pc' \in {"done", "receive"} /\ (pc' = "done" => concurrency = 0)
        /\ (QueuedFar' <=> QueuedFar)
    BY <1>3 DEF SendDone, known, best, QueuedFar, Far
  <2>2. pc' = "done" \/ ~finding => concurrency < Concurrent
    BY <2>1 DEF SearchInv
  <2>3. concurrency < Concurrent => QueuedFar
    BY <1>3, ClosestFar DEF SendDone, TypeOK
  <2> QED BY <2>1, <2>2, <2>3 DEF SearchInv
<1>4. CASE Receive
  BY <1>4 DEF Receive, SearchInv
<1>5. CASE ReceiveBad
  BY <1>5 DEF ReceiveBad, SearchInv, known, best, QueuedFar, Far
<1>6. CASE Expand
  BY <1>6 DEF Expand, SearchInv
<1>7. CASE ExpandDone
  BY <1>7 DEF ExpandDone, SearchInv
<1>8. CASE ReceiveDone
  <2>1. QueuedFar' <=> QueuedFar
    BY <1>8 DEF ReceiveDone, known, best, QueuedFar, Far
  <2>2. pc = "receive" /\ concurrency' \in Int
    BY <1>8 DEF ReceiveDone, TypeOK
  <2>3. CASE concurrency' < Concurrent /\ finding
    BY <1>8, <2>3 DEF ReceiveDone, SearchInv
  <2>4. CASE ~(concurrency' < Concurrent /\ finding)
    <3>1. pc' = (IF concurrency' > 0 THEN "asleep" ELSE "done") /\ finding' = finding
      BY <1>8, <2>4 DEF ReceiveDone
    <3>2. pc' = "done" => ~finding
      BY <2>2, <2>4, <3>1
    <3> QED BY <2>1, <2>2, <3>1, <3>2 DEF SearchInv
  <2> QED BY <2>3, <2>4
<1>9. CASE Wake
  BY <1>9 DEF Wake, SearchInv, known, best, QueuedFar, Far
<1>10. ASSUME NEW p \in Packets, Deliver(p) PROVE SearchInv'
  BY <1>10 DEF Deliver, SearchInv, known, best, QueuedFar, Far
<1>11. CASE UNCHANGED vars
  BY <1>11 DEF vars, SearchInv, known, best, QueuedFar, Far
<1> QED
  BY <1>1, <1>2, <1>3, <1>4, <1>5, <1>6, <1>7, <1>8, <1>9, <1>10, <1>11 DEF Next, Step

(* At the end no contact it was told of was left out, unless it is farther  *)
(* than the K closest answers.                                             *)
THEOREM NothingCloser == Spec => []NothingCloserLeft
<1>1. Spec => [](TypeInv /\ SeenInv /\ WindowInv /\ BestInv /\ ReachInv /\ SearchInv)
  BY TypeInit, TypeStep, SeenInit, SeenStep, WindowInit, WindowStep, BestInit, BestStep,
     ReachInit, ReachStep, SearchInit, SearchStep, PTL DEF Spec
<1>2. ReachInv /\ SearchInv => NothingCloserLeft
  <2> SUFFICES ASSUME ReachInv, SearchInv, pc = "done", NEW c \in learned, ~Far(c)
               PROVE  \E d \in learned, q \in Asked \cup qfind :
                        d.id = c.id /\ q.host = d.host /\ (q \in qfind => Far(q))
    BY DEF NothingCloserLeft
  <2>1. PICK d \in learned : d.id = c.id /\ d.host \in seenhost
    BY DEF ReachInv, ToldSeen, SeenLeads
  <2>2. PICK q \in Asked \cup qfind : q.host = d.host
    BY <2>1 DEF ReachInv, HostLeads
  <2> QED BY <2>1, <2>2 DEF SearchInv, QueuedFar
<1> QED BY <1>1, <1>2, PTL

(* Requests are accounted for, while vcall() sleeps and when it ends.       *)
THEOREM RequestsCountedHolds == Spec => []RequestsCounted
BY WindowCounted, NobodyForgotten, PTL DEF RequestsCounted

(* No answer is lost to a later step of the lookup.                         *)
THEOREM AnswersCountHolds == Spec => AnswersCount
BY AnswerersNotFailed, BoundComesCloser, PTL DEF AnswersCount

(* The lookup returns the K closest that answer and overlooks none.         *)
THEOREM ClosestFoundHolds == Spec => []ClosestFound
BY ClosestKept, NothingCloser, PTL DEF ClosestFound
-----------------------------------------------------------------------------
(* The lookup of peers.  It is the lookup of nodes, with more to be read in  *)
(* each response, so all that was proved of that one holds of it.           *)
LEMMA PeersLookupSteps == [GNext]_gvars => [Next]_vars
BY DEF GNext, GStep, gvars, GetNew, GetSend, GetReceive, GetReceiveBad, GetExpand, GetPeer,
       GetNextString, GetExpandDone, GetReceiveDone, GetWake, Forward, GetDeliver, Next, Step

(* kgetpeers is a kfind: each of its steps is one of that lookup or changes  *)
(* only the peers.                                                         *)
THEOREM PeersLookupIsLookup == GSpec => Spec
<1>1. GInit => Init
  BY DEF GInit
<1> QED BY <1>1, PeersLookupSteps, PTL DEF GSpec, Spec

(* So it asks no node twice, counts its requests, misses no node that is     *)
(* closer, and loses no answer.                                            *)
THEOREM PeersLookupHolds == GSpec => [](AskedOnce /\ RequestsCounted /\ ClosestFound) /\ AnswersCount
BY PeersLookupIsLookup, NeverAskedTwice, RequestsCountedHolds, ClosestFoundHolds,
   AnswersCountHolds, PTL

-----------------------------------------------------------------------------
(* The count of responses.  While it is zero nobody is known to have         *)
(* answered.                                                               *)
CountInv ==
  /\ sumumery \in Nat
  /\ sumumery = 0 => answered = {}
  /\ failed \subseteq Asked

LookupInv == TypeInv /\ SeenInv /\ WindowInv /\ AnswerInv

LEMMA LookupInit == GInit => LookupInv
BY TypeInit, SeenInit, WindowInit, AnswerInit DEF GInit, LookupInv

LEMMA LookupStep == LookupInv /\ [GNext]_gvars => LookupInv'
BY PeersLookupSteps, TypeStep, SeenStep, WindowStep, AnswerStep DEF LookupInv

LEMMA CountInit == GInit => CountInv
BY DEF GInit, Init, CountInv

LEMMA CountStep == LookupInv /\ CountInv /\ [GNext]_gvars => CountInv'
<1> SUFFICES ASSUME LookupInv, CountInv, [GNext]_gvars PROVE CountInv'
  OBVIOUS
<1>0. outqueue \subseteq Asked
  BY DEF LookupInv, WindowInv, OutAsked
<1>1. Asked \subseteq Asked'
  <2>1. ASSUME NEW c \in qfind, Send(c) PROVE Asked \subseteq Asked'
    BY <2>1, SeenSend DEF LookupInv, TypeInv
  <2>2. CASE UNCHANGED asked
    BY <2>2 DEF Asked
  <2> QED
    BY <2>1, <2>2, PeersLookupSteps
    DEF Next, Step, NewItem, NewDone, SendDone, Receive, ReceiveBad, Expand, ExpandDone,
        ReceiveDone, Wake, Deliver, vars
<1>2. failed' \subseteq failed \cup outqueue
  BY PeersLookupSteps
  DEF Next, Step, NewItem, NewDone, Send, SendDone, Receive, ReceiveBad, Expand, ExpandDone,
      ReceiveDone, Wake, Deliver, vars, history
<1>3. sumumery' \in Nat /\ (sumumery' = 0 => answered' = {})
  <2>1. CASE GetReceive \/ GetReceiveBad
    <3>1. sumumery \in Nat /\ sumumery' = sumumery + 1
      BY <2>1 DEF GetReceive, GetReceiveBad, CountInv
    <3> QED BY <3>1
  <2>2. CASE UNCHANGED <<sumumery, answered>>
    BY <2>2 DEF CountInv
  <2> QED
    BY <2>1, <2>2
    DEF GNext, GStep, gvars, vars, found, history, GetNew, GetSend, GetExpand, GetPeer,
        GetNextString, GetExpandDone, GetReceiveDone, GetWake, Forward, GetDeliver,
        NewItem, NewDone, Send, SendDone, Expand, ExpandDone, ReceiveDone, Wake, Deliver
<1> QED BY <1>0, <1>1, <1>2, <1>3 DEF CountInv

(* When kgetpeers returns zero, which its caller takes for a network where   *)
(* nobody is there, everyone it asked was reported as failed, and nobody    *)
(* else.                                                                   *)
THEOREM ZeroIsSilence == GSpec => []ZeroMeansSilence
<1>1. GSpec => [](LookupInv /\ CountInv)
  BY LookupInit, LookupStep, CountInit, CountStep, PTL DEF GSpec
<1>2. LookupInv /\ CountInv => ZeroMeansSilence
  BY DEF LookupInv, WindowInv, DoneEmpty, AnswerInv, Accounted, CountInv, ZeroMeansSilence
<1> QED BY <1>1, <1>2, PTL

-----------------------------------------------------------------------------
(* The peers.  What is still to be read are strings of peers or the one that *)
(* ends the list; the filter holds what came before; and the peers sent and  *)
(* those to be sent are in the order they came.                             *)
Strings == Seq(Seq(Peers) \cup {BadString})

FoundInv ==
  /\ strings \in Strings
  /\ peers \in Seq(Peers) /\ sent \in Seq(Peers)
  /\ offered \subseteq Peers /\ peerfilter = offered
  /\ PeersOnce

LEMMA OnceAppended ==
  ASSUME NEW S, NEW s \in Seq(S), NEW p \in S, IsInjective(s), p \notin ToSet(s)
  PROVE  IsInjective(Append(s, p)) /\ ToSet(Append(s, p)) = ToSet(s) \cup {p}
<1> DEFINE n == Len(s)
           t == Append(s, p)
<1>1. /\ n \in Nat /\ DOMAIN s = 1 .. n /\ DOMAIN t = 1 .. n + 1
      /\ \A i \in 1 .. n : t[i] = s[i]
      /\ t[n + 1] = p
  BY AppendProperties
<1> HIDE DEF n, t
<1>2. \A i \in 1 .. n : s[i] # p
  BY <1>1 DEF ToSet
<1>3. IsInjective(t)
  <2> SUFFICES ASSUME NEW i \in DOMAIN t, NEW j \in DOMAIN t, t[i] = t[j]
               PROVE  i = j
    BY DEF IsInjective
  <2>1. (i \in 1 .. n \/ i = n + 1) /\ (j \in 1 .. n \/ j = n + 1)
    BY <1>1
  <2>2. CASE i \in 1 .. n /\ j \in 1 .. n
    BY <1>1, <2>2 DEF IsInjective
  <2> QED BY <1>1, <1>2, <2>1, <2>2
<1>4. ToSet(t) = ToSet(s) \cup {p}
  <2>1. \A i \in DOMAIN t : t[i] \in ToSet(s) \cup {p}
    <3> TAKE i \in DOMAIN t
    <3>1. i \in 1 .. n \/ i = n + 1
      BY <1>1
    <3> QED BY <1>1, <3>1 DEF ToSet
  <2>2. \A i \in DOMAIN s : s[i] \in ToSet(t)
    <3> TAKE i \in DOMAIN s
    <3>1. i \in DOMAIN t
      BY <1>1
    <3> QED BY <1>1, <3>1 DEF ToSet
  <2>3. n + 1 \in DOMAIN t
    BY <1>1
  <2> QED BY <1>1, <2>1, <2>2, <2>3 DEF ToSet
<1> QED BY <1>3, <1>4 DEF t

LEMMA AppendedLast ==
  ASSUME NEW S, NEW s \in Seq(S), NEW t \in Seq(S), NEW p \in S
  PROVE  s \o Append(t, p) = Append(s \o t, p)
  OBVIOUS

LEMMA HeadMoves ==
  ASSUME NEW S, NEW s \in Seq(S), NEW t \in Seq(S), t # <<>>
  PROVE  Append(s, Head(t)) \o Tail(t) = s \o t
  OBVIOUS

LEMMA FoundInit == GInit => FoundInv
<1> SUFFICES ASSUME GInit PROVE FoundInv
  OBVIOUS
<1>1. strings = <<>> /\ peers = <<>> /\ sent = <<>> /\ offered = {} /\ peerfilter = {}
  BY DEF GInit
<1>2. sent \o peers = <<>>
  BY <1>1
<1>3. IsInjective(<<>>) /\ ToSet(<<>>) = {}
  BY DEF IsInjective, ToSet
<1> QED BY <1>1, <1>2, <1>3 DEF FoundInv, Strings, PeersOnce

LEMMA FoundStep ==
  KgetpeersAssumption /\ TypeOK /\ FoundInv /\ [GNext]_gvars => FoundInv'
<1> SUFFICES ASSUME KgetpeersAssumption, TypeOK, FoundInv, [GNext]_gvars PROVE FoundInv'
  OBVIOUS
<1>0. /\ strings \in Strings /\ peers \in Seq(Peers) /\ sent \in Seq(Peers)
      /\ offered \subseteq Peers /\ peerfilter = offered
      /\ IsInjective(sent \o peers) /\ ToSet(sent \o peers) = offered
  BY DEF FoundInv, PeersOnce
<1>1. CASE GetReceive
  <2>1. Head(ship) \in Packets
    BY <1>1, PopProperties DEF GetReceive, Receive, TypeOK
  <2>2. strings' \in Strings
    BY <1>1, <2>1 DEF GetReceive, KgetpeersAssumption, Strings
  <2> QED BY <1>1, <2>2 DEF GetReceive, FoundInv, PeersOnce
<1>2. CASE GetPeer
  <2> DEFINE s == Head(strings)
             p == Head(s)
  <2>1. s \in Seq(Peers) /\ s # <<>> /\ Tail(strings) \in Strings
    BY <1>0, <1>2, PopProperties DEF GetPeer, MoreValues, Strings
  <2>2. p \in Peers /\ Tail(s) \in Seq(Peers)
    BY <2>1, PopProperties
  <2>3. strings' \in Strings
    <3>1. <<Tail(s)>> \in Strings
      BY <2>2 DEF Strings
    <3>2. strings' = <<Tail(s)>> \o Tail(strings)
      BY <1>2 DEF GetPeer
    <3> HIDE DEF s
    <3> QED BY <2>1, <3>1, <3>2 DEF Strings
  <2>4. /\ peers' = IF p \in peerfilter THEN peers ELSE Append(peers, p)
        /\ peerfilter' = peerfilter \cup {p} /\ offered' = offered \cup {p} /\ sent' = sent
    BY <1>2 DEF GetPeer
  <2> HIDE DEF p
  <2>5. CASE p \in offered
    <3>1. peers' = peers /\ offered' = offered
      BY <1>0, <2>4, <2>5
    <3> QED BY <1>0, <2>3, <2>4, <3>1 DEF FoundInv, PeersOnce
  <2>6. CASE p \notin offered
    <3>1. peers' = Append(peers, p) /\ peers' \in Seq(Peers)
      BY <1>0, <2>2, <2>4, <2>6
    <3>2. sent' \o peers' = Append(sent \o peers, p)
      BY <1>0, <2>2, <2>4, <3>1, AppendedLast
    <3>3. sent \o peers \in Seq(Peers)
      BY <1>0
    <3>4. /\ IsInjective(Append(sent \o peers, p))
          /\ ToSet(Append(sent \o peers, p)) = offered \cup {p}
      BY ZenonT(60), <1>0, <2>2, <2>6, <3>3, OnceAppended
    <3>5. PeersOnce'
      BY <2>4, <3>2, <3>4 DEF PeersOnce
    <3> QED BY <1>0, <2>2, <2>3, <2>4, <3>1, <3>5 DEF FoundInv
  <2> QED BY <2>5, <2>6
<1>3. CASE GetNextString
  <2>1. Tail(strings) \in Strings
    BY <1>0, <1>3, PopProperties DEF GetNextString, MoreValues, Strings
  <2> QED BY <1>3, <2>1 DEF GetNextString, FoundInv, PeersOnce
<1>4. CASE GetExpandDone
  <2>1. strings' \in Strings
    BY <1>4 DEF GetExpandDone, Strings
  <2> QED BY <1>4, <2>1 DEF GetExpandDone, FoundInv, PeersOnce
<1>5. CASE Forward
  <2>1. Head(peers) \in Peers /\ Tail(peers) \in Seq(Peers)
    BY <1>0, <1>5, PopProperties DEF Forward
  <2>2. sent' = Append(sent, Head(peers)) /\ peers' = Tail(peers) /\ peers # <<>>
    BY <1>5 DEF Forward
  <2>3. sent' \in Seq(Peers) /\ peers' \in Seq(Peers)
    BY <1>0, <2>1, <2>2
  <2>4. sent' \o peers' = sent \o peers
    BY <1>0, <2>2, HeadMoves
  <2>5. UNCHANGED <<strings, peerfilter, offered>>
    BY <1>5 DEF Forward
  <2> QED BY <1>0, <2>3, <2>4, <2>5 DEF FoundInv, PeersOnce
<1>6. CASE UNCHANGED <<strings, peerfilter, peers, sent, offered>>
  BY <1>6 DEF FoundInv, PeersOnce
<1> QED
  BY <1>1, <1>2, <1>3, <1>4, <1>5, <1>6
  DEF GNext, GStep, gvars, found, GetNew, GetSend, GetReceiveBad, GetExpand, GetReceiveDone,
      GetWake, GetDeliver

(* The client gets every peer of every response that was read, once and in   *)
(* the order they came, whatever duplicates the responses hold, in one       *)
(* string or in several, and whatever ends their lists early.               *)
THEOREM PeersOnceHolds ==
  ASSUME KgetpeersAssumption
  PROVE  GSpec => [](GTypeOK /\ PeersOnce)
<1>1. GSpec => [](LookupInv /\ CountInv /\ FoundInv)
  <2>1. LookupInv => TypeOK
    BY DEF LookupInv, TypeInv
  <2> QED
    BY <2>1, LookupInit, LookupStep, CountInit, CountStep, FoundInit, FoundStep, PTL DEF GSpec
<1>2. LookupInv /\ CountInv /\ FoundInv => GTypeOK /\ PeersOnce
  BY DEF LookupInv, TypeInv, CountInv, FoundInv, GTypeOK
<1> QED BY <1>1, <1>2, PTL
=============================================================================
