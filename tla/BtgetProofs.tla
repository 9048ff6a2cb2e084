---------------------------- MODULE BtgetProofs ----------------------------
(***************************************************************************)
(* Proofs about parts of btget.  The ring of open files never names        *)
(* a closed descriptor, never leaves an open one behind, and cacheopen()   *)
(* returns the file asked for: for every size of the ring, every set of    *)
(* files and every order of calls.  A connection (Client) is read at the   *)
(* start of a message and served as long as there is anything to serve:    *)
(* for any messages, however they come in pieces, and any partial writes.  *)
(* The bitsets (Bitset) are the sets they stand for: bytes of any width.   *)
(* The peers trackers name (Tracker) are connected to, once, and the       *)
(* trackers asked and told in time: for any torrents and any answers.      *)
(* A torrent that is made (Maker) has the pieces and the entries of its    *)
(* files: for any arguments, any files and any sizes.  Pieces written over *)
(* the files of a torrent (Fileset) are read back, and found again at the  *)
(* next start: for any lengths, and whatever became of the files.          *)
(***************************************************************************)
EXTENDS FileCache, Sequences, SequenceTheorems, FiniteSetTheorems, WellFoundedInduction, TLAPS

(* The three invariants are inductive together. *)
RingInv == TypeOK /\ SlotsOpen /\ NoLeak

LEMMA InitRing == Init => RingInv
<1> USE FileCacheAssumption
<1> QED BY DEF Init, RingInv, TypeOK, SlotsOpen, NoLeak, Slots, Empty, NoFile

LEMMA FdPositive == \A fd \in Fds : fd \in Nat /\ fd > 0
BY FileCacheAssumption

(* A descriptor that open() has just returned is in no slot. *)
LEMMA FreshFd ==
  ASSUME RingInv, NEW fd \in Fds, open[fd] = NoFile, NEW i \in Slots
  PROVE  c_fileset[i].fd # fd
<1> USE FileCacheAssumption
<1>1. fd # 0
  OBVIOUS
<1>2. c_fileset[i].fd # 0 =>
        /\ c_fileset[i].path \in Paths
        /\ open[c_fileset[i].fd] = [path |-> c_fileset[i].path, options |-> c_fileset[i].options]
  BY DEF RingInv, SlotsOpen
<1>3. open[fd].path = NULL
  BY DEF NoFile
<1> QED BY <1>1, <1>2, <1>3

(* A slot that holds a path asked for is in use. *)
LEMMA HeldIsOpen ==
  ASSUME RingInv, NEW path \in Paths, NEW options \in Options, NEW i \in Slots,
         Holds(i, path, options)
  PROVE  /\ c_fileset[i].fd \in Fds
         /\ open[c_fileset[i].fd] = [path |-> path, options |-> options]
<1> USE FileCacheAssumption
<1>1. c_fileset[i] # Empty
  BY DEF Holds, Empty
<1>2. c_fileset[i].fd # 0
  BY <1>1 DEF RingInv, SlotsOpen
<1> QED BY <1>2 DEF RingInv, SlotsOpen, TypeOK, Holds

LEMMA NextIndex == ASSUME NEW i \in Slots PROVE (i + 1) % FILESETSIZE \in Slots
BY FileCacheAssumption DEF Slots

LEMMA RingFill ==
  ASSUME RingInv, NEW path \in Paths, NEW options \in Options, Fill(path, options)
  PROVE  RingInv'
<1> USE FileCacheAssumption
<1> DEFINE file == [path |-> path, options |-> options]
<1>1. PICK fd \in Fds :
        /\ open[fd] = NoFile
        /\ open' = [Closed(c_fileset[c_index].fd) EXCEPT ![fd] = file]
        /\ c_fileset' = [c_fileset EXCEPT ![c_index] = [fd |-> fd, path |-> path, options |-> options]]
  BY DEF Fill
<1> DEFINE old == c_fileset[c_index].fd
<1>2. /\ c_index \in Slots /\ c_index' \in Slots /\ last_i' \in Slots /\ fd # 0
      /\ old \in Fds \cup {0} /\ NoFile # file
  BY NextIndex DEF RingInv, TypeOK, Fill, NoFile
<1>3. /\ Closed(old) \in [Fds -> [path : Paths \cup {NULL}, options : Options \cup {0}]]
      /\ \A f \in Fds : Closed(old)[f] = IF f = old THEN NoFile ELSE open[f]
  BY <1>2 DEF RingInv, TypeOK, Closed, NoFile
<1>4. \A f \in Fds : open'[f] = IF f = fd THEN file ELSE IF f = old THEN NoFile ELSE open[f]
  BY <1>1, <1>3
<1>5. \A i \in Slots : c_fileset'[i] = IF i = c_index THEN [fd |-> fd, path |-> path, options |-> options]
                                       ELSE c_fileset[i]
  BY <1>1, <1>2 DEF RingInv, TypeOK
<1>6. \A i \in Slots : c_fileset[i].fd # fd
  BY <1>1, FreshFd
<1>7. TypeOK'
  <2>1. open' \in [Fds -> [path : Paths \cup {NULL}, options : Options \cup {0}]]
    BY <1>1, <1>3
  <2>2. c_fileset' \in [Slots -> [fd : Fds \cup {0}, path : Paths \cup {NULL}, options : Options \cup {0}]]
    BY <1>1, <1>2 DEF RingInv, TypeOK
  <2> QED BY <1>2, <2>1, <2>2 DEF TypeOK
<1>8. SlotsOpen'
  <2>1. ASSUME NEW i \in Slots, c_fileset'[i].fd # 0
        PROVE  /\ c_fileset'[i].path \in Paths
               /\ open'[c_fileset'[i].fd] = [path |-> c_fileset'[i].path, options |-> c_fileset'[i].options]
    <3>1. CASE i = c_index
      <4>1. c_fileset'[i] = [fd |-> fd, path |-> path, options |-> options]
        BY <1>5, <3>1
      <4>2. open'[fd] = file
        BY <1>4
      <4> QED BY <4>1, <4>2
    <3>2. CASE i # c_index
      <4>1. c_fileset[i].fd \in Fds /\ c_fileset[i].fd # old /\ c_fileset[i].fd # fd
        BY <1>2, <1>5, <1>6, <2>1, <3>2 DEF RingInv, TypeOK, SlotsOpen
      <4>2. open'[c_fileset[i].fd] = open[c_fileset[i].fd]
        BY <1>4, <4>1
      <4>3. /\ c_fileset[i].path \in Paths
            /\ open[c_fileset[i].fd] = [path |-> c_fileset[i].path, options |-> c_fileset[i].options]
        BY <1>5, <2>1, <3>2 DEF RingInv, SlotsOpen
      <4> QED BY <1>5, <3>2, <4>2, <4>3
    <3> QED BY <3>1, <3>2
  <2>2. ASSUME NEW i \in Slots, c_fileset'[i].fd = 0 PROVE c_fileset'[i] = Empty
    <3>1. i # c_index
      BY <1>2, <1>5, <2>2
    <3> QED BY <1>5, <2>2, <3>1 DEF RingInv, SlotsOpen
  <2>3. ASSUME NEW i \in Slots, NEW j \in Slots, c_fileset'[i].fd = c_fileset'[j].fd, c_fileset'[i].fd # 0
        PROVE  i = j
    BY <1>5, <1>6, <2>3 DEF RingInv, SlotsOpen
  <2> QED BY <2>1, <2>2, <2>3 DEF SlotsOpen, Empty, Slots
<1>9. NoLeak'
  <2>1. ASSUME NEW f \in Fds, open'[f] # NoFile PROVE \E i \in Slots : c_fileset'[i].fd = f
    <3>1. CASE f = fd
      BY <1>2, <1>5, <3>1
    <3>2. CASE f # fd
      <4>1. f # old /\ open[f] # NoFile
        BY <1>4, <2>1, <3>2
      <4>2. PICK i \in Slots : c_fileset[i].fd = f
        BY <4>1 DEF RingInv, NoLeak
      <4> QED BY <1>5, <4>1, <4>2
    <3> QED BY <3>1, <3>2
  <2> QED BY <2>1 DEF NoLeak, NoFile, Slots
<1> QED BY <1>7, <1>8, <1>9 DEF RingInv

LEMMA RingClose == ASSUME RingInv, CacheClose PROVE RingInv'
<1> USE FileCacheAssumption
<1> DEFINE old == c_fileset[c_index].fd
<1>1. c_index \in Slots /\ c_index' \in Slots /\ last_i' \in Slots /\ old \in Fds \cup {0}
  BY DEF RingInv, TypeOK, CacheClose
<1>2. CASE old = 0
  <2>1. open' = open /\ c_fileset' = c_fileset
    BY <1>2 DEF CacheClose, Closed
  <2> QED BY <1>1, <2>1 DEF RingInv, TypeOK, SlotsOpen, NoLeak, CacheClose, Slots, Empty, NoFile
<1>3. CASE old # 0
  <2>1. /\ open' = [open EXCEPT ![old] = NoFile]
        /\ c_fileset' = [c_fileset EXCEPT ![c_index] = Empty]
    <3>1. old > 0
      BY <1>1, <1>3, FdPositive
    <3> QED BY <1>3, <3>1 DEF CacheClose, Closed
  <2>2. \A f \in Fds : open'[f] = IF f = old THEN NoFile ELSE open[f]
    BY <2>1 DEF RingInv, TypeOK
  <2>3. \A i \in Slots : c_fileset'[i] = IF i = c_index THEN Empty ELSE c_fileset[i]
    BY <1>1, <2>1 DEF RingInv, TypeOK
  <2>4. TypeOK'
    BY <1>1, <2>1 DEF RingInv, TypeOK, Empty, NoFile
  <2>5. \A i \in Slots : i # c_index => c_fileset[i].fd # old
    BY <1>1, <1>3 DEF RingInv, SlotsOpen
  <2>6. SlotsOpen'
    <3>1. ASSUME NEW i \in Slots
          PROVE  IF c_fileset'[i].fd = 0 THEN c_fileset'[i] = Empty
                 ELSE /\ c_fileset'[i].path \in Paths
                      /\ open'[c_fileset'[i].fd]
                           = [path |-> c_fileset'[i].path, options |-> c_fileset'[i].options]
      <4>1. CASE i = c_index
        BY <2>3, <4>1 DEF Empty
      <4>2. CASE i # c_index
        <5>1. c_fileset'[i] = c_fileset[i]
          BY <2>3, <4>2
        <5>2. c_fileset[i].fd # 0 => open'[c_fileset[i].fd] = open[c_fileset[i].fd]
          BY <2>2, <2>5, <4>2 DEF RingInv, TypeOK
        <5> QED BY <5>1, <5>2 DEF RingInv, SlotsOpen
      <4> QED BY <4>1, <4>2
    <3>2. ASSUME NEW i \in Slots, NEW j \in Slots, c_fileset'[i].fd = c_fileset'[j].fd, c_fileset'[i].fd # 0
          PROVE  i = j
      BY <2>3, <3>2 DEF RingInv, SlotsOpen, Empty
    <3> QED BY <3>1, <3>2 DEF SlotsOpen, Empty, Slots
  <2>7. NoLeak'
    <3>1. ASSUME NEW f \in Fds, open'[f] # NoFile PROVE \E i \in Slots : c_fileset'[i].fd = f
      <4>1. f # old /\ open[f] # NoFile
        BY <2>2, <3>1
      <4>2. PICK i \in Slots : c_fileset[i].fd = f
        BY <4>1 DEF RingInv, NoLeak
      <4> QED BY <2>3, <4>1, <4>2
    <3> QED BY <3>1 DEF NoLeak, NoFile, Slots
  <2> QED BY <2>4, <2>6, <2>7 DEF RingInv
<1> QED BY <1>2, <1>3

LEMMA StepRing == RingInv /\ [Next]_vars => RingInv'
<1> SUFFICES ASSUME RingInv, [Next]_vars PROVE RingInv'
  OBVIOUS
<1> USE FileCacheAssumption
<1>1. ASSUME NEW path \in Paths, NEW options \in Options, Hit(path, options) PROVE RingInv'
  <2>1. UNCHANGED <<c_fileset, c_index, open>> /\ last_i' \in Slots
    BY <1>1 DEF Hit
  <2> QED BY <2>1 DEF RingInv, TypeOK, SlotsOpen, NoLeak, Slots, Empty, NoFile
<1>2. ASSUME NEW path \in Paths, NEW options \in Options, Fill(path, options) PROVE RingInv'
  BY <1>2, RingFill
<1>3. ASSUME NEW path \in Paths, NEW options \in Options, Fail(path, options) PROVE RingInv'
  BY <1>3 DEF Fail, RingInv, TypeOK, SlotsOpen, NoLeak, Slots, Empty, NoFile
<1>4. CASE CacheClose
  BY <1>4, RingClose
<1>5. CASE UNCHANGED vars
  BY <1>5 DEF vars, RingInv, TypeOK, SlotsOpen, NoLeak, Slots, Empty, NoFile
<1> QED BY <1>1, <1>2, <1>3, <1>4, <1>5 DEF Next

(* Every open descriptor is in a slot, and every slot's is open (util.c).   *)
THEOREM RingHolds == Spec => []RingInv
BY InitRing, StepRing, PTL DEF Spec

(* The types of the ring and of the table of descriptors. *)
THEOREM TypeCorrect == Spec => []TypeOK
<1>1. RingInv => TypeOK
  BY DEF RingInv
<1> QED BY RingHolds, <1>1, PTL

(* A slot in use names the file its descriptor is open on, whatever was     *)
(* closed in between to make room.                                          *)
THEOREM SlotsOpenHolds == Spec => []SlotsOpen
<1>1. RingInv => SlotsOpen
  BY DEF RingInv
<1> QED BY RingHolds, <1>1, PTL

(* No descriptor is left open without a slot. *)
THEOREM NoLeakHolds == Spec => []NoLeak
<1>1. RingInv => NoLeak
  BY DEF RingInv
<1> QED BY RingHolds, <1>1, PTL

(* What cacheopen() returns is open on the file and with the options asked  *)
(* for.                                                                     *)
THEOREM RightFileHolds == Spec => RightFile
<1> DEFINE Right == got' # got /\ got'.fd # -1
                      => got'.fd \in Fds /\ open'[got'.fd] = [path |-> got'.path, options |-> got'.options]
<1>1. ASSUME RingInv, [Next]_vars PROVE [Right]_vars
  <2> SUFFICES ASSUME got' # got, got'.fd # -1
               PROVE  got'.fd \in Fds /\ open'[got'.fd] = [path |-> got'.path, options |-> got'.options]
    OBVIOUS
  <2>1. ASSUME NEW path \in Paths, NEW options \in Options, Hit(path, options)
        PROVE  got'.fd \in Fds /\ open'[got'.fd] = [path |-> got'.path, options |-> got'.options]
    <3>1. PICK i \in Slots : /\ Holds(i, path, options)
                             /\ got' = [path |-> path, options |-> options, fd |-> c_fileset[i].fd]
      BY <2>1 DEF Hit
    <3>2. open' = open
      BY <2>1 DEF Hit
    <3> QED BY <1>1, <3>1, <3>2, HeldIsOpen
  <2>2. ASSUME NEW path \in Paths, NEW options \in Options, Fill(path, options)
        PROVE  got'.fd \in Fds /\ open'[got'.fd] = [path |-> got'.path, options |-> got'.options]
    <3>1. PICK fd \in Fds :
            /\ open' = [Closed(c_fileset[c_index].fd) EXCEPT ![fd] = [path |-> path, options |-> options]]
            /\ got' = [path |-> path, options |-> options, fd |-> fd]
      BY <2>2 DEF Fill
    <3>2. DOMAIN Closed(c_fileset[c_index].fd) = Fds
      BY <1>1 DEF RingInv, TypeOK, Closed
    <3> QED BY <3>1, <3>2
  <2>3. ASSUME NEW path \in Paths, NEW options \in Options, Fail(path, options) PROVE FALSE
    BY <2>3 DEF Fail
  <2>4. ASSUME CacheClose PROVE FALSE
    BY <2>4 DEF CacheClose
  <2>5. ASSUME UNCHANGED vars PROVE FALSE
    BY <2>5 DEF vars
  <2> QED BY <1>1, <2>1, <2>2, <2>3, <2>4, <2>5 DEF Next
<1>2. RingInv /\ [Next]_vars => [Right]_vars
  BY <1>1
<1> QED BY RingHolds, <1>2, PTL DEF Spec, RightFile

(* The ring is sound: slots, descriptors and what cacheopen() returns agree *)
(* (util.c), for every size of the ring and every number of files.          *)
THEOREM RingSoundHolds == Spec => RingSound
BY SlotsOpenHolds, NoLeakHolds, RightFileHolds, PTL DEF RingSound

-----------------------------------------------------------------------------
(* One connection.                                                         *)

CONSTANTS Messages, MaxAgain, QUEUESIZE, LOW, Others, MaxNet, MaxOut

VARIABLES net, ios, queue, turn, x, pollout, connected, execs

Stream == INSTANCE Client WITH open <- connected

AnyUnit == Stream!Unit
Errors == {"none", "EAGAIN", "NETWORK", "LARGE", "OVERFLOW", "PIPE"}
IosType == [ibuf : Seq(AnyUnit), out : Nat, error : Errors, count : Nat]
Halves == {"none", "HAVE", "REQ", "BAD", "BIG", "NEG"}

(* The units of whole messages, the last of which may be half sent yet. *)
Frames(s, half) ==
  /\ \A j \in 1 .. Len(s) : s[j].i <= Stream!Size(s[j].m) /\ s[j].m \in Messages
  /\ s # <<>> => s[1].i = 1
  /\ \A j \in 1 .. Len(s) - 1 : s[j + 1].i = 1 <=> s[j].i = Stream!Size(s[j].m)
  /\ half \in Halves /\ (half # "none" => half \in Messages)
  /\ IF s = <<>> THEN half = "none"
     ELSE half = "none" <=> s[Len(s)].i = Stream!Size(s[Len(s)].m)

(* No message lies whole in the buffer.  KEEP ends a turn early, and an     *)
(* unknown message does not if the last write would have blocked.           *)
Scant(ibuf) == ibuf # <<>> => Len(ibuf) < Stream!Size(Head(ibuf).m)
NoneWhole(ibuf) == {"KEEP", "BAD"} \cap Messages = {} => Scant(ibuf)

ClientTypes ==
  /\ net \in [units : Seq(AnyUnit), half : Halves, eof : BOOLEAN]
  /\ ios \in IosType /\ ios.out <= MaxOut
  /\ queue \in 0 .. QUEUESIZE - 1
  /\ turn \in [cmd : {"none", "READABLE", "EXECUTE"}, at : {"none", "recv", "queue", "fail", "died"}]
  /\ x \in BOOLEAN /\ pollout \in BOOLEAN /\ connected \in BOOLEAN /\ execs \in 0 .. MaxAgain

(* What the turn under way may have counted before it reads: an empty read  *)
(* for each of the turns out of x_set.                                      *)
EmptyReads == IF turn.cmd = "EXECUTE" THEN execs ELSE 0

(* A connection ends for what the remote does, or when the turns out of     *)
(* x_set, of which each counts one empty read, are as many as may be.       *)
Lasts ==
  \/ net.eof \/ "BAD" \in Messages
  \/ ios.error \in {"LARGE", "OVERFLOW"} /\ (turn.at = "fail" \/ ~connected)
  \/ ios.error = "NETWORK" /\ execs = MaxAgain /\ (turn.at = "fail" \/ ~connected)
  \/ /\ ios.error \in {"none", "EAGAIN"} /\ connected /\ turn.at # "fail"
     /\ ios.count <= execs + 1 /\ ios.count <= MaxAgain
     /\ turn.at = "recv" /\ net.units = <<>> => ios.count <= EmptyReads

ClientInv ==
  /\ ClientTypes
  /\ Frames(ios.ibuf \o net.units, net.half)
  /\ ios.out > 0 \/ pollout => ios.error # "none"
  /\ ~connected => turn.at = "none"
  /\ connected /\ turn.at \in {"none", "queue"} => NoneWhole(ios.ibuf)
  /\ ~Others /\ connected /\ turn.at = "none" /\ ios.out > 0 => pollout
  /\ ios.count > 0 => Scant(ios.ibuf)
  /\ Lasts

-----------------------------------------------------------------------------
(* Sequences of units. *)

LEMMA UnitsJoined ==
  ASSUME NEW S, NEW p \in Seq(S), NEW q \in Seq(S)
  PROVE  /\ p \o q \in Seq(S) /\ Len(p \o q) = Len(p) + Len(q) /\ Len(p) \in Nat /\ Len(q) \in Nat
         /\ \A i \in 1 .. Len(p) : (p \o q)[i] = p[i]
         /\ \A i \in 1 .. Len(q) : (p \o q)[Len(p) + i] = q[i]
OBVIOUS

LEMMA UnitAdded ==
  ASSUME NEW S, NEW p \in Seq(S), NEW q \in Seq(S), NEW e \in S
  PROVE  p \o Append(q, e) = Append(p \o q, e)
<1>1. Append(q, e) = q \o <<e>> /\ Append(p \o q, e) = (p \o q) \o <<e>> /\ <<e>> \in Seq(S)
  <2>1. p \o q \in Seq(S)
    OBVIOUS
  <2> QED BY <2>1, AppendIsConcat
<1> QED BY <1>1, ConcatAssociative

LEMMA SizeIs == \A m : Stream!Size(m) \in 1 .. 2
BY DEF Stream!Size

Later(p, n, r) ==
  r \in Seq(AnyUnit) /\ Len(r) = Len(p) - n /\ \A i \in 1 .. Len(p) - n : r[i] = p[n + i]

LEMMA LaterIs ==
  ASSUME NEW p \in Seq(AnyUnit), NEW n \in 1 .. 2, n <= Len(p)
  PROVE  Later(p, n, SubSeq(p, n + 1, Len(p)))
BY DEF Later

(* The first message is taken out of the buffer. *)
LEMMA FramesLater ==
  ASSUME NEW p \in Seq(AnyUnit), NEW q \in Seq(AnyUnit), NEW half, Frames(p \o q, half),
         NEW n \in 1 .. 2, p # <<>>, n = Stream!Size(Head(p).m), n <= Len(p),
         NEW r, Later(p, n, r)
  PROVE  Frames(r \o q, half)
<1>1. n \in 1 .. 2 /\ Head(p) = p[1] /\ Len(p) \in Nat /\ Len(p) > 0 /\ DOMAIN p = 1 .. Len(p)
  BY SizeIs
<1>2. r \in Seq(AnyUnit) /\ Len(r) = Len(p) - n /\ \A i \in 1 .. Len(p) - n : r[i] = p[n + i]
  BY DEF Later
<1>3. PICK s, t : s = p \o q /\ t = r \o q
  OBVIOUS
<1>4. /\ s \in Seq(AnyUnit) /\ Len(s) = Len(p) + Len(q) /\ Len(q) \in Nat
      /\ \A i \in 1 .. Len(p) : s[i] = p[i]
      /\ \A i \in 1 .. Len(q) : s[Len(p) + i] = q[i]
  BY <1>3, UnitsJoined
<1>5. /\ t \in Seq(AnyUnit) /\ Len(t) = Len(r) + Len(q)
      /\ \A i \in 1 .. Len(r) : t[i] = r[i]
      /\ \A i \in 1 .. Len(q) : t[Len(r) + i] = q[i]
  <2>1. PICK u : u = AnyUnit
    OBVIOUS
  <2>2. r \in Seq(u) /\ q \in Seq(u)
    BY <1>2, <2>1
  <2>3. /\ r \o q \in Seq(u) /\ Len(r \o q) = Len(r) + Len(q)
        /\ \A i \in 1 .. Len(r) : (r \o q)[i] = r[i]
        /\ \A i \in 1 .. Len(q) : (r \o q)[Len(r) + i] = q[i]
    BY ONLY <2>2, UnitsJoined
  <2> QED BY <1>3, <2>1, <2>3
<1>6. Len(s) = Len(t) + n /\ Len(t) \in Nat /\ Len(s) \in Nat
  BY <1>1, <1>2, <1>4, <1>5
<1>7. ASSUME NEW i \in 1 .. Len(t) PROVE t[i] = s[n + i]
  <2>1. CASE i <= Len(r)
    <3>1. i \in 1 .. Len(r) /\ i \in 1 .. Len(p) - n /\ n + i \in 1 .. Len(p)
      BY <1>1, <1>2, <1>6, <2>1
    <3> QED BY <1>2, <1>4, <1>5, <3>1
  <2>2. CASE ~(i <= Len(r))
    <3>1. PICK j, a, b, d : j = i - Len(r) /\ a = Len(r) /\ b = Len(q) /\ d = Len(p)
      OBVIOUS
    <3>2. /\ a \in Nat /\ b \in Nat /\ d \in Nat /\ n \in 1 .. 2 /\ a = d - n
          /\ i \in 1 .. a + b /\ ~(i <= a) /\ j = i - a
      <4>1. a = d - n /\ i \in 1 .. a + b
        BY <1>2, <1>5, <3>1
      <4>2. d \in Nat /\ b \in Nat /\ n \in 1 .. 2 /\ n <= d
        BY <1>1, <1>4, <3>1
      <4> QED BY SMTT(30), <2>2, <3>1, <4>1, <4>2
    <3>3. i = a + j /\ n + i = d + j /\ j \in 1 .. b
      <4>1. i \in Int /\ i > a /\ i <= a + b /\ d = n + a
        BY ONLY <3>2
      <4>2. j \in Int /\ i = a + j
        BY ONLY <3>2, <4>1
      <4> QED BY ONLY <3>2, <4>1, <4>2
    <3>4. j \in 1 .. Len(q) /\ i = Len(r) + j /\ n + i = Len(p) + j
      BY <3>1, <3>3
    <3> QED BY <1>4, <1>5, <3>4
  <2> QED BY <2>1, <2>2
<1>8. /\ \A j \in 1 .. Len(s) : s[j].i <= Stream!Size(s[j].m) /\ s[j].m \in Messages
      /\ s[1].i = 1 /\ s # <<>>
      /\ \A j \in 1 .. Len(s) - 1 : s[j + 1].i = 1 <=> s[j].i = Stream!Size(s[j].m)
      /\ half \in Halves /\ (half # "none" => half \in Messages)
      /\ half = "none" <=> s[Len(s)].i = Stream!Size(s[Len(s)].m)
  <2>1. s # <<>>
    BY <1>1, <1>4
  <2> QED BY <1>3, <2>1 DEF Frames
<1>9. s[1] = p[1] /\ n = Stream!Size(s[1].m) /\ Len(s) >= n
  BY <1>1, <1>4, <1>6
(* The last unit of the message has its size. *)
<1>10. s[n].i = n /\ Stream!Size(s[n].m) = n
  <2>1. CASE n = 1
    BY <1>8, <1>9, <2>1
  <2>2. CASE n = 2
    <3>1. 1 \in 1 .. Len(s) - 1 /\ 2 \in 1 .. Len(s) /\ 1 + 1 = 2
      BY <1>6, <1>9, <2>2
    <3>2. s[2].i # 1
      BY <1>8, <1>9, <2>2, <3>1
    <3>3. s[2] \in AnyUnit
      BY <1>4, <3>1
    <3>4. s[2].i \in 1 .. 2
      BY <3>3 DEF AnyUnit, Stream!Unit
    <3>5. s[2].i <= Stream!Size(s[2].m)
      BY <1>8, <3>1
    <3>6. Stream!Size(s[2].m) \in 1 .. 2
      BY SizeIs
    <3> QED BY <2>2, <3>2, <3>4, <3>5, <3>6
  <2> QED BY <1>1, <2>1, <2>2
<1>11. \A j \in 1 .. Len(t) : t[j].i <= Stream!Size(t[j].m) /\ t[j].m \in Messages
  <2> TAKE j \in 1 .. Len(t)
  <2>1. n + j \in 1 .. Len(s) /\ t[j] = s[n + j]
    BY <1>1, <1>6, <1>7
  <2> QED BY <1>8, <2>1
<1>12. t # <<>> => t[1].i = 1
  <2> SUFFICES ASSUME t # <<>> PROVE t[1].i = 1
    OBVIOUS
  <2>1. 1 \in 1 .. Len(t) /\ n \in 1 .. Len(s) - 1
    BY <1>1, <1>5, <1>6
  <2>2. t[1] = s[n + 1]
    BY <1>7, <2>1
  <2> QED BY <1>8, <1>10, <2>1, <2>2
<1>13. \A j \in 1 .. Len(t) - 1 : t[j + 1].i = 1 <=> t[j].i = Stream!Size(t[j].m)
  <2> TAKE j \in 1 .. Len(t) - 1
  <2>1. j \in 1 .. Len(t) /\ j + 1 \in 1 .. Len(t) /\ n + j \in 1 .. Len(s) - 1 /\ n + (j + 1) = (n + j) + 1
    BY <1>1, <1>6
  <2>2. t[j] = s[n + j] /\ t[j + 1] = s[(n + j) + 1]
    BY <1>7, <2>1
  <2> QED BY <1>8, <2>1, <2>2
<1>14. IF t = <<>> THEN half = "none" ELSE half = "none" <=> t[Len(t)].i = Stream!Size(t[Len(t)].m)
  <2>1. CASE t = <<>>
    <3>1. Len(s) = n
      <4>1. Len(t) = 0
        BY ONLY <2>1, EmptySeq
      <4> QED BY <1>6, <4>1
    <3> QED BY <1>8, <1>10, <2>1, <3>1
  <2>2. CASE t # <<>>
    <3>0. Len(t) # 0
      <4>1. PICK u : u = AnyUnit
        OBVIOUS
      <4>2. t \in Seq(u)
        BY <1>5, <4>1
      <4> QED BY ONLY <2>2, <4>2, EmptySeq
    <3>1. Len(t) \in 1 .. Len(t) /\ n + Len(t) = Len(s)
      BY <1>1, <1>6, <3>0
    <3>2. t[Len(t)] = s[Len(s)]
      BY <1>7, <3>1
    <3> QED BY <1>8, <2>2, <3>2
  <2> QED BY <2>1, <2>2
<1>15. Frames(t, half)
  BY <1>8, <1>11, <1>12, <1>13, <1>14 DEF Frames
<1> QED BY <1>3, <1>15

(* The remote sends on. *)
LEMMA FramesMore ==
  ASSUME NEW s \in Seq(AnyUnit), NEW half, Frames(s, half), NEW e \in AnyUnit, e.m \in Messages,
         IF half = "none" THEN e.i = 1 ELSE e.i = 2 /\ e.m = half,
         NEW next, next = IF e.i = Stream!Size(e.m) THEN "none" ELSE e.m
  PROVE  Frames(Append(s, e), next)
<1>1. PICK t : t = Append(s, e)
  OBVIOUS
<1>2. /\ t \in Seq(AnyUnit) /\ Len(t) = Len(s) + 1 /\ t[Len(s) + 1] = e /\ Len(s) \in Nat
      /\ \A j \in 1 .. Len(s) : t[j] = s[j]
  BY <1>1
<1>3. /\ \A j \in 1 .. Len(s) : s[j].i <= Stream!Size(s[j].m) /\ s[j].m \in Messages
      /\ s # <<>> => s[1].i = 1
      /\ \A j \in 1 .. Len(s) - 1 : s[j + 1].i = 1 <=> s[j].i = Stream!Size(s[j].m)
      /\ half \in Halves
      /\ IF s = <<>> THEN half = "none"
         ELSE half = "none" <=> s[Len(s)].i = Stream!Size(s[Len(s)].m)
  BY DEF Frames
<1>4. e.m \in {"KEEP", "HAVE", "REQ", "BAD", "BIG", "NEG"} /\ e.i \in 1 .. 2
  BY DEF AnyUnit, Stream!Unit
<1>5. e.i <= Stream!Size(e.m) /\ next \in Halves /\ (next # "none" => next \in Messages)
      /\ (next = "none" <=> e.i = Stream!Size(e.m))
  BY <1>3, <1>4 DEF Stream!Size, Halves
<1>6. \A j \in 1 .. Len(t) : t[j].i <= Stream!Size(t[j].m) /\ t[j].m \in Messages
  <2> TAKE j \in 1 .. Len(t)
  <2>1. j \in 1 .. Len(s) \/ j = Len(s) + 1
    BY <1>2
  <2> QED BY <1>2, <1>3, <1>5, <2>1
<1>7. t # <<>> /\ t[1].i = 1
  <2>1. CASE s = <<>>
    BY SMTT(30), <1>2, <1>3, <2>1
  <2>2. CASE s # <<>>
    <3>1. 1 \in 1 .. Len(s)
      BY <1>2, <2>2
    <3> QED BY <1>2, <1>3, <2>2, <3>1
  <2> QED BY <1>2, <2>1, <2>2
<1>8. \A j \in 1 .. Len(t) - 1 : t[j + 1].i = 1 <=> t[j].i = Stream!Size(t[j].m)
  <2> TAKE j \in 1 .. Len(t) - 1
  <2>1. CASE j = Len(s)
    <3>1. s # <<>> /\ t[j] = s[Len(s)] /\ t[j + 1] = e
      BY <1>2, <2>1
    <3> QED BY <1>3, <3>1
  <2>2. CASE j # Len(s)
    <3>1. j \in 1 .. Len(s) - 1 /\ j \in 1 .. Len(s) /\ j + 1 \in 1 .. Len(s)
      BY <1>2, <2>2
    <3> QED BY <1>2, <1>3, <3>1
  <2> QED BY <2>1, <2>2
<1>9. next = "none" <=> t[Len(t)].i = Stream!Size(t[Len(t)].m)
  BY <1>2, <1>5
<1>10. Frames(t, next)
  BY <1>5, <1>6, <1>7, <1>8, <1>9 DEF Frames
<1> QED BY <1>1, <1>10

-----------------------------------------------------------------------------
(* What holds of the stream i and the units u in the middle of a turn.     *)
MidTurn(i, u) ==
  /\ i \in IosType /\ u \in Seq(AnyUnit) /\ i.out <= MaxOut /\ execs \in 0 .. MaxAgain
  /\ Frames(i.ibuf \o u, net.half)
  /\ i.out > 0 \/ pollout => i.error # "none"

(* The remote ends it ... *)
Excused == net.eof \/ "BAD" \in Messages

(* ... or it is read on, or it is kept, or given up.  The count is of reads *)
(* since something came, and there was nothing to handle since.             *)
Reading(i, u) ==
  /\ i.count > 0 => u = net.units /\ Scant(i.ibuf)
  /\ \/ Excused
     \/ /\ i.error \in {"none", "EAGAIN"} /\ i.count <= execs + 1 /\ i.count <= MaxAgain
        /\ u = <<>> => i.count <= EmptyReads

Idled(i, u) ==
  /\ i.count > 0 => Scant(i.ibuf)
  /\ \/ Excused
     \/ /\ i.error \in {"none", "EAGAIN"} /\ i.count <= MaxAgain
        /\ i.count <= 1 \/ (u = net.units /\ i.count <= execs + 1)

Doomed(i, u) ==
  /\ i.count > 0 => Scant(i.ibuf)
  /\ \/ Excused \/ i.error \in {"LARGE", "OVERFLOW"}
     \/ i.error = "NETWORK" /\ u = net.units /\ execs = MaxAgain

(* A read that found nothing. *)
Denied(i, u) ==
  /\ i.error \in {"EAGAIN", "NETWORK"}
  /\ IF i.error = "EAGAIN" THEN Idled(i, u) ELSE Doomed(i, u)

LEMMA ReadingIdled ==
  ASSUME NEW i, NEW u, MidTurn(i, u), Reading(i, u)
  PROVE  Idled(i, u)
<1>1. i.count \in Nat
  BY DEF MidTurn, IosType
<1> QED BY <1>1 DEF Reading, Idled

LEMMA NoUnits == \A p \in Seq(AnyUnit) : p # <<>> => Len(p) > 0 /\ Len(p) \in Nat
OBVIOUS

LEMMA AgainIs ==
  ASSUME MaxAgain \in Nat, NEW i \in IosType, NEW o, o = Stream!Again(i)
  PROVE  /\ o \in IosType /\ o.ibuf = i.ibuf /\ o.out = i.out /\ o.count = i.count + 1
         /\ o.error = IF i.count + 1 > MaxAgain THEN "NETWORK" ELSE "EAGAIN"
<1>1. PICK n, e : n = i.count + 1 /\ e = IF n > MaxAgain THEN "NETWORK" ELSE "EAGAIN"
  OBVIOUS
<1>2. n \in Nat /\ e \in Errors
  BY <1>1 DEF IosType, Errors
<1>3. o = [i EXCEPT !.count = n, !.error = e]
  BY <1>1 DEF Stream!Again
<1> QED BY <1>1, <1>2, <1>3 DEF IosType

(* kStream_fpeek() *)
LEMMA PeekIs ==
  ASSUME MaxAgain \in Nat \ {0}, NEW i, NEW u, MidTurn(i, u), Reading(i, u), NEW n \in 1 .. 2,
         n = 1 \/ (i.ibuf # <<>> /\ n = Stream!Size(Head(i.ibuf).m)),
         NEW S, S = Stream!Fpeek(u, i, n)
  PROVE  /\ MidTurn(S.ios, S.units)
         /\ i.ibuf # <<>> => S.ios.ibuf # <<>> /\ Head(S.ios.ibuf) = Head(i.ibuf)
         /\ S.ok => Len(S.ios.ibuf) >= n /\ Reading(S.ios, S.units)
         /\ ~S.ok => Len(S.ios.ibuf) < n /\ Scant(S.ios.ibuf) /\ Denied(S.ios, S.units)
         /\ ~S.ok /\ i.count = 0 => S.ios.error = "EAGAIN"
         /\ S.ok \in BOOLEAN
<1>1. /\ i \in IosType /\ u \in Seq(AnyUnit) /\ i.out <= MaxOut /\ execs \in 0 .. MaxAgain
      /\ Frames(i.ibuf \o u, net.half) /\ (i.out > 0 \/ pollout => i.error # "none")
  BY DEF MidTurn
<1>2. /\ i.ibuf \in Seq(AnyUnit) /\ Len(i.ibuf) \in Nat /\ i.count \in Nat /\ i.out \in Nat
      /\ i.error \in Errors
  BY <1>1 DEF IosType
<1>3. CASE Len(i.ibuf) >= n
  <2>1. S = [units |-> u, ios |-> i, ok |-> TRUE]
    BY <1>3 DEF Stream!Fpeek
  <2>2. S.units = u /\ S.ios = i /\ S.ok = TRUE
    BY <2>1
  <2> QED BY <1>3, <2>2
<1>4. CASE ~(Len(i.ibuf) >= n)
  <2>1. PICK full : full = [i EXCEPT !.ibuf = @ \o u, !.count = IF u = <<>> THEN @ ELSE 0]
    OBVIOUS
  <2>2. /\ full \in IosType /\ full.ibuf = i.ibuf \o u /\ full.out = i.out /\ full.error = i.error
        /\ full.count = IF u = <<>> THEN i.count ELSE 0
    <3>1. i.ibuf \o u \in Seq(AnyUnit) /\ (IF u = <<>> THEN i.count ELSE 0) \in Nat
      BY <1>1, <1>2
    <3> QED BY <1>1, <2>1, <3>1 DEF IosType
  <2>3. /\ <<>> \in Seq(AnyUnit) /\ Len(full.ibuf) \in Nat /\ full.ibuf \in Seq(AnyUnit)
        /\ full.ibuf \o <<>> = i.ibuf \o u
    <3>1. full.ibuf \in Seq(AnyUnit)
      BY <2>2 DEF IosType
    <3> QED BY <2>2, <3>1, ConcatEmptySeq
  <2>4. MidTurn(full, <<>>)
    BY <1>1, <2>2, <2>3 DEF MidTurn
  <2>5. i.ibuf # <<>> => full.ibuf # <<>> /\ Head(full.ibuf) = Head(i.ibuf)
    <3>1. ASSUME i.ibuf # <<>> PROVE full.ibuf # <<>> /\ Head(full.ibuf) = Head(i.ibuf)
      <4>1. Len(i.ibuf) > 0 /\ 1 \in 1 .. Len(i.ibuf)
        BY <1>2, <3>1, NoUnits
      <4>2. Len(full.ibuf) > 0 /\ full.ibuf[1] = i.ibuf[1]
        BY <1>1, <1>2, <2>2, <4>1, UnitsJoined
      <4> QED BY <1>2, <2>3, <3>1, <4>2
    <3> QED BY <3>1
  <2>6. Len(i.ibuf) < n
    BY <1>2, <1>4
  <2>7. CASE Len(full.ibuf) >= n
    <3>1. S = [units |-> <<>>, ios |-> full, ok |-> TRUE]
      BY <1>4, <2>1, <2>7 DEF Stream!Fpeek
    <3>2. S.units = <<>> /\ S.ios = full /\ S.ok = TRUE
      BY <3>1
    <3>3. u # <<>>
      <4>1. u = <<>> => full.ibuf = i.ibuf
        BY <1>2, <2>2, ConcatEmptySeq
      <4> QED BY <1>4, <2>7, <4>1
    <3>4. Reading(full, <<>>)
      <4>1. full.count = 0 /\ execs \in Nat /\ EmptyReads \in Nat
        BY <1>1, <2>2, <3>3 DEF EmptyReads
      <4> QED BY <2>2, <4>1 DEF Reading
    <3> QED BY <2>4, <2>5, <2>7, <3>2, <3>4
  <2>8. CASE ~(Len(full.ibuf) >= n)
    <3>1. PICK o : o = Stream!Again(full)
      OBVIOUS
    <3>2. /\ o \in IosType /\ o.ibuf = full.ibuf /\ o.out = full.out /\ o.count = full.count + 1
          /\ o.error = IF full.count + 1 > MaxAgain THEN "NETWORK" ELSE "EAGAIN"
      BY <2>2, <3>1, AgainIs
    <3>3. S = [units |-> <<>>, ios |-> o, ok |-> FALSE]
      BY <1>4, <2>1, <2>8, <3>1 DEF Stream!Fpeek
    <3>4. S.units = <<>> /\ S.ios = o /\ S.ok = FALSE
      BY <3>3
    <3>5. MidTurn(o, <<>>)
      BY <2>4, <3>2 DEF MidTurn
    <3>7. Len(full.ibuf) < n
      BY <2>3, <2>8
    <3>8. Scant(o.ibuf)
      <4>1. CASE n = 1
        <5>1. full.ibuf = <<>>
          BY <2>3, <3>7, <4>1, NoUnits
        <5> QED BY <3>2, <5>1 DEF Scant
      <4>2. CASE n # 1
        <5>1. Head(full.ibuf) = Head(i.ibuf) /\ n = Stream!Size(Head(i.ibuf).m)
          BY <2>5, <4>2
        <5> QED BY <3>2, <3>7, <5>1 DEF Scant
      <4> QED BY <4>1, <4>2
    <3>9. i.count = 0 => o.error = "EAGAIN"
      <4>1. i.count = 0 => full.count = 0
        BY <2>2
      <4>2. full.count = 0 => ~(full.count + 1 > MaxAgain)
        OBVIOUS
      <4> QED BY <3>2, <4>1, <4>2
    <3>10. Excused \/ (full.count <= execs /\ (full.count > 0 => u = <<>>))
      <4>1. CASE u # <<>>
        <5>1. full.count = 0
          BY <2>2, <4>1
        <5> QED BY <1>1, <5>1
      <4>2. CASE u = <<>>
        <5>1. Excused \/ i.count <= EmptyReads
          BY <4>2 DEF Reading
        <5>2. EmptyReads <= execs
          BY <1>1 DEF EmptyReads
        <5>3. EmptyReads \in Nat /\ execs \in Nat
          BY <1>1 DEF EmptyReads
        <5> QED BY <1>2, <2>2, <4>2, <5>1, <5>2, <5>3
      <4> QED BY <4>1, <4>2
    <3>11. full.count > 0 /\ u = <<>> => u = net.units
      BY <2>2 DEF Reading
    <3>12. PICK a, e : a = full.count /\ e = execs
      OBVIOUS
    <3>13. a \in Nat /\ e \in 0 .. MaxAgain /\ o.count = a + 1
      BY <1>1, <2>2, <3>2, <3>12 DEF IosType
    <3>14. ASSUME o.error = "EAGAIN" PROVE Denied(o, <<>>)
      <4>1. ~(a + 1 > MaxAgain)
        BY <3>2, <3>12, <3>14
      <4>2. Excused \/ (a + 1 <= e + 1 /\ (a = 0 \/ <<>> = net.units))
        BY <3>10, <3>11, <3>12, <3>13
      <4>3. a + 1 <= MaxAgain /\ (a = 0 => a + 1 <= 1)
        BY <3>13, <4>1
      <4>4. CASE a = 0
        <5>1. o.count <= 1
          BY <3>13, <4>4
        <5> QED BY <3>8, <3>13, <3>14, <4>3, <5>1 DEF Idled, Denied
      <4>5. CASE ~(a = 0)
        <5>1. Excused \/ (<<>> = net.units /\ o.count <= execs + 1)
          BY <3>12, <3>13, <4>2, <4>5
        <5> QED BY <3>8, <3>13, <3>14, <4>3, <5>1 DEF Idled, Denied
      <4> QED BY <4>4, <4>5
    <3>15. ASSUME o.error # "EAGAIN" PROVE Denied(o, <<>>)
      <4>1. a + 1 > MaxAgain /\ o.error = "NETWORK"
        BY <3>2, <3>12, <3>15
      <4>2. Excused \/ (a <= e /\ (a = 0 \/ <<>> = net.units))
        BY <3>10, <3>11, <3>12, <3>13
      <4>3. a > 0 /\ (a <= e => e = MaxAgain)
        BY <3>13, <4>1
      <4>4. Excused \/ (o.error = "NETWORK" /\ <<>> = net.units /\ execs = MaxAgain)
        <5>1. ~(a = 0)
          BY <3>13, <4>3
        <5> QED BY <3>12, <4>1, <4>2, <4>3, <5>1, Zenon
      <4>5. Doomed(o, <<>>)
        BY <3>8, <4>4, Zenon DEF Doomed
      <4> QED BY <4>1, <4>5 DEF Denied
    <3> QED BY <2>5, <3>2, <3>4, <3>5, <3>7, <3>8, <3>9, <3>14, <3>15
  <2> QED BY <2>7, <2>8
<1> QED BY <1>3, <1>4

(* kStream_fread() of a message whose head has been seen. *)
LEMMA ReadIs ==
  ASSUME MaxAgain \in Nat \ {0}, NEW i, NEW u, MidTurn(i, u), Reading(i, u), i.ibuf # <<>>,
         NEW n, n = Stream!Size(Head(i.ibuf).m), NEW S, S = Stream!Fread(u, i, n)
  PROVE  /\ MidTurn(S.ios, S.units)
         /\ S.ok => Reading(S.ios, S.units) /\ S.ios.count = 0
         /\ ~S.ok => NoneWhole(S.ios.ibuf) /\ Denied(S.ios, S.units)
         /\ Stream!Size(Head(i.ibuf).m) = 1 => S.ok
         /\ S.ok \in BOOLEAN
<1>1. PICK P, k : P = Stream!Fpeek(u, i, n) /\ k = n
  OBVIOUS
<1>2. k \in 1 .. 2
  BY <1>1, SizeIs
<1>3. /\ MidTurn(P.ios, P.units)
      /\ P.ios.ibuf # <<>> /\ Head(P.ios.ibuf) = Head(i.ibuf)
      /\ P.ok => Len(P.ios.ibuf) >= k /\ Reading(P.ios, P.units)
      /\ ~P.ok => Len(P.ios.ibuf) < k /\ Scant(P.ios.ibuf) /\ Denied(P.ios, P.units)
      /\ P.ok \in BOOLEAN
  BY <1>1, <1>2, PeekIs
<1>4. /\ P.ios \in IosType /\ P.units \in Seq(AnyUnit) /\ P.ios.ibuf \in Seq(AnyUnit)
      /\ Len(P.ios.ibuf) \in Nat
      /\ Frames(P.ios.ibuf \o P.units, net.half)
  BY <1>3 DEF MidTurn, IosType
<1>5. CASE ~P.ok
  <2>1. S = P
    BY <1>1, <1>5 DEF Stream!Fread
  <2>2. NoneWhole(P.ios.ibuf)
    BY <1>3, <1>5 DEF NoneWhole
  <2>3. k # 1
    BY <1>3, <1>4, <1>5, NoUnits
  <2> QED BY <1>1, <1>3, <1>5, <2>1, <2>2, <2>3
<1>6. CASE P.ok
  <2>1. PICK r : r = SubSeq(P.ios.ibuf, k + 1, Len(P.ios.ibuf))
    OBVIOUS
  <2>2. Later(P.ios.ibuf, k, r)
    BY <1>2, <1>3, <1>4, <1>6, <2>1, LaterIs
  <2>3. Frames(r \o P.units, net.half) /\ r \in Seq(AnyUnit)
    <3>1. k <= Len(P.ios.ibuf) /\ k = Stream!Size(Head(P.ios.ibuf).m)
      BY <1>1, <1>2, <1>3, <1>4, <1>6
    <3>2. Frames(r \o P.units, net.half)
      BY <1>2, <1>3, <1>4, <2>2, <3>1, FramesLater
    <3> QED BY <2>2, <3>2 DEF Later
  <2>4. PICK o : o = [P.ios EXCEPT !.ibuf = r]
    OBVIOUS
  <2>5. /\ o \in IosType /\ o.ibuf = r /\ o.out = P.ios.out /\ o.error = P.ios.error
        /\ o.count = P.ios.count
    BY <1>4, <2>3, <2>4 DEF IosType
  <2>6. P = [units |-> P.units, ios |-> P.ios, ok |-> P.ok]
    <3>1. CASE Len(i.ibuf) >= k
      BY <1>1, <3>1 DEF Stream!Fpeek
    <3>2. CASE ~(Len(i.ibuf) >= k)
      <4>1. PICK full, w : /\ full = [i EXCEPT !.ibuf = @ \o u, !.count = IF u = <<>> THEN @ ELSE 0]
                          /\ w = Stream!Again(full)
        OBVIOUS
      <4>2. P = IF Len(full.ibuf) >= k THEN [units |-> <<>>, ios |-> full, ok |-> TRUE]
                ELSE [units |-> <<>>, ios |-> w, ok |-> FALSE]
        BY <1>1, <3>2, <4>1 DEF Stream!Fpeek
      <4> QED BY <4>2
    <3> QED BY <3>1, <3>2
  <2>7. S.units = P.units /\ S.ios = o /\ S.ok
    <3>1. S = [P EXCEPT !.ios.ibuf = r]
      BY <1>1, <1>6, <2>1 DEF Stream!Fread
    <3>2. S.ios = [P.ios EXCEPT !.ibuf = r] /\ S.units = P.units /\ S.ok = P.ok
      BY <2>6, <3>1
    <3> QED BY <1>6, <2>4, <3>2
  <2>8. MidTurn(o, P.units)
    BY <1>3, <2>3, <2>5 DEF MidTurn
  <2>9. P.ios.count = 0
    <3>1. P.ios.count \in Nat /\ Len(P.ios.ibuf) >= k /\ k = Stream!Size(Head(P.ios.ibuf).m)
      BY <1>1, <1>3, <1>4, <1>6 DEF IosType
    <3>2. ~Scant(P.ios.ibuf)
      BY <1>2, <1>3, <1>4, <3>1 DEF Scant
    <3> QED BY <1>3, <1>6, <3>1, <3>2 DEF Reading
  <2>10. Reading(o, P.units)
    BY <1>3, <1>6, <2>5, <2>9 DEF Reading
  <2> QED BY <2>5, <2>7, <2>8, <2>9, <2>10
<1> QED BY <1>3, <1>5, <1>6

(* kStream_fwrite() of n units of which k go out. *)
LEMMA WriteIs ==
  ASSUME NEW i \in IosType, NEW n \in Nat, NEW gone \in BOOLEAN, NEW k \in Stream!Taken(gone, i.out + n),
         NEW o, o = Stream!Fwrite(i, n, k, gone)
  PROVE  /\ o \in IosType /\ o.ibuf = i.ibuf /\ o.count = i.count
         /\ o.out = i.out + n - k /\ (o.out > 0 => o.error # "none")
         /\ gone => o.error = "PIPE"
         /\ ~gone => o.error \in {i.error, "EAGAIN"}
         /\ i.error # "none" => o.error # "none"
<1>0. i.out \in Nat
  BY DEF IosType
<1>1. PICK m, w : m = i.out + n /\ w = [i EXCEPT !.out = m]
  OBVIOUS
<1>2. /\ m \in Nat /\ w \in IosType /\ w.ibuf = i.ibuf /\ w.count = i.count /\ w.out = m
      /\ w.error = i.error
  BY <1>1 DEF IosType
<1>3. CASE gone
  <2>1. o = [w EXCEPT !.error = "PIPE"] /\ k = 0
    BY <1>1, <1>3 DEF Stream!Fwrite, Stream!Flush, Stream!Taken
  <2>2. /\ o \in IosType /\ o.ibuf = w.ibuf /\ o.count = w.count /\ o.out = w.out /\ o.error = "PIPE"
    BY <1>2, <2>1 DEF IosType, Errors
  <2>3. o.out = i.out + n - k
    BY <1>0, <1>1, <1>2, <2>1, <2>2
  <2> QED BY <1>2, <1>3, <2>2, <2>3
<1>4. CASE ~gone
  <2>1. k \in 0 .. m
    BY <1>1, <1>4 DEF Stream!Taken
  <2>2. PICK d, e : d = m - k /\ e = IF k < m THEN "EAGAIN" ELSE i.error
    OBVIOUS
  <2>3. o = [w EXCEPT !.out = d, !.error = e]
    BY <1>1, <1>2, <1>4, <2>2 DEF Stream!Fwrite, Stream!Flush
  <2>4. d \in Nat /\ e \in Errors /\ (d > 0 => k < m) /\ (d > 0 => e = "EAGAIN")
    <3>1. d \in Nat /\ (d > 0 => k < m)
      BY <1>2, <2>1, <2>2
    <3> QED BY <2>2, <3>1 DEF IosType, Errors
  <2>5. /\ o \in IosType /\ o.ibuf = w.ibuf /\ o.count = w.count /\ o.out = d /\ o.error = e
    BY <1>2, <2>3, <2>4 DEF IosType
  <2>6. o.out = i.out + n - k
    <3>1. d = m - k /\ m = i.out + n /\ m \in Nat /\ k \in 0 .. m
      BY <1>1, <1>2, <2>1, <2>2
    <3> QED BY <1>0, <2>5, <3>1
  <2>7. e \in {i.error, "EAGAIN"} /\ (i.error # "none" => e # "none")
    BY <2>2
  <2>8. o.out > 0 => o.error # "none"
    BY <2>4, <2>5
  <2> QED BY <1>2, <1>4, <2>5, <2>6, <2>7, <2>8
<1> QED BY <1>3, <1>4

(* The end of a call of recv_peermsg() with r. *)
Ending(i, u, r) ==
  /\ MidTurn(i, u) /\ r \in {-2, -1, 0, 1}
  /\ r = 1 => Reading(i, u)
  /\ r # 1 => IF r < 0 /\ i.error # "EAGAIN" THEN Doomed(i, u)
              ELSE NoneWhole(i.ibuf) /\ Idled(i, u)

(* What a call of recv_peermsg() leaves alone, and its history. *)
Aside ==
  /\ execs' = IF net'.units = net.units THEN execs ELSE 0
  /\ UNCHANGED <<x, pollout, connected>>

LEMMA EndsKeeps ==
  ASSUME Stream!ClientAssumption, ClientInv, turn.at = "recv", NEW i, NEW u, NEW q \in 0 .. QUEUESIZE - 1, NEW r,
         Ending(i, u, r), Stream!Ends(u, i, q, r), Aside
  PROVE  ClientInv'
<1>1. /\ net' = [net EXCEPT !.units = u] /\ ios' = i /\ queue' = q
      /\ turn' = IF r = 1 THEN turn
                 ELSE [turn EXCEPT !.at = IF r < 0 /\ i.error # "EAGAIN" THEN "fail" ELSE "queue"]
      /\ UNCHANGED <<x, pollout, connected>>
  BY DEF Stream!Ends, Aside
<1>2. MidTurn(i, u) /\ r \in {-2, -1, 0, 1} /\ ClientTypes /\ connected
  BY DEF Ending, ClientInv
<1>3. net' \in [units : Seq(AnyUnit), half : Halves, eof : BOOLEAN]
      /\ net'.units = u /\ net'.half = net.half /\ net'.eof = net.eof
  BY <1>1, <1>2 DEF ClientTypes, MidTurn
<1>4. /\ turn' \in [cmd : {"none", "READABLE", "EXECUTE"}, at : {"none", "recv", "queue", "fail", "died"}]
      /\ turn'.at = IF r = 1 THEN "recv" ELSE IF r < 0 /\ i.error # "EAGAIN" THEN "fail" ELSE "queue"
      /\ turn'.cmd = turn.cmd
  BY <1>1, <1>2 DEF ClientTypes
<1>5. /\ execs' = IF u = net.units THEN execs ELSE 0
      /\ execs' \in 0 .. MaxAgain /\ execs' \in Nat /\ execs \in Nat /\ i.count \in Nat
  <2>1. execs' = IF u = net.units THEN execs ELSE 0
    BY <1>3 DEF Aside
  <2>2. execs \in 0 .. MaxAgain /\ i.count \in Nat /\ MaxAgain \in Nat
    BY <1>2 DEF MidTurn, IosType, Stream!ClientAssumption
  <2> QED BY <2>1, <2>2
<1>6. ClientTypes'
  BY <1>1, <1>2, <1>3, <1>4, <1>5 DEF ClientTypes, MidTurn
<1>7. Frames(ios'.ibuf \o net'.units, net'.half) /\ (ios'.out > 0 \/ pollout' => ios'.error # "none")
  BY <1>1, <1>2, <1>3 DEF MidTurn
<1>8. turn'.at \in {"none", "queue"} => NoneWhole(ios'.ibuf)
  BY <1>1, <1>4 DEF Ending
<1>9. CASE r = 1
  <2>1. Reading(i, u) /\ turn'.at = "recv"
    BY <1>4, <1>9 DEF Ending
  <2>2. Excused \/ (i.count <= execs' + 1 /\ (u = <<>> => i.count <= EmptyReads'))
    <3>1. CASE i.count = 0
      BY <1>5, <3>1 DEF EmptyReads
    <3>2. CASE i.count # 0
      <4>1. execs' = execs
        BY <1>5, <2>1, <3>2 DEF Reading
      <4> QED BY <1>4, <2>1, <4>1 DEF Reading, EmptyReads
    <3> QED BY <3>1, <3>2
  <2>3. Lasts'
    BY <1>1, <1>2, <1>3, <2>1, <2>2 DEF Lasts, Reading, Excused
  <2>4. ios'.count > 0 => Scant(ios'.ibuf)
    BY <1>1, <2>1 DEF Reading
  <2> QED BY <1>1, <1>2, <1>6, <1>7, <1>8, <2>1, <2>3, <2>4 DEF ClientInv
<1>10. CASE r # 1 /\ r < 0 /\ i.error # "EAGAIN"
  <2>1. Doomed(i, u) /\ turn'.at = "fail"
    BY <1>4, <1>10 DEF Ending
  <2>2. Lasts'
    BY <1>1, <1>3, <1>5, <2>1 DEF Lasts, Doomed, Excused
  <2>3. ios'.count > 0 => Scant(ios'.ibuf)
    BY <1>1, <2>1 DEF Doomed
  <2> QED BY <1>1, <1>2, <1>6, <1>7, <1>8, <2>1, <2>2, <2>3 DEF ClientInv
<1>11. CASE r # 1 /\ ~(r < 0 /\ i.error # "EAGAIN")
  <2>1. Idled(i, u) /\ turn'.at = "queue"
    BY <1>4, <1>11 DEF Ending
  <2>2. Excused \/ i.count <= execs' + 1
    <3>1. CASE i.count <= 1
      BY <1>5, <3>1
    <3>2. CASE ~(i.count <= 1)
      BY <1>5, <2>1, <3>2 DEF Idled
    <3> QED BY <3>1, <3>2
  <2>3. Lasts'
    BY <1>1, <1>2, <1>3, <2>1, <2>2 DEF Lasts, Idled, Excused
  <2>4. ios'.count > 0 => Scant(ios'.ibuf)
    BY <1>1, <2>1 DEF Idled
  <2> QED BY <1>1, <1>2, <1>6, <1>7, <1>8, <2>1, <2>3, <2>4 DEF ClientInv
<1> QED BY <1>9, <1>10, <1>11

(* btget ends at an assertion. *)
LEMMA DiesKeeps ==
  ASSUME Stream!ClientAssumption, ClientInv, turn.at = "recv", NEW i, NEW u, MidTurn(i, u), Reading(i, u),
         Stream!Dies(u, i), Aside
  PROVE  ClientInv'
<1>1. /\ net' = [net EXCEPT !.units = u] /\ ios' = i /\ queue' = queue
      /\ turn' = [turn EXCEPT !.at = "died"]
      /\ UNCHANGED <<x, pollout, connected>>
  BY DEF Stream!Dies, Aside
<1>2. MidTurn(i, u) /\ ClientTypes /\ connected
  BY DEF ClientInv
<1>3. net' \in [units : Seq(AnyUnit), half : Halves, eof : BOOLEAN]
      /\ net'.units = u /\ net'.half = net.half /\ net'.eof = net.eof
  BY <1>1, <1>2 DEF ClientTypes, MidTurn
<1>4. /\ turn' \in [cmd : {"none", "READABLE", "EXECUTE"}, at : {"none", "recv", "queue", "fail", "died"}]
      /\ turn'.at = "died"
  BY <1>1, <1>2 DEF ClientTypes
<1>5. /\ execs' = IF u = net.units THEN execs ELSE 0
      /\ execs' \in 0 .. MaxAgain /\ execs' \in Nat /\ execs \in Nat /\ i.count \in Nat
  <2>1. execs' = IF u = net.units THEN execs ELSE 0
    BY <1>3 DEF Aside
  <2>2. execs \in 0 .. MaxAgain /\ i.count \in Nat /\ MaxAgain \in Nat
    BY <1>2 DEF MidTurn, IosType, Stream!ClientAssumption
  <2> QED BY <2>1, <2>2
<1>6. ClientTypes'
  BY <1>1, <1>2, <1>3, <1>4, <1>5 DEF ClientTypes, MidTurn
<1>7. Frames(ios'.ibuf \o net'.units, net'.half) /\ (ios'.out > 0 \/ pollout' => ios'.error # "none")
  BY <1>1, <1>2, <1>3 DEF MidTurn
<1>8. Idled(i, u)
  BY ReadingIdled
<1>9. Excused \/ i.count <= execs' + 1
  <2>1. CASE i.count <= 1
    BY <1>5, <2>1
  <2>2. CASE ~(i.count <= 1)
    BY <1>5, <1>8, <2>2 DEF Idled
  <2> QED BY <2>1, <2>2
<1>10. Lasts'
  BY <1>1, <1>2, <1>3, <1>4, <1>8, <1>9 DEF Lasts, Idled, Excused
<1>11. ios'.count > 0 => Scant(ios'.ibuf)
  BY <1>1, <1>8 DEF Idled
<1> QED BY <1>1, <1>2, <1>4, <1>6, <1>7, <1>10, <1>11 DEF ClientInv

(* The same stream with an error of ours. *)
LEMMA Spoilt ==
  ASSUME NEW i, NEW u, MidTurn(i, u), i.count > 0 => Scant(i.ibuf), NEW e \in {"LARGE", "OVERFLOW"},
         NEW o, o = [i EXCEPT !.error = e], NEW r \in {-2, -1}
  PROVE  Ending(o, u, r)
<1>1. /\ o \in IosType /\ o.ibuf = i.ibuf /\ o.out = i.out /\ o.error = e /\ o.count = i.count
  BY DEF MidTurn, IosType, Errors
<1>2. MidTurn(o, u)
  BY <1>1 DEF MidTurn
<1>3. Doomed(o, u)
  BY <1>1 DEF Doomed
<1> QED BY <1>1, <1>2, <1>3 DEF Ending

(* Is another message waiting? *)
LEMMA NextWaitsKeeps ==
  ASSUME Stream!ClientAssumption, ClientInv, turn.at = "recv", NEW i, NEW u, MidTurn(i, u), Reading(i, u),
         i.count = 0, NEW q \in 0 .. QUEUESIZE - 1, Stream!NextWaits(u, i, q), Aside
  PROVE  ClientInv'
<1>1. PICK S, m, n : S = Stream!Fpeek(u, i, n) /\ m = Head(S.ios.ibuf).m /\ n = 1
  OBVIOUS
<1>2. /\ MidTurn(S.ios, S.units)
      /\ S.ok => Len(S.ios.ibuf) >= n /\ Reading(S.ios, S.units)
      /\ ~S.ok => Len(S.ios.ibuf) < n /\ Scant(S.ios.ibuf) /\ Denied(S.ios, S.units)
      /\ ~S.ok /\ i.count = 0 => S.ios.error = "EAGAIN"
      /\ S.ok \in BOOLEAN
  <2>1. n \in 1 .. 2 /\ MaxAgain \in Nat \ {0}
    BY <1>1 DEF Stream!ClientAssumption
  <2> QED BY <1>1, <2>1, PeekIs
<1>3. S.ios.ibuf \in Seq(AnyUnit) /\ Len(S.ios.ibuf) \in Nat
  BY <1>2 DEF MidTurn, IosType
<1>4. S.ok => Idled(S.ios, S.units) /\ (S.ios.count > 0 => Scant(S.ios.ibuf))
  BY <1>2, ReadingIdled DEF Idled
<1>5. CASE ~S.ok
  <2>1. Stream!Ends(S.units, S.ios, q, 0)
    BY <1>1, <1>5 DEF Stream!NextWaits
  <2>2. NoneWhole(S.ios.ibuf) /\ Idled(S.ios, S.units)
    BY <1>2, <1>5 DEF NoneWhole, Denied
  <2>3. Ending(S.ios, S.units, 0)
    BY <1>2, <2>2 DEF Ending
  <2> QED BY <2>1, <2>3, EndsKeeps
<1>6. CASE S.ok
  <2>1. \/ m \in {"BIG", "NEG"} /\ Stream!Ends(S.units, [S.ios EXCEPT !.error = "LARGE"], q, -1)
        \/ Stream!Ends(S.units, S.ios, q, 1)
        \/ Stream!Ends(S.units, S.ios, q, IF Len(S.ios.ibuf) >= Stream!Size(m) THEN 1 ELSE 0)
    BY <1>1, <1>6 DEF Stream!NextWaits
  <2>2. CASE Stream!Ends(S.units, [S.ios EXCEPT !.error = "LARGE"], q, -1)
    <3>1. PICK o : o = [S.ios EXCEPT !.error = "LARGE"]
      OBVIOUS
    <3>2. Stream!Ends(S.units, o, q, -1)
      BY <2>2, <3>1
    <3>3. Ending(o, S.units, -1)
      BY <1>2, <1>4, <1>6, <3>1, Spoilt
    <3> QED BY <3>2, <3>3, EndsKeeps
  <2>3. CASE Stream!Ends(S.units, S.ios, q, 1)
    <3>1. Ending(S.ios, S.units, 1)
      BY <1>2, <1>6 DEF Ending
    <3> QED BY <2>3, <3>1, EndsKeeps
  <2>4. CASE Stream!Ends(S.units, S.ios, q, IF Len(S.ios.ibuf) >= Stream!Size(m) THEN 1 ELSE 0)
    <3>1. PICK r : r = IF Len(S.ios.ibuf) >= Stream!Size(m) THEN 1 ELSE 0
      OBVIOUS
    <3>2. Stream!Ends(S.units, S.ios, q, r)
      BY <2>4, <3>1
    <3>3. r = 0 => NoneWhole(S.ios.ibuf)
      <4>1. Stream!Size(m) \in 1 .. 2
        BY SizeIs
      <4> QED BY <1>1, <1>3, <3>1, <4>1 DEF NoneWhole, Scant
    <3>4. Ending(S.ios, S.units, r)
      BY <1>2, <1>4, <1>6, <3>1, <3>3 DEF Ending
    <3> QED BY <3>2, <3>4, EndsKeeps
  <2> QED BY <2>1, <2>2, <2>3, <2>4
<1> QED BY <1>2, <1>5, <1>6

(* A read that failed ends the turn. *)
LEMMA FailedRead ==
  ASSUME NEW i, NEW u, MidTurn(i, u), Denied(i, u), NoneWhole(i.ibuf)
  PROVE  Ending(i, u, -1)
BY DEF Ending, Denied

LEMMA HandleKeeps ==
  ASSUME Stream!ClientAssumption, ClientInv, turn.at = "recv", NEW i, NEW u, MidTurn(i, u), Reading(i, u),
         i.count = 0, NEW m \in Messages, Stream!Handle(m, u, i), Aside
  PROVE  ClientInv'
<1>1. /\ ClientTypes /\ queue \in 0 .. QUEUESIZE - 1 /\ QUEUESIZE \in Nat \ {0} /\ Idled(i, u)
      /\ i \in IosType /\ u \in Seq(AnyUnit) /\ i.out <= MaxOut /\ net.eof \in BOOLEAN
      /\ Frames(i.ibuf \o u, net.half) /\ (i.out > 0 \/ pollout => i.error # "none")
      /\ (i.count > 0 => Scant(i.ibuf)) /\ execs \in 0 .. MaxAgain
  BY ReadingIdled DEF ClientInv, ClientTypes, MidTurn, Stream!ClientAssumption
<1>2. CASE m = "BAD"
  <2>1. Stream!Ends(u, i, queue, -2)
    BY <1>2 DEF Stream!Handle
  <2>2. Doomed(i, u) /\ NoneWhole(i.ibuf)
    BY <1>1, <1>2 DEF Doomed, Excused, NoneWhole
  <2>3. Ending(i, u, -2)
    BY <1>1, <2>2 DEF Ending
  <2> QED BY <1>1, <2>1, <2>3, EndsKeeps
<1>3. CASE m = "REQ"
  <2>1. CASE Stream!HasRoom
    <3>1. PICK q : q = queue + 1
      OBVIOUS
    <3>2. Stream!NextWaits(u, i, q)
      BY <1>3, <2>1, <3>1 DEF Stream!Handle
    <3>3. q \in 0 .. QUEUESIZE - 1
      BY <1>1, <2>1, <3>1 DEF Stream!HasRoom
    <3> QED BY <3>2, <3>3, NextWaitsKeeps
  <2>2. CASE ~Stream!HasRoom
    <3>1. PICK o : o = [i EXCEPT !.error = "OVERFLOW"]
      OBVIOUS
    <3>2. Stream!Ends(u, o, queue, -2)
      BY <1>3, <2>2, <3>1 DEF Stream!Handle
    <3>3. Ending(o, u, -2)
      BY <1>1, <3>1, Spoilt
    <3> QED BY <1>1, <3>2, <3>3, EndsKeeps
  <2> QED BY <2>1, <2>2
<1>4. CASE m # "BAD" /\ m # "REQ"
  <2>1. PICK n \in 0 .. 1, gone \in Stream!Refused :
          \E k \in Stream!Taken(gone, i.out + n) :
            /\ i.out + n - k <= MaxOut
            /\ LET o == IF n = 0 THEN i ELSE Stream!Fwrite(i, n, k, gone) IN
               \/ Stream!NextWaits(u, o, queue)
               \/ n = 1 /\ gone /\ Stream!Ends(u, o, queue, -1)
    BY <1>4 DEF Stream!Handle
  <2>2. PICK k \in Stream!Taken(gone, i.out + n) :
            /\ i.out + n - k <= MaxOut
            /\ LET o == IF n = 0 THEN i ELSE Stream!Fwrite(i, n, k, gone) IN
               \/ Stream!NextWaits(u, o, queue)
               \/ n = 1 /\ gone /\ Stream!Ends(u, o, queue, -1)
    BY <2>1
  <2>3. PICK o : o = IF n = 0 THEN i ELSE Stream!Fwrite(i, n, k, gone)
    OBVIOUS
  <2>4. Stream!NextWaits(u, o, queue) \/ (n = 1 /\ gone /\ Stream!Ends(u, o, queue, -1))
    BY <2>2, <2>3
  <2>5. gone \in BOOLEAN /\ (gone => net.eof)
    BY <1>1 DEF Stream!Refused
  <2>6. /\ o \in IosType /\ o.ibuf = i.ibuf /\ o.count = i.count /\ o.out <= MaxOut
        /\ o.out > 0 \/ pollout => o.error # "none"
        /\ n = 1 /\ gone => o.error = "PIPE"
        /\ ~gone => o.error \in {i.error, "EAGAIN"}
    <3>1. CASE n = 0
      BY <1>1, <2>3, <3>1
    <3>2. CASE n = 1
      <4>1. o = Stream!Fwrite(i, n, k, gone) /\ n \in Nat
        BY <2>3, <3>2
      <4>2. /\ o \in IosType /\ o.ibuf = i.ibuf /\ o.count = i.count
            /\ o.out = i.out + n - k /\ (o.out > 0 => o.error # "none")
            /\ gone => o.error = "PIPE"
            /\ ~gone => o.error \in {i.error, "EAGAIN"}
            /\ i.error # "none" => o.error # "none"
        BY <1>1, <2>5, <4>1, WriteIs
      <4> QED BY <1>1, <2>2, <4>2
    <3> QED BY <3>1, <3>2
  <2>7. MidTurn(o, u)
    BY <1>1, <2>6 DEF MidTurn
  <2>8. CASE Stream!NextWaits(u, o, queue)
    <3>1. Reading(o, u) /\ o.count = 0
      <4>1. CASE gone
        BY <2>5, <2>6, <4>1 DEF Reading, Excused
      <4>2. CASE ~gone
        BY <2>6, <4>2 DEF Reading
      <4> QED BY <2>5, <4>1, <4>2
    <3> QED BY <1>1, <2>7, <2>8, <3>1, NextWaitsKeeps
  <2>9. CASE n = 1 /\ gone /\ Stream!Ends(u, o, queue, -1)
    <3>1. Doomed(o, u) /\ o.error = "PIPE"
      BY <2>5, <2>6, <2>9 DEF Doomed, Excused
    <3>2. Ending(o, u, -1)
      BY <2>7, <3>1 DEF Ending
    <3> QED BY <1>1, <2>9, <3>2, EndsKeeps
  <2> QED BY <2>4, <2>8, <2>9
<1> QED BY <1>2, <1>3, <1>4

(* The head of what is buffered is the first unit of a message of the remote. *)
LEMMA HeadIs ==
  ASSUME NEW p \in Seq(AnyUnit), NEW q \in Seq(AnyUnit), NEW half, Frames(p \o q, half), p # <<>>
  PROVE  Head(p).m \in Messages /\ Head(p).i = 1
<1>1. Len(p) > 0 /\ 1 \in 1 .. Len(p) /\ Head(p) = p[1]
  BY NoUnits
<1>2. PICK s : s = p \o q
  OBVIOUS
<1>3. s[1] = p[1] /\ 1 \in 1 .. Len(s) /\ s # <<>>
  BY <1>1, <1>2, UnitsJoined
<1> QED BY <1>1, <1>2, <1>3 DEF Frames

LEMMA RecvKeeps == Stream!ClientAssumption /\ ClientInv /\ Stream!RecvPeermsg => ClientInv'
<1> SUFFICES ASSUME Stream!ClientAssumption, ClientInv, Stream!RecvPeermsg PROVE ClientInv'
  OBVIOUS
<1>1. PICK S, m, body : /\ S = Stream!Fpeek(net.units, ios, 1) /\ m = Head(S.ios.ibuf).m
                        /\ body = Stream!Fread(S.units, S.ios, Stream!Size(m))
  OBVIOUS
<1>2. /\ turn.at = "recv" /\ Aside
      /\ IF ~S.ok THEN Stream!Ends(S.units, S.ios, queue, -1)
         ELSE IF m = "BIG" THEN Stream!Ends(S.units, [S.ios EXCEPT !.error = "LARGE"], queue, -1)
         ELSE IF m = "NEG" THEN Stream!Dies(S.units, S.ios)
         ELSE IF m = "KEEP" THEN Stream!Ends(body.units, body.ios, queue, 0)
         ELSE IF ~body.ok THEN Stream!Ends(body.units, body.ios, queue, -1)
         ELSE Stream!Handle(m, body.units, body.ios)
  BY <1>1 DEF Stream!RecvPeermsg, Aside
<1>3. MaxAgain \in Nat \ {0} /\ queue \in 0 .. QUEUESIZE - 1 /\ connected
  BY <1>2 DEF ClientInv, ClientTypes, Stream!ClientAssumption
<1>4. MidTurn(ios, net.units) /\ Reading(ios, net.units)
  BY <1>2, <1>3 DEF ClientInv, ClientTypes, MidTurn, Lasts, Reading, Excused
<1>5. /\ MidTurn(S.ios, S.units)
      /\ S.ok => Len(S.ios.ibuf) >= 1 /\ Reading(S.ios, S.units)
      /\ ~S.ok => Scant(S.ios.ibuf) /\ Denied(S.ios, S.units)
      /\ S.ok \in BOOLEAN
  <2>1. PICK n \in 1 .. 2 : n = 1
    OBVIOUS
  <2>2. S = Stream!Fpeek(net.units, ios, n)
    BY <1>1, <2>1
  <2> QED BY <1>3, <1>4, <2>1, <2>2, PeekIs
<1>6. S.ios.ibuf \in Seq(AnyUnit) /\ Len(S.ios.ibuf) \in Nat /\ S.units \in Seq(AnyUnit)
      /\ Frames(S.ios.ibuf \o S.units, net.half)
  BY <1>5 DEF MidTurn, IosType
<1>7. CASE ~S.ok
  <2>1. Ending(S.ios, S.units, -1)
    BY <1>5, <1>7, FailedRead DEF NoneWhole
  <2> QED BY <1>2, <1>3, <1>7, <2>1, EndsKeeps
<1>8. CASE S.ok
  <2>1. S.ios.ibuf # <<>>
    BY <1>5, <1>6, <1>8
  <2>2. m \in Messages
    BY <1>1, <1>6, <2>1, HeadIs
  <2>3. /\ MidTurn(body.ios, body.units)
        /\ body.ok => Reading(body.ios, body.units) /\ body.ios.count = 0
        /\ ~body.ok => NoneWhole(body.ios.ibuf) /\ Denied(body.ios, body.units)
        /\ Stream!Size(m) = 1 => body.ok
    <3>1. PICK i, u, n : i = S.ios /\ u = S.units /\ n = Stream!Size(m)
      OBVIOUS
    <3>2. MidTurn(i, u) /\ Reading(i, u) /\ i.ibuf # <<>> /\ m = Head(i.ibuf).m
      BY <1>1, <1>5, <1>8, <2>1, <3>1
    <3>3. n = Stream!Size(Head(i.ibuf).m) /\ body = Stream!Fread(u, i, n)
      BY <1>1, <3>1, <3>2
    <3>4. MaxAgain \in Nat \ {0}
      BY <1>3
    <3>5. /\ MidTurn(body.ios, body.units)
          /\ body.ok => Reading(body.ios, body.units) /\ body.ios.count = 0
          /\ ~body.ok => NoneWhole(body.ios.ibuf) /\ Denied(body.ios, body.units)
          /\ Stream!Size(Head(i.ibuf).m) = 1 => body.ok
      BY ONLY <3>2, <3>3, <3>4, ReadIs
    <3> QED BY <3>2, <3>5
  <2>4. CASE m = "BIG"
    <3>1. PICK o : o = [S.ios EXCEPT !.error = "LARGE"]
      OBVIOUS
    <3>2. Ending(o, S.units, -1)
      <4>1. S.ios.count > 0 => Scant(S.ios.ibuf)
        BY <1>5, <1>8 DEF Reading
      <4> QED BY <1>5, <3>1, <4>1, Spoilt
    <3>3. Stream!Ends(S.units, o, queue, -1)
      BY <1>2, <1>8, <2>4, <3>1
    <3> QED BY <1>2, <1>3, <3>2, <3>3, EndsKeeps
  <2>5. CASE m = "KEEP"
    <3>1. Stream!Ends(body.units, body.ios, queue, 0)
      BY <1>2, <1>8, <2>5
    <3>2. Idled(body.ios, body.units)
      <4>1. Stream!Size(m) = 1
        BY <2>5 DEF Stream!Size
      <4> QED BY <2>3, <4>1, ReadingIdled
    <3>3. Ending(body.ios, body.units, 0)
      BY <2>2, <2>3, <2>5, <3>2 DEF Ending, NoneWhole
    <3> QED BY <1>2, <1>3, <3>1, <3>3, EndsKeeps
  <2>6. CASE m \notin {"BIG", "NEG", "KEEP"} /\ ~body.ok
    <3>1. Ending(body.ios, body.units, -1)
      BY <2>3, <2>6, FailedRead
    <3> QED BY <1>2, <1>3, <1>8, <2>6, <3>1, EndsKeeps
  <2>7. CASE m \notin {"BIG", "NEG", "KEEP"} /\ body.ok
    <3>1. Stream!Handle(m, body.units, body.ios)
      BY <1>2, <1>8, <2>7
    <3> QED BY <1>2, <2>2, <2>3, <2>7, <3>1, HandleKeeps
  <2>8. CASE m = "NEG"
    <3>1. Stream!Dies(S.units, S.ios)
      BY <1>2, <1>8, <2>8
    <3> QED BY <1>2, <1>5, <1>8, <3>1, DiesKeeps
  <2> QED BY <2>4, <2>5, <2>6, <2>7, <2>8
<1> QED BY <1>5, <1>7, <1>8

(* kStream_flush() *)
LEMMA FlushIs ==
  ASSUME NEW i \in IosType, NEW k \in 0 .. i.out, NEW gone \in BOOLEAN,
         NEW o, o = Stream!Flush(i, k, gone)
  PROVE  /\ o \in IosType /\ o.ibuf = i.ibuf /\ o.out <= i.out /\ o.count = i.count
         /\ i.error # "none" => o.error # "none"
         /\ ~gone => o.error \in {i.error, "EAGAIN"}
<1>1. CASE gone
  <2>1. o = [i EXCEPT !.error = "PIPE"]
    BY <1>1 DEF Stream!Flush
  <2>2. i.out \in Nat
    BY DEF IosType
  <2>3. o \in IosType /\ o.ibuf = i.ibuf /\ o.out = i.out /\ o.error = "PIPE" /\ o.count = i.count
    BY <2>1 DEF IosType, Errors
  <2>4. ~gone => o.error \in {i.error, "EAGAIN"}
    BY <1>1, Zenon
  <2> QED BY <2>2, <2>3, <2>4
<1>2. CASE ~gone
  <2>1. PICK d, e : d = i.out - k /\ e = IF k < i.out THEN "EAGAIN" ELSE i.error
    OBVIOUS
  <2>2. o = [i EXCEPT !.out = d, !.error = e]
    BY <1>2, <2>1 DEF Stream!Flush
  <2>3. i.out \in Nat /\ i.error \in Errors
    BY DEF IosType
  <2>4. d \in Nat /\ d <= i.out
    BY <2>1, <2>3
  <2>5. e \in Errors /\ (i.error # "none" => e # "none") /\ e \in {i.error, "EAGAIN"}
    BY <2>1, <2>3 DEF Errors
  <2>6. o \in IosType /\ o.ibuf = i.ibuf /\ o.out = d /\ o.error = e /\ o.count = i.count
    BY <2>2, <2>4, <2>5 DEF IosType
  <2> QED BY <2>4, <2>5, <2>6
<1> QED BY <1>1, <1>2

(* The end of a turn with r. *)
LEMMA ReturnKeeps ==
  ASSUME ClientInv, NEW i, MidTurn(i, net.units), NEW r \in {-1, 0, 1},
         IF r < 0 THEN Doomed(i, net.units) ELSE NoneWhole(i.ibuf) /\ Idled(i, net.units),
         Stream!Return(i, r), UNCHANGED net, queue' \in 0 .. QUEUESIZE - 1
  PROVE  ClientInv'
<1>1. /\ ios' = i /\ turn' = [cmd |-> "none", at |-> "none"] /\ pollout' = (pollout \/ i.out > 0)
      /\ connected' = (r >= 0) /\ x' = (x /\ Stream!KeepsX(r)) /\ net' = net /\ execs' = execs
  BY DEF Stream!Return, Stream!NoTurn, Stream!Watch
<1>2. /\ i \in IosType /\ net.units \in Seq(AnyUnit) /\ i.out <= MaxOut
      /\ Frames(i.ibuf \o net.units, net.half)
      /\ i.out > 0 \/ pollout => i.error # "none"
      /\ ClientTypes
  BY DEF MidTurn, ClientInv
<1>3. turn' \in [cmd : {"none", "READABLE", "EXECUTE"}, at : {"none", "recv", "queue", "fail", "died"}]
      /\ turn'.at = "none" /\ i.out \in Nat
  BY <1>1, <1>2 DEF IosType
<1>4. /\ x' \in BOOLEAN /\ pollout' \in BOOLEAN /\ connected' \in BOOLEAN
      /\ pollout' <=> pollout \/ i.out > 0
      /\ connected' <=> ~(r < 0)
  <2>1. pollout \in BOOLEAN /\ x \in BOOLEAN
    BY <1>2 DEF ClientTypes
  <2>2. pollout' \in BOOLEAN /\ (pollout' <=> pollout \/ i.out > 0)
    BY <1>1, <2>1, Zenon
  <2>3. connected' \in BOOLEAN /\ (connected' <=> r >= 0)
    <3>1. connected' = (r >= 0)
      BY <1>1
    <3>2. CASE r >= 0
      <4>1. connected' = TRUE
        BY <3>1, <3>2
      <4> QED BY <3>2, <4>1
    <3>3. CASE ~(r >= 0)
      <4>1. (r >= 0) = FALSE
        BY <3>3, SMT
      <4>2. connected' = FALSE
        BY <3>1, <4>1, Zenon
      <4> QED BY <3>3, <4>2
    <3> QED BY <3>2, <3>3
  <2>4. x' \in BOOLEAN
    BY <1>1, <2>1, Zenon
  <2>5. r >= 0 <=> ~(r < 0)
    OBVIOUS
  <2> QED BY <2>2, <2>3, <2>4, <2>5
<1>5. ClientTypes'
  BY <1>1, <1>2, <1>3, <1>4 DEF ClientTypes
<1>6. /\ Frames(ios'.ibuf \o net'.units, net'.half) /\ (ios'.out > 0 \/ pollout' => ios'.error # "none")
      /\ (ios'.out > 0 => pollout')
  BY <1>1, <1>2
<1>7. connected' => NoneWhole(ios'.ibuf)
  BY <1>1, <1>4
<1>8. Lasts' /\ (ios'.count > 0 => Scant(ios'.ibuf))
  <2>1. CASE r < 0
    <3>1. ~connected'
      BY <1>4, <2>1
    <3> QED BY <1>1, <2>1, <3>1 DEF Lasts, Doomed, Excused
  <2>2. CASE ~(r < 0)
    <3>1. Idled(i, net.units) /\ connected'
      BY <1>4, <2>2
    <3>2. i.count \in Nat /\ execs \in Nat
      BY <1>2 DEF ClientTypes, IosType
    <3>3. Excused \/ i.count <= execs + 1
      BY <3>1, <3>2 DEF Idled
    <3> QED BY <1>1, <1>3, <3>1, <3>3 DEF Lasts, Idled, Excused
  <2> QED BY <2>1, <2>2
<1> QED BY <1>3, <1>5, <1>6, <1>7, <1>8 DEF ClientInv

LEMMA ProcessQueueKeeps == Stream!ClientAssumption /\ ClientInv /\ Stream!ProcessQueue => ClientInv'
<1> SUFFICES ASSUME Stream!ClientAssumption, ClientInv, Stream!ProcessQueue PROVE ClientInv'
  OBVIOUS
<1>1. /\ turn.at = "queue" /\ UNCHANGED net /\ connected
      /\ ClientTypes /\ ios \in IosType /\ queue \in 0 .. QUEUESIZE - 1 /\ QUEUESIZE \in Nat \ {0}
      /\ net.eof \in BOOLEAN /\ NoneWhole(ios.ibuf) /\ net.units \in Seq(AnyUnit)
  BY DEF ClientInv, ClientTypes, Stream!ProcessQueue, Stream!ClientAssumption
<1>2. MidTurn(ios, net.units) /\ Idled(ios, net.units)
  BY <1>1 DEF ClientInv, ClientTypes, MidTurn, Lasts, Idled, Excused
<1>3. CASE ios.out > LOW \/ queue = 0
  <2>1. Stream!Return(ios, 0) /\ UNCHANGED queue
    BY <1>3 DEF Stream!ProcessQueue
  <2> QED BY <1>1, <1>2, <2>1, ReturnKeeps
<1>4. CASE ~(ios.out > LOW \/ queue = 0)
  <2>1. PICK gone \in Stream!Refused : queue' = queue - 1 /\
          \E k \in Stream!Taken(gone, ios.out + 2) :
            /\ ios.out + 2 - k <= MaxOut
            /\ Stream!Return(Stream!Fwrite(ios, 2, k, gone),
                 IF gone THEN -1 ELSE IF turn.cmd = "EXECUTE" THEN 1 ELSE 0)
    BY <1>4 DEF Stream!ProcessQueue
  <2>2. PICK k \in Stream!Taken(gone, ios.out + 2) :
            /\ ios.out + 2 - k <= MaxOut
            /\ Stream!Return(Stream!Fwrite(ios, 2, k, gone),
                 IF gone THEN -1 ELSE IF turn.cmd = "EXECUTE" THEN 1 ELSE 0)
    BY <2>1
  <2>3. PICK o, r : /\ o = Stream!Fwrite(ios, 2, k, gone)
                    /\ r = IF gone THEN -1 ELSE IF turn.cmd = "EXECUTE" THEN 1 ELSE 0
    OBVIOUS
  <2>4. gone \in BOOLEAN /\ (gone => net.eof)
    BY <1>1 DEF Stream!Refused
  <2>5. /\ o \in IosType /\ o.ibuf = ios.ibuf /\ o.count = ios.count
        /\ o.out = ios.out + 2 - k /\ (o.out > 0 => o.error # "none")
        /\ gone => o.error = "PIPE"
        /\ ~gone => o.error \in {ios.error, "EAGAIN"}
        /\ ios.error # "none" => o.error # "none"
    <3>1. PICK n \in Nat : n = 2
      OBVIOUS
    <3>2. k \in Stream!Taken(gone, ios.out + n) /\ o = Stream!Fwrite(ios, n, k, gone)
      BY <2>3, <3>1
    <3>3. /\ o \in IosType /\ o.ibuf = ios.ibuf /\ o.count = ios.count
          /\ o.out = ios.out + n - k /\ (o.out > 0 => o.error # "none")
          /\ gone => o.error = "PIPE"
          /\ ~gone => o.error \in {ios.error, "EAGAIN"}
          /\ ios.error # "none" => o.error # "none"
      BY <1>1, <2>4, <3>2, WriteIs
    <3> QED BY <3>1, <3>3
  <2>6. MidTurn(o, net.units)
    <3>1. o.out <= MaxOut /\ (pollout => ios.error # "none")
      BY <1>2, <2>2, <2>5 DEF MidTurn
    <3> QED BY <1>2, <2>5, <3>1 DEF MidTurn
  <2>7. r \in {-1, 0, 1} /\ (r < 0 <=> gone)
    <3>1. CASE gone
      BY <2>3, <3>1
    <3>2. CASE ~gone
      BY <2>3, <3>2
    <3> QED BY <2>4, <3>1, <3>2
  <2>8. IF r < 0 THEN Doomed(o, net.units) ELSE NoneWhole(o.ibuf) /\ Idled(o, net.units)
    <3>1. CASE gone
      BY <1>2, <2>4, <2>5, <2>7, <3>1 DEF Doomed, Idled, Excused
    <3>2. CASE ~gone
      BY <1>1, <1>2, <2>5, <2>7, <3>2 DEF Idled
    <3> QED BY <2>4, <3>1, <3>2
  <2>9. queue' \in 0 .. QUEUESIZE - 1
    BY <1>1, <1>4, <2>1
  <2>10. Stream!Return(o, r)
    BY <2>2, <2>3
  <2> QED BY <1>1, <2>6, <2>7, <2>8, <2>9, <2>10, ReturnKeeps
<1> QED BY <1>3, <1>4

LEMMA FailTurnKeeps == ClientInv /\ Stream!FailTurn => ClientInv'
<1> SUFFICES ASSUME ClientInv, Stream!FailTurn PROVE ClientInv'
  OBVIOUS
<1>1. turn.at = "fail" /\ Stream!Return(ios, -1) /\ UNCHANGED <<net, queue>> /\ connected
  BY DEF Stream!FailTurn, ClientInv
<1>2. MidTurn(ios, net.units) /\ Doomed(ios, net.units) /\ queue' \in 0 .. QUEUESIZE - 1
  BY <1>1 DEF ClientInv, ClientTypes, MidTurn, Lasts, Doomed, Excused
<1> QED BY <1>1, <1>2, ReturnKeeps

LEMMA BeginKeeps == Stream!ClientAssumption /\ ClientInv /\ (Stream!Readable \/ Stream!Execute) => ClientInv'
<1> SUFFICES ASSUME Stream!ClientAssumption, ClientInv, Stream!Readable \/ Stream!Execute PROVE ClientInv'
  OBVIOUS
<1>1. PICK cmd \in {"READABLE", "EXECUTE"} :
        /\ connected /\ turn.at = "none" /\ turn' = [cmd |-> cmd, at |-> "recv"]
        /\ UNCHANGED <<net, ios, queue, x, pollout, connected>>
        /\ IF cmd = "READABLE" THEN (net.units # <<>> \/ net.eof) /\ execs' = execs
           ELSE execs' = execs + (IF execs < MaxAgain THEN 1 ELSE 0)
  BY DEF Stream!Readable, Stream!Execute, Stream!Begin, Stream!Idle, Stream!NoTurn
<1>2. turn' \in [cmd : {"none", "READABLE", "EXECUTE"}, at : {"none", "recv", "queue", "fail", "died"}]
      /\ turn'.at = "recv" /\ turn'.cmd = cmd
  BY <1>1
<1>3. /\ execs \in 0 .. MaxAgain /\ execs' \in 0 .. MaxAgain /\ execs <= execs' /\ ios.count \in Nat
      /\ MaxAgain \in Nat
  <2>1. execs \in 0 .. MaxAgain /\ ios.count \in Nat /\ MaxAgain \in Nat
    BY DEF ClientInv, ClientTypes, IosType, Stream!ClientAssumption
  <2> QED BY <1>1, <2>1
<1>4. ClientTypes' /\ Frames(ios'.ibuf \o net'.units, net'.half)
  BY <1>1, <1>2, <1>3 DEF ClientInv, ClientTypes
(* A turn out of x_set is one more, unless there have been too many.        *)
<1>5. Excused \/ (ios.count <= execs' + 1 /\ (net.units = <<>> => ios.count <= EmptyReads'))
  <2>1. Excused \/ (ios.count <= execs + 1 /\ ios.count <= MaxAgain)
    BY <1>1 DEF ClientInv, Lasts, Excused
  <2>2. CASE cmd = "READABLE"
    BY <1>1, <2>1, <2>2 DEF Excused
  <2>3. CASE cmd # "READABLE"
    <3>1. EmptyReads' = execs'
      BY <1>1, <1>2, <2>3 DEF EmptyReads
    <3>2. Excused \/ ios.count <= execs'
      BY <1>1, <1>3, <2>1, <2>3
    <3> QED BY <1>3, <3>1, <3>2
  <2> QED BY <2>2, <2>3
<1>6. Lasts'
  BY <1>1, <1>2, <1>5 DEF ClientInv, Lasts, Excused
<1> QED BY <1>1, <1>2, <1>4, <1>6 DEF ClientInv

(* A write of nothing finds EAGAIN from before and ends nothing.            *)
LEMMA WritableKeeps == Stream!ClientAssumption /\ ClientInv /\ Stream!Writable => ClientInv'
<1> SUFFICES ASSUME Stream!ClientAssumption, ClientInv, Stream!Writable PROVE ClientInv'
  OBVIOUS
<1>1. /\ connected /\ turn.at = "none" /\ pollout /\ UNCHANGED <<net, queue, turn, execs>>
      /\ ClientTypes /\ ios \in IosType /\ ios.out <= MaxOut /\ net.eof \in BOOLEAN
      /\ ios.error # "none" /\ NoneWhole(ios.ibuf) /\ Frames(ios.ibuf \o net.units, net.half)
  BY DEF ClientInv, ClientTypes, Stream!Writable, Stream!Idle, Stream!NoTurn
<1>2. PICK k \in 0 .. ios.out, gone \in Stream!Refused :
        LET i == Stream!Flush(ios, k, gone)
            fails == (gone \/ k = 0) /\ i.error # "EAGAIN"
        IN /\ ios' = i /\ connected' = ~fails
           /\ pollout' = (i.out > 0) /\ x' = (x \/ i.out = 0)
  BY DEF Stream!Writable
<1>3. gone \in BOOLEAN /\ (gone => net.eof)
  BY <1>1 DEF Stream!Refused
<1>4. /\ ios' = Stream!Flush(ios, k, gone) /\ connected' \in BOOLEAN
      /\ pollout' = (ios'.out > 0) /\ x' \in BOOLEAN /\ pollout' \in BOOLEAN
  BY <1>2
<1>5. /\ ios' \in IosType /\ ios'.ibuf = ios.ibuf /\ ios'.out <= ios.out /\ ios'.error # "none"
      /\ ios'.count = ios.count /\ (~gone => ios'.error \in {ios.error, "EAGAIN"})
  BY <1>1, <1>3, <1>4, FlushIs
<1>6. ios'.out <= MaxOut
  <2>1. ios.out \in Nat /\ ios'.out \in Nat /\ MaxOut \in Nat
    BY <1>1, <1>5 DEF IosType, Stream!ClientAssumption
  <2> QED BY <1>1, <1>5, <2>1
<1>7. ClientTypes'
  BY <1>1, <1>4, <1>5, <1>6 DEF ClientTypes
<1>8. Frames(ios'.ibuf \o net'.units, net'.half) /\ NoneWhole(ios'.ibuf) /\ turn'.at = "none"
  BY <1>1, <1>5
<1>9. Excused \/ (ios.error = "EAGAIN" /\ ios.count <= execs + 1 /\ ios.count <= MaxAgain)
  BY <1>1 DEF ClientInv, Lasts, Excused
<1>10. Lasts'
  <2>1. CASE Excused
    BY <1>1, <2>1 DEF Lasts, Excused
  <2>2. CASE ~Excused
    <3>1. ~gone
      BY <1>3, <2>2 DEF Excused
    <3>2. ios'.error = "EAGAIN"
      BY <1>5, <1>9, <2>2, <3>1
    <3>3. connected'
      BY <1>2, <3>1, <3>2, <1>4, <1>3
    <3> QED BY <1>1, <1>5, <1>9, <2>2, <3>2, <3>3 DEF Lasts
  <2> QED BY <2>1, <2>2
<1>11. ios'.count > 0 => Scant(ios'.ibuf)
  BY <1>5 DEF ClientInv
<1> QED BY <1>1, <1>4, <1>5, <1>7, <1>8, <1>10, <1>11 DEF ClientInv

LEMMA OthersTurnKeeps == Stream!ClientAssumption /\ ClientInv /\ Stream!OthersTurn => ClientInv'
<1> SUFFICES ASSUME Stream!ClientAssumption, ClientInv, Stream!OthersTurn PROVE ClientInv'
  OBVIOUS
<1>1. /\ connected /\ turn.at = "none" /\ Others /\ ios.out < MaxOut
      /\ UNCHANGED <<net, queue, turn, x, pollout, connected, execs>>
      /\ ClientTypes /\ ios \in IosType /\ ios.out \in Nat
      /\ NoneWhole(ios.ibuf) /\ Frames(ios.ibuf \o net.units, net.half)
      /\ pollout => ios.error # "none"
  BY DEF ClientInv, ClientTypes, IosType, Stream!OthersTurn, Stream!Idle, Stream!NoTurn
<1>2. PICK k \in 0 .. ios.out + 1 : ios' = Stream!Fwrite(ios, 1, k, FALSE)
  BY DEF Stream!OthersTurn
<1>3. PICK n \in Nat, gone \in BOOLEAN : n = 1 /\ gone = FALSE
  OBVIOUS
<1>4. /\ ios' \in IosType /\ ios'.ibuf = ios.ibuf /\ ios'.count = ios.count
      /\ ios'.error \in {ios.error, "EAGAIN"}
      /\ ios'.out = ios.out + n - k /\ (ios'.out > 0 => ios'.error # "none")
      /\ ios.error # "none" => ios'.error # "none"
  <2>1. k \in Stream!Taken(gone, ios.out + n) /\ ios' = Stream!Fwrite(ios, n, k, gone)
    BY <1>2, <1>3 DEF Stream!Taken
  <2> QED BY <1>1, <1>3, <2>1, WriteIs
<1>5. ios'.out <= MaxOut
  <2>1. MaxOut \in Nat /\ ios.out + 1 <= MaxOut
    BY <1>1 DEF Stream!ClientAssumption
  <2>2. ios'.out = ios.out + 1 - k /\ k \in 0 .. ios.out + 1
    BY <1>2, <1>3, <1>4
  <2> QED BY <1>1, <2>1, <2>2
<1>6. ClientTypes'
  BY <1>1, <1>4, <1>5 DEF ClientTypes
<1>7. Frames(ios'.ibuf \o net'.units, net'.half) /\ NoneWhole(ios'.ibuf)
  BY <1>1, <1>4
<1>8. Lasts' /\ (ios'.count > 0 => Scant(ios'.ibuf))
  BY <1>1, <1>4 DEF ClientInv, Lasts
<1> QED BY <1>1, <1>4, <1>6, <1>7, <1>8 DEF ClientInv

LEMMA ArriveKeeps == Stream!ClientAssumption /\ ClientInv /\ Stream!Arrive => ClientInv'
<1> SUFFICES ASSUME Stream!ClientAssumption, ClientInv, Stream!Arrive PROVE ClientInv'
  OBVIOUS
<1>1. /\ connected /\ UNCHANGED <<ios, queue, turn, x, pollout, connected, execs>>
      /\ ClientTypes /\ net.units \in Seq(AnyUnit) /\ net.half \in Halves
      /\ net \in [units : Seq(AnyUnit), half : Halves, eof : BOOLEAN]
      /\ ios.ibuf \in Seq(AnyUnit) /\ Frames(ios.ibuf \o net.units, net.half)
  BY DEF ClientInv, ClientTypes, IosType, Stream!Arrive, Stream!Alive
<1>2. \E m, i, half :
        /\ m \in {"KEEP", "HAVE", "REQ", "BAD", "BIG", "NEG"} /\ m \in Messages /\ i \in 1 .. 2
        /\ IF net.half = "none" THEN i = 1 ELSE i = 2 /\ m = net.half
        /\ half = IF i = Stream!Size(m) THEN "none" ELSE m
        /\ Stream!Put(m, i, half)
  <2>1. CASE net.half # "none"
    <3>1. Stream!Put(net.half, 2, "none")
      BY <2>1 DEF Stream!Arrive
    <3>2. net.half \in {"HAVE", "REQ", "BAD", "BIG", "NEG"} /\ net.half \in Messages
      BY <1>1, <2>1 DEF Frames, Halves
    <3>3. Stream!Size(net.half) = 2
      BY <3>2 DEF Stream!Size
    <3>4. 2 \in 1 .. 2 /\ 2 # 1
      OBVIOUS
    <3> QED BY <2>1, <3>1, <3>2, <3>3, <3>4
  <2>2. CASE net.half = "none"
    <3>1. PICK m \in Messages \ {"EOF"} : Stream!Put(m, 1, IF m = "KEEP" THEN "none" ELSE m)
      BY <2>2 DEF Stream!Arrive
    <3>2. (IF m = "KEEP" THEN "none" ELSE m) = IF 1 = Stream!Size(m) THEN "none" ELSE m
      BY DEF Stream!Size
    <3>3. m \in Messages /\ 1 \in 1 .. 2
      BY <3>1
    <3>4. m \in {"KEEP", "HAVE", "REQ", "BAD", "BIG", "NEG"}
      BY <3>1 DEF Stream!ClientAssumption
    <3> QED BY <2>2, <3>1, <3>2, <3>3, <3>4
  <2> QED BY <2>1, <2>2
<1>3. PICK m, i, half :
        /\ m \in {"KEEP", "HAVE", "REQ", "BAD", "BIG", "NEG"} /\ m \in Messages /\ i \in 1 .. 2
        /\ IF net.half = "none" THEN i = 1 ELSE i = 2 /\ m = net.half
        /\ half = IF i = Stream!Size(m) THEN "none" ELSE m
        /\ Stream!Put(m, i, half)
  BY <1>2
<1>4. PICK e : e = [m |-> m, i |-> i]
  OBVIOUS
<1>5. e \in AnyUnit /\ e.m = m /\ e.i = i
  BY <1>3, <1>4 DEF AnyUnit, Stream!Unit
<1>6. half \in Halves
  <2>1. half = IF i = Stream!Size(m) THEN "none" ELSE m
    BY <1>3
  <2>2. m = "KEEP" => Stream!Size(m) = 1
    BY DEF Stream!Size
  <2>3. m # "KEEP" => half \in Halves
    BY <1>3, <2>1 DEF Halves
  <2>4. m = "KEEP" => i = 1
    BY <1>1, <1>3 DEF Halves
  <2> QED BY <2>1, <2>2, <2>3, <2>4 DEF Halves
<1>7. PICK u : u = Append(net.units, e)
  OBVIOUS
<1>8. u \in Seq(AnyUnit) /\ u # <<>>
  <2>1. Len(u) = Len(net.units) + 1 /\ Len(net.units) \in Nat /\ u \in Seq(AnyUnit)
    BY <1>1, <1>5, <1>7
  <2> QED BY <2>1
<1>9. net' \in [units : Seq(AnyUnit), half : Halves, eof : BOOLEAN]
      /\ net'.units = u /\ net'.half = half /\ net'.eof = net.eof
  <2>1. net' = [net EXCEPT !.units = u, !.half = half]
    BY <1>3, <1>4, <1>7 DEF Stream!Put
  <2> QED BY <1>1, <1>6, <1>8, <2>1
<1>10. Frames(ios'.ibuf \o net'.units, net'.half)
  <2>1. PICK s : s = ios.ibuf \o net.units
    OBVIOUS
  <2>2. s \in Seq(AnyUnit) /\ Frames(s, net.half)
    BY <1>1, <2>1
  <2>3. Frames(Append(s, e), half)
    <3>1. IF net.half = "none" THEN e.i = 1 ELSE e.i = 2 /\ e.m = net.half
      BY <1>3, <1>5
    <3>2. half = IF e.i = Stream!Size(e.m) THEN "none" ELSE e.m
      BY <1>3, <1>5
    <3>3. e.m \in Messages
      BY <1>3, <1>5
    <3>4. PICK was : was = net.half
      OBVIOUS
    <3>5. Frames(s, was) /\ IF was = "none" THEN e.i = 1 ELSE e.i = 2 /\ e.m = was
      BY <2>2, <3>1, <3>4
    <3> QED BY <1>5, <2>2, <3>2, <3>3, <3>5, FramesMore
  <2>4. ios.ibuf \o u = Append(s, e)
    <3>1. PICK w, a, b : w = AnyUnit /\ a = ios.ibuf /\ b = net.units
      OBVIOUS
    <3>2. a \in Seq(w) /\ b \in Seq(w) /\ e \in w
      BY <1>1, <1>5, <3>1
    <3>3. a \o Append(b, e) = Append(a \o b, e)
      BY ONLY <3>2, UnitAdded
    <3> QED BY <1>7, <2>1, <3>1, <3>3
  <2> QED BY <1>1, <1>9, <2>3, <2>4
<1>11. ClientTypes'
  BY <1>1, <1>9 DEF ClientTypes
<1>12. Lasts'
  BY <1>1, <1>8, <1>9 DEF ClientInv, Lasts
<1> QED BY <1>1, <1>10, <1>11, <1>12 DEF ClientInv

LEMMA CloseKeeps == ClientInv /\ Stream!Close => ClientInv'
<1> SUFFICES ASSUME ClientInv, Stream!Close PROVE ClientInv'
  OBVIOUS
<1>1. /\ net' = [net EXCEPT !.eof = TRUE] /\ UNCHANGED <<ios, queue, turn, x, pollout, connected, execs>>
      /\ net \in [units : Seq(AnyUnit), half : Halves, eof : BOOLEAN]
  BY DEF ClientInv, ClientTypes, Stream!Close
<1>2. net' \in [units : Seq(AnyUnit), half : Halves, eof : BOOLEAN]
      /\ net'.units = net.units /\ net'.half = net.half /\ net'.eof
  BY <1>1
<1>3. ClientTypes' /\ Lasts'
  BY <1>1, <1>2 DEF ClientInv, ClientTypes, Lasts
<1> QED BY <1>1, <1>2, <1>3 DEF ClientInv

LEMMA ClientInit == Stream!ClientAssumption /\ Stream!Init => ClientInv
<1> SUFFICES ASSUME Stream!ClientAssumption, Stream!Init PROVE ClientInv
  OBVIOUS
<1>1. <<>> \in Seq(AnyUnit) /\ <<>> \o <<>> = <<>> /\ Len(<<>>) = 0
  OBVIOUS
<1>2. /\ net = [units |-> <<>>, half |-> "none", eof |-> FALSE]
      /\ ios = [ibuf |-> <<>>, out |-> 0, error |-> "none", count |-> 0]
      /\ queue = 0 /\ turn = [cmd |-> "none", at |-> "none"]
      /\ x = FALSE /\ pollout = FALSE /\ connected = TRUE /\ execs = 0
  BY DEF Stream!Init, Stream!NoTurn
<1>5. net \in [units : Seq(AnyUnit), half : Halves, eof : BOOLEAN]
      /\ turn \in [cmd : {"none", "READABLE", "EXECUTE"}, at : {"none", "recv", "queue", "fail", "died"}]
  BY <1>1, <1>2 DEF Halves
<1>6. ios \in IosType /\ ios.out <= MaxOut /\ queue \in 0 .. QUEUESIZE - 1 /\ execs \in 0 .. MaxAgain
  BY <1>1, <1>2 DEF IosType, Errors, Stream!ClientAssumption
<1>7. ClientTypes /\ net.half = "none" /\ ios.ibuf \o net.units = <<>>
  BY <1>1, <1>2, <1>5, <1>6 DEF ClientTypes
<1>3. Frames(<<>>, "none")
  BY <1>1 DEF Frames, Halves
<1>4. Lasts
  BY <1>2 DEF Lasts, Stream!ClientAssumption
<1> QED BY <1>2, <1>3, <1>4, <1>7 DEF ClientInv, NoneWhole, Scant

LEMMA ClientNext == Stream!ClientAssumption /\ ClientInv /\ [Stream!Next]_Stream!vars => ClientInv'
<1> SUFFICES ASSUME Stream!ClientAssumption, ClientInv, [Stream!Next]_Stream!vars PROVE ClientInv'
  OBVIOUS
<1>1. CASE Stream!Next
  BY <1>1, BeginKeeps, WritableKeeps, RecvKeeps, ProcessQueueKeeps, FailTurnKeeps, OthersTurnKeeps,
     ArriveKeeps, CloseKeeps DEF Stream!Next
<1>2. CASE UNCHANGED Stream!vars
  BY <1>2 DEF Stream!vars, ClientInv, ClientTypes, Lasts, EmptyReads
<1> QED BY <1>1, <1>2

(* However its bytes come in, a connection is read at the start of a        *)
(* message; nothing that could be handled is left behind by a turn, unless  *)
(* the remote sends keep-alives or unknown messages; nothing that could be  *)
(* written is left unwatched, unless other peers' turns write; the turn     *)
(* poll() gives to a buffer emptied meanwhile does no harm; and a           *)
(* connection ends only for what the remote does, or for as many turns out  *)
(* of x_set with nothing to read as may count an empty read (stream.c,      *)
(* btget.c).                                                                *)
THEOREM StreamSoundHolds ==
  ASSUME Stream!ClientAssumption
  PROVE  Stream!Spec =>
           [](/\ Stream!TypeOK /\ Stream!Framed /\ Stream!EmptyFlushSafe
              /\ Stream!KeptWhileSound /\ (~Others => Stream!OutputWatched)
              /\ {"KEEP", "BAD"} \cap Messages = {} => Stream!NothingLeftBehind)
<1>1. ClientInv => /\ Stream!TypeOK /\ Stream!Framed /\ Stream!EmptyFlushSafe
                   /\ ~Others => Stream!OutputWatched
                   /\ {"KEEP", "BAD"} \cap Messages = {} => Stream!NothingLeftBehind
                   /\ Stream!KeptWhileSound
  <2> SUFFICES ASSUME ClientInv
               PROVE  /\ Stream!TypeOK /\ Stream!Framed /\ Stream!EmptyFlushSafe
                      /\ ~Others => Stream!OutputWatched
                      /\ {"KEEP", "BAD"} \cap Messages = {} => Stream!NothingLeftBehind
                      /\ Stream!KeptWhileSound
    OBVIOUS
  <2>1. Stream!TypeOK
    <3>1. ios.out \in 0 .. MaxOut
      BY DEF ClientInv, ClientTypes, IosType, Stream!ClientAssumption
    <3> QED BY <3>1 DEF ClientInv, ClientTypes, IosType, Errors, AnyUnit, Stream!TypeOK
  <2>2. Stream!Framed
    BY DEF ClientInv, Frames, Stream!Framed
  <2>3. Stream!EmptyFlushSafe /\ (~Others => Stream!OutputWatched)
    BY DEF ClientInv, Stream!EmptyFlushSafe, Stream!OutputWatched, Stream!Idle, Stream!NoTurn
  <2>4. {"KEEP", "BAD"} \cap Messages = {} => Stream!NothingLeftBehind
    BY DEF ClientInv, NoneWhole, Scant, Stream!NothingLeftBehind, Stream!Idle, Stream!NoTurn, Stream!Message
  <2>5. Stream!KeptWhileSound
    BY DEF ClientInv, Lasts, Stream!KeptWhileSound
  <2> QED BY <2>1, <2>2, <2>3, <2>4, <2>5
<1> QED BY <1>1, ClientInit, ClientNext, PTL DEF Stream!Spec

-----------------------------------------------------------------------------
(* The bitsets.                                                             *)

CONSTANTS BYTE, Names, Sizes

VARIABLE sets

Bits == INSTANCE Bitset

LEMMA LeastExists ==
  ASSUME NEW S \in SUBSET Nat, S # {}
  PROVE  \E least \in S : \A y \in S : least <= y
<1>1. PICK least \in S : \A y \in S : <<y, least>> \notin OpToRel(<, Nat)
  BY NatLessThanWellFounded, WFMin
<1>2. \A y \in S : ~(y < least)
  BY <1>1 DEF OpToRel
<1>3. least \in Nat /\ \A y \in S : y \in Nat
  OBVIOUS
<1>4. \A y \in S : least <= y
  BY <1>2, <1>3
<1> QED BY <1>4, Zenon

(* Bit n is bit i of byte b.                                                *)
LEMMA BitPlace ==
  ASSUME BYTE \in Nat \ {0}, NEW n \in Nat
  PROVE  /\ n \div BYTE \in Nat /\ n % BYTE \in 0 .. BYTE - 1
         /\ n = (n \div BYTE) * BYTE + (n % BYTE)
<1>1. n % BYTE \in 0 .. BYTE - 1
  OBVIOUS
<1>2. n \div BYTE \in Int /\ n \div BYTE >= 0
  OBVIOUS
<1>3. n = BYTE * (n \div BYTE) + (n % BYTE)
  OBVIOUS
<1>4. BYTE * (n \div BYTE) = (n \div BYTE) * BYTE
  BY <1>2
<1> QED BY <1>1, <1>2, <1>3, <1>4

LEMMA BitAt ==
  ASSUME BYTE \in Nat \ {0}, NEW b \in Nat, NEW i \in 0 .. BYTE - 1
  PROVE  b * BYTE + i \in Nat /\ (b * BYTE + i) \div BYTE = b /\ (b * BYTE + i) % BYTE = i
OBVIOUS

(* The byte the set ends in, and the last of its bits that counts.          *)
LEMMA LastByte ==
  ASSUME BYTE \in Nat \ {0}, NEW nbits \in Nat \ {0}
  PROVE  /\ (nbits - 1) \div BYTE \in Nat
         /\ Bits!Bytes(nbits) = 0 .. (nbits - 1) \div BYTE
         /\ Bits!BstestMask(nbits) = 0 .. (nbits - 1) % BYTE
<1>1. (nbits + BYTE - 1) \div BYTE - 1 = (nbits - 1) \div BYTE
  OBVIOUS
<1>4. (nbits - 1) \div BYTE \in Nat
  OBVIOUS
<1>2. PICK q, r : q = nbits \div BYTE /\ r = nbits % BYTE
  OBVIOUS
<1>3. q \in Nat /\ r \in 0 .. BYTE - 1 /\ nbits = q * BYTE + r
  BY <1>2, BitPlace
<1>5. CASE r = 0
  <2>1. q - 1 \in Nat /\ BYTE - 1 \in 0 .. BYTE - 1 /\ nbits - 1 = (q - 1) * BYTE + (BYTE - 1)
    BY <1>3, <1>5
  <2>2. (nbits - 1) % BYTE = BYTE - 1
    BY <2>1, BitAt
  <2> QED BY <1>1, <1>2, <1>4, <1>5, <2>2 DEF Bits!Bytes, Bits!BstestMask, Bits!Ones
<1>6. CASE r # 0
  <2>1. r - 1 \in 0 .. BYTE - 1 /\ nbits - 1 = q * BYTE + (r - 1)
    BY <1>3, <1>6
  <2>2. (nbits - 1) % BYTE = r - 1
    BY <1>3, <2>1, BitAt
  <2> QED BY <1>1, <1>2, <1>4, <1>6, <2>2 DEF Bits!Bytes, Bits!BstestMask, Bits!Ones
<1> QED BY <1>5, <1>6
IsBitset(a) ==
  /\ a = [nbits |-> a.nbits, bits |-> a.bits] /\ a.nbits \in Sizes \cup {0}
  /\ a.bits \in [Bits!Bytes(a.nbits) -> SUBSET Bits!Ones]

BitsInv == sets = [s \in Names |-> sets[s]] /\ \A s \in Names : IsBitset(sets[s])

LEMMA SizeType ==
  ASSUME Bits!BitsetAssumption, NEW a, IsBitset(a)
  PROVE  a.nbits \in Nat /\ BYTE \in Nat \ {0}
  BY DEF IsBitset, Bits!BitsetAssumption

(* Each byte up to the last holds bits of the set, and the last no more     *)
(* than the mask.                                                           *)
LEMMA InByte ==
  ASSUME BYTE \in Nat \ {0}, NEW nbits \in Nat \ {0}, NEW last, last = (nbits - 1) \div BYTE
  PROVE  /\ \A n \in 0 .. nbits - 1 :
              /\ n \div BYTE \in 0 .. last /\ n % BYTE \in Bits!Ones
              /\ n \div BYTE = last => n % BYTE \in Bits!BstestMask(nbits)
         /\ \A b \in 0 .. last, i \in Bits!Ones :
              b < last \/ i \in Bits!BstestMask(nbits) => b * BYTE + i \in 0 .. nbits - 1
<1>1. PICK top : top = (nbits - 1) % BYTE
  OBVIOUS
<1>2. last \in Nat /\ top \in 0 .. BYTE - 1 /\ nbits - 1 = last * BYTE + top
  <2>1. nbits - 1 \in Nat
    OBVIOUS
  <2> QED BY <1>1, <2>1, BitPlace
<1>3. Bits!BstestMask(nbits) = 0 .. top
  BY <1>1, LastByte
<1>4. ASSUME NEW n \in 0 .. nbits - 1
      PROVE  /\ n \div BYTE \in 0 .. last /\ n % BYTE \in Bits!Ones
             /\ n \div BYTE = last => n % BYTE \in Bits!BstestMask(nbits)
  <2>1. PICK b, i : b = n \div BYTE /\ i = n % BYTE
    OBVIOUS
  <2>2. b \in Nat /\ i \in 0 .. BYTE - 1 /\ n = b * BYTE + i
    BY <2>1, BitPlace
  <2>3. b <= last
    <3>1. SUFFICES ASSUME b >= last + 1 PROVE FALSE
      BY <1>2, <2>2
    <3>2. b * BYTE >= (last + 1) * BYTE
      BY <1>2, <2>2, <3>1
    <3>3. (last + 1) * BYTE = last * BYTE + BYTE
      BY <1>2
    <3>4. PICK w, y : w = b * BYTE /\ y = last * BYTE /\ w \in Int /\ y \in Int
      BY <1>2, <2>2
    <3> QED BY <1>2, <2>2, <3>2, <3>3, <3>4
  <2>4. b = last => i <= top
    BY <1>2, <2>2
  <2> QED BY <1>2, <1>3, <2>1, <2>2, <2>3, <2>4 DEF Bits!Ones
<1>5. ASSUME NEW b \in 0 .. last, NEW i \in Bits!Ones, b < last \/ i \in Bits!BstestMask(nbits)
      PROVE  b * BYTE + i \in 0 .. nbits - 1
  <2>1. b \in Nat /\ i \in 0 .. BYTE - 1 /\ b * BYTE + i \in Nat
    BY BitAt DEF Bits!Ones
  <2>2. CASE b < last
    <3>1. (b + 1) * BYTE <= last * BYTE
      BY <1>2, <2>1, <2>2
    <3>2. (b + 1) * BYTE = b * BYTE + BYTE
      BY <2>1
    <3>3. PICK w, y : w = b * BYTE /\ y = last * BYTE /\ w \in Int /\ y \in Int
      BY <1>2, <2>1
    <3> QED BY <1>2, <2>1, <3>1, <3>2, <3>3
  <2>3. CASE ~(b < last)
    <3>1. b = last /\ i <= top
      BY <1>2, <1>3, <1>5, <2>1, <2>3
    <3> QED BY <1>2, <2>1, <3>1
  <2> QED BY <2>2, <2>3
<1> QED BY <1>4, <1>5

LEMMA NotBits ==
  ASSUME Bits!BitsetAssumption, NEW a, IsBitset(a), NEW T, T = Bits!NotOf(a)
  PROVE  /\ IsBitset(T) /\ T.nbits = a.nbits
         /\ Bits!SparseSet(T) = (0 .. a.nbits - 1) \ Bits!SparseSet(a)
<1>1. PICK f : f = [b \in DOMAIN a.bits |-> Bits!Ones \ a.bits[b]]
  OBVIOUS
<1>2. T = [nbits |-> a.nbits, bits |-> f] /\ DOMAIN a.bits = Bits!Bytes(a.nbits)
  BY <1>1 DEF IsBitset, Bits!NotOf
<1>3. IsBitset(T) /\ T.nbits = a.nbits /\ T.bits = f
  BY <1>1, <1>2 DEF IsBitset
<1>4. ASSUME NEW n \in 0 .. a.nbits - 1
      PROVE  Bits!IsSet(T, n) <=> ~Bits!IsSet(a, n)
  <2>1. a.nbits \in Nat \ {0} /\ BYTE \in Nat \ {0}
    BY SizeType
  <2>2. n \div BYTE \in Bits!Bytes(a.nbits) /\ n % BYTE \in Bits!Ones
    BY <2>1, InByte, LastByte
  <2> QED BY <1>1, <1>2, <1>3, <2>2 DEF Bits!IsSet
<1> QED BY <1>3, <1>4 DEF Bits!SparseSet

LEMMA AndBits ==
  ASSUME Bits!BitsetAssumption, NEW a, IsBitset(a), NEW c, IsBitset(c), a.nbits = c.nbits,
         NEW T, T = Bits!AndOf(a, c)
  PROVE  /\ IsBitset(T) /\ T.nbits = a.nbits
         /\ Bits!SparseSet(T) = Bits!SparseSet(a) \cap Bits!SparseSet(c)
<1>1. PICK f : f = [b \in DOMAIN a.bits |-> a.bits[b] \cap c.bits[b]]
  OBVIOUS
<1>2. T = [nbits |-> a.nbits, bits |-> f] /\ DOMAIN a.bits = Bits!Bytes(a.nbits)
  BY <1>1 DEF IsBitset, Bits!AndOf
<1>3. IsBitset(T) /\ T.nbits = a.nbits /\ T.bits = f
  BY <1>1, <1>2 DEF IsBitset
<1>4. ASSUME NEW n \in 0 .. a.nbits - 1
      PROVE  Bits!IsSet(T, n) <=> Bits!IsSet(a, n) /\ Bits!IsSet(c, n)
  <2>1. a.nbits \in Nat \ {0} /\ BYTE \in Nat \ {0}
    BY SizeType
  <2>2. n \div BYTE \in Bits!Bytes(a.nbits)
    BY <2>1, InByte, LastByte
  <2> QED BY <1>1, <1>2, <1>3, <2>2 DEF Bits!IsSet
<1> QED BY <1>3, <1>4 DEF Bits!SparseSet

(* bs_isEmpty(): the bytes before the last, and the mask on that one.       *)
LEMMA EmptyIs ==
  ASSUME Bits!BitsetAssumption, NEW a, IsBitset(a), a.nbits # 0
  PROVE  Bits!IsEmpty(a) <=> Bits!SparseSet(a) = {}
<1>1. a.nbits \in Nat \ {0} /\ BYTE \in Nat \ {0}
  BY SizeType
<1>2. PICK last : last = (a.nbits - 1) \div BYTE
  OBVIOUS
<1>3. last \in Nat /\ DOMAIN a.bits = 0 .. last
  BY <1>1, <1>2, LastByte DEF IsBitset
<1>4. Bits!Cardinality(DOMAIN a.bits) - 1 = last
  <2>1. \A S : Bits!Cardinality(S) = Cardinality(S)
    BY Zenon DEF Bits!Cardinality, Cardinality
  <2>2. Cardinality(0 .. last) = last + 1
    BY <1>3, FS_Interval
  <2> QED BY <1>3, <2>1, <2>2
<1>5. Bits!IsEmpty(a) <=> (\A b \in 0 .. last - 1 : a.bits[b] = {}) /\ a.bits[last] \cap Bits!BstestMask(a.nbits) = {}
  BY <1>4, Zenon DEF Bits!IsEmpty
<1>6. ASSUME Bits!IsEmpty(a), NEW n \in 0 .. a.nbits - 1 PROVE ~Bits!IsSet(a, n)
  <2>1. /\ n \div BYTE \in 0 .. last /\ n % BYTE \in Bits!Ones
        /\ n \div BYTE = last => n % BYTE \in Bits!BstestMask(a.nbits)
    BY <1>1, <1>2, InByte
  <2>2. n \div BYTE # last => n \div BYTE \in 0 .. last - 1
    BY <1>3, <2>1
  <2> QED BY <1>5, <1>6, <2>1, <2>2 DEF Bits!IsSet
<1>7. ASSUME NEW b \in 0 .. last, NEW i \in a.bits[b], b < last \/ i \in Bits!BstestMask(a.nbits)
      PROVE  Bits!SparseSet(a) # {}
  <2>1. i \in Bits!Ones
    BY <1>3 DEF IsBitset
  <2>2. PICK n : n = b * BYTE + i
    OBVIOUS
  <2>3. n \in 0 .. a.nbits - 1
    BY <1>1, <1>2, <1>7, <2>1, <2>2, InByte
  <2>4. n \div BYTE = b /\ n % BYTE = i
    BY <1>1, <1>3, <2>1, <2>2, BitAt DEF Bits!Ones
  <2>5. Bits!IsSet(a, n)
    BY <2>4 DEF Bits!IsSet
  <2> QED BY <2>3, <2>5 DEF Bits!SparseSet
<1>8. Bits!IsEmpty(a) => Bits!SparseSet(a) = {}
  BY <1>6 DEF Bits!SparseSet
<1>9. ASSUME Bits!SparseSet(a) = {} PROVE Bits!IsEmpty(a)
  <2>1. \A b \in 0 .. last - 1 : b \in 0 .. last /\ b < last
    BY <1>3
  <2>2. last \in 0 .. last
    BY <1>3
  <2> QED BY <1>5, <1>7, <1>9, <2>1, <2>2
<1> QED BY <1>8, <1>9
LEMMA FullIs ==
  ASSUME Bits!BitsetAssumption, NEW a, IsBitset(a), a.nbits # 0
  PROVE  /\ Bits!IsFull(a) <=> Bits!SparseSet(a) = 0 .. a.nbits - 1
         /\ Bits!IsFull(a) <=> Bits!CountBits(a) = a.nbits
         /\ ~Bits!IsFull(a) => Bits!FirstClr(a) \in (0 .. a.nbits - 1) \ Bits!SparseSet(a)
<1>1. PICK T : T = Bits!NotOf(a)
  OBVIOUS
<1>2. IsBitset(T) /\ T.nbits = a.nbits /\ Bits!SparseSet(T) = (0 .. a.nbits - 1) \ Bits!SparseSet(a)
  BY <1>1, NotBits
<1>3. Bits!SparseSet(a) \subseteq 0 .. a.nbits - 1
  BY DEF Bits!SparseSet
<1>4. Bits!IsFull(a) <=> Bits!SparseSet(a) = 0 .. a.nbits - 1
  <2>1. Bits!IsFull(a) <=> Bits!SparseSet(T) = {}
    BY <1>1, <1>2, EmptyIs DEF Bits!IsFull
  <2> QED BY <1>2, <1>3, <2>1
<1>5. Bits!CountBits(a) = a.nbits <=> Bits!SparseSet(a) = 0 .. a.nbits - 1
  <2>1. \A S : Bits!Cardinality(S) = Cardinality(S)
    BY Zenon DEF Bits!Cardinality, Cardinality
  <2>2. a.nbits \in Nat \ {0}
    BY SizeType
  <2>3. IsFiniteSet(0 .. a.nbits - 1) /\ Cardinality(0 .. a.nbits - 1) = a.nbits
    <3>1. PICK m, top : m = a.nbits /\ top = m - 1
      OBVIOUS
    <3>2. m \in Nat \ {0}
      BY <2>2, <3>1
    <3>3. top \in Int /\ 0 <= top /\ top + 1 = m
      BY ONLY <3>1, <3>2
    <3>4. IsFiniteSet(0 .. top) /\ Cardinality(0 .. top) = top - 0 + 1
      BY <3>3, FS_Interval
    <3> QED BY <3>1, <3>3, <3>4
  <2>4. Cardinality(Bits!SparseSet(a)) = a.nbits => Bits!SparseSet(a) = 0 .. a.nbits - 1
    BY <1>3, <2>3, FS_Subset
  <2> QED BY <2>1, <2>3, <2>4 DEF Bits!CountBits
<1>6. ASSUME ~Bits!IsFull(a)
      PROVE  Bits!FirstClr(a) \in (0 .. a.nbits - 1) \ Bits!SparseSet(a)
  <2>1. PICK clear : clear = {i \in 0 .. a.nbits - 1 : ~Bits!IsSet(a, i)}
    OBVIOUS
  <2>2. clear = (0 .. a.nbits - 1) \ Bits!SparseSet(a)
    BY <2>1 DEF Bits!SparseSet
  <2>3. clear # {} /\ clear \in SUBSET Nat
    <3>1. PICK X, S : X = 0 .. a.nbits - 1 /\ S = Bits!SparseSet(a)
      OBVIOUS
    <3>2. S \subseteq X /\ S # X /\ clear = X \ S
      BY <1>3, <1>4, <1>6, <2>2, <3>1, Zenon
    <3>3. clear # {} /\ clear \subseteq X
      BY ONLY <3>2
    <3>4. X \subseteq Nat
      BY <3>1
    <3> QED BY <3>3, <3>4, Zenon
  <2>4. Bits!FirstClr(a) = CHOOSE i \in clear : \A j \in clear : i <= j
    BY <2>1, <2>3 DEF Bits!FirstClr
  <2>5. \E i \in clear : \A j \in clear : i <= j
    BY <2>3, LeastExists
  <2> QED BY <2>2, <2>4, <2>5
<1> QED BY <1>4, <1>5, <1>6

LEMMA PickIs ==
  ASSUME Bits!BitsetAssumption, NEW r, IsBitset(r), NEW p, IsBitset(p), NEW i, IsBitset(i),
         r.nbits = p.nbits, p.nbits = i.nbits, r.nbits # 0,
         NEW wanted, wanted = (Bits!SparseSet(p) \cap Bits!SparseSet(i)) \ Bits!SparseSet(r)
  PROVE  Bits!PickBlock(r, p, i) = IF wanted = {} THEN {-1} ELSE wanted
<1>1. PICK w : w = Bits!NotOf(r)
  OBVIOUS
<1>2. PICK y : y = Bits!AndOf(w, p)
  OBVIOUS
<1>3. PICK z : z = Bits!AndOf(y, i)
  OBVIOUS
<1>4. IsBitset(w) /\ w.nbits = r.nbits /\ Bits!SparseSet(w) = (0 .. r.nbits - 1) \ Bits!SparseSet(r)
  BY <1>1, NotBits
<1>5. IsBitset(y) /\ y.nbits = r.nbits /\ Bits!SparseSet(y) = Bits!SparseSet(w) \cap Bits!SparseSet(p)
  BY <1>2, <1>4, AndBits
<1>6. IsBitset(z) /\ z.nbits = r.nbits /\ Bits!SparseSet(z) = Bits!SparseSet(y) \cap Bits!SparseSet(i)
  BY <1>3, <1>5, AndBits
<1>7. Bits!SparseSet(p) \subseteq 0 .. r.nbits - 1
  BY DEF Bits!SparseSet
<1>8. Bits!SparseSet(z) = wanted
  BY <1>4, <1>5, <1>6, <1>7
<1>9. Bits!HasInteresting(r, p, i) <=> wanted # {}
  BY <1>1, <1>2, <1>3, <1>6, <1>8, EmptyIs DEF Bits!HasInteresting, Bits!Wanted
<1> QED BY <1>1, <1>2, <1>3, <1>8, <1>9 DEF Bits!PickBlock, Bits!Wanted

LEMMA BitsGive ==
  ASSUME Bits!BitsetAssumption, BitsInv
  PROVE  Bits!TypeOK /\ Bits!AsSets /\ Bits!PicksWanted
<1>1. \A s \in Names : IsBitset(sets[s])
  BY DEF BitsInv
<1>2. Bits!TypeOK
  BY <1>1 DEF Bits!TypeOK, IsBitset
<1>3. Bits!AsSets
  <2> SUFFICES ASSUME NEW s \in Bits!Created
               PROVE  /\ Bits!IsEmpty(sets[s]) <=> Bits!Members(s) = {}
                      /\ Bits!IsFull(sets[s]) <=> Bits!Members(s) = Bits!Range(s)
                      /\ Bits!IsFull(sets[s]) <=> Bits!CountBits(sets[s]) = sets[s].nbits
                      /\ ~Bits!IsFull(sets[s]) => Bits!FirstClr(sets[s]) \in Bits!Range(s) \ Bits!Members(s)
    BY DEF Bits!AsSets
  <2>1. IsBitset(sets[s]) /\ sets[s].nbits # 0
    BY <1>1 DEF Bits!Created
  <2> QED BY <2>1, EmptyIs, FullIs DEF Bits!Members, Bits!Range
<1>4. Bits!PicksWanted
  <2> SUFFICES ASSUME NEW r \in Bits!Created, NEW p \in Bits!Created, NEW i \in Bits!Created,
                      sets[r].nbits = sets[p].nbits, sets[p].nbits = sets[i].nbits,
                      NEW wanted, wanted = (Bits!Members(p) \cap Bits!Members(i)) \ Bits!Members(r)
               PROVE  Bits!PickBlock(sets[r], sets[p], sets[i]) = IF wanted = {} THEN {-1} ELSE wanted
    BY DEF Bits!PicksWanted
  <2>1. IsBitset(sets[r]) /\ IsBitset(sets[p]) /\ IsBitset(sets[i]) /\ sets[r].nbits # 0
    BY <1>1 DEF Bits!Created
  <2> QED BY <2>1, PickIs DEF Bits!Members
<1> QED BY <1>2, <1>3, <1>4

-----------------------------------------------------------------------------
(* The operations: s becomes the bitset a.                                  *)
LEMMA BecomesKeeps ==
  ASSUME BitsInv, NEW s \in Names, NEW a, IsBitset(a), sets' = [sets EXCEPT ![s] = a]
  PROVE  BitsInv' /\ sets'[s] = a
<1>1. sets' = [t \in Names |-> IF t = s THEN a ELSE sets[t]]
  BY DEF BitsInv
<1>2. \A t \in Names : IsBitset(sets'[t])
  BY <1>1 DEF BitsInv
<1> QED BY <1>1, <1>2 DEF BitsInv, IsBitset

(* A bitset with other bytes. *)
Rebit(a, f) == [nbits |-> a.nbits, bits |-> f]

LEMMA RebitKeeps ==
  ASSUME BitsInv, NEW s \in Names, NEW f \in [Bits!Bytes(sets[s].nbits) -> SUBSET Bits!Ones],
         sets' = [sets EXCEPT ![s].bits = f]
  PROVE  BitsInv' /\ sets'[s] = Rebit(sets[s], f)
<1>1. IsBitset(sets[s])
  BY DEF BitsInv
<1>2. [sets[s] EXCEPT !.bits = f] = Rebit(sets[s], f)
  BY <1>1 DEF IsBitset, Rebit
<1>3. IsBitset(Rebit(sets[s], f))
  BY <1>1 DEF IsBitset, Rebit
<1>4. sets' = [sets EXCEPT ![s] = Rebit(sets[s], f)]
  BY <1>2
<1> QED BY <1>3, <1>4, BecomesKeeps

LEMMA ByteAt ==
  ASSUME Bits!BitsetAssumption, NEW a, IsBitset(a), NEW n \in 0 .. a.nbits - 1
  PROVE  /\ n \in Nat /\ n \div BYTE \in Bits!Bytes(a.nbits) /\ n % BYTE \in Bits!Ones
         /\ n = (n \div BYTE) * BYTE + (n % BYTE) /\ n \div BYTE \in Nat
<1>1. a.nbits \in Nat \ {0} /\ BYTE \in Nat \ {0} /\ n \in Nat
  BY SizeType
<1> QED BY <1>1, InByte, LastByte, BitPlace

LEMMA SetIs ==
  ASSUME Bits!BitsetAssumption, BitsInv, NEW s \in Names, NEW bit \in 0 .. sets[s].nbits - 1,
         Bits!Set(s, bit)
  PROVE  BitsInv' /\ Bits!Members(s)' = Bits!Members(s) \cup {bit}
<1>1. PICK a, b, i : a = sets[s] /\ b = bit \div BYTE /\ i = bit % BYTE
  OBVIOUS
<1>2. IsBitset(a) /\ b \in Bits!Bytes(a.nbits) /\ i \in Bits!Ones /\ bit = b * BYTE + i
  BY <1>1, ByteAt DEF BitsInv
<1>3. PICK f : f = [a.bits EXCEPT ![b] = @ \cup {i}]
  OBVIOUS
<1>4. f \in [Bits!Bytes(a.nbits) -> SUBSET Bits!Ones]
  BY <1>2, <1>3 DEF IsBitset
<1>5. sets' = [sets EXCEPT ![s].bits = f]
  <2>1. sets' = [sets EXCEPT ![s] = Bits!With(@, bit)]
    BY DEF Bits!Set
  <2>2. Bits!With(a, bit) = [a EXCEPT !.bits = f]
    BY <1>1, <1>3 DEF Bits!With
  <2> QED BY <1>1, <2>1, <2>2
<1>6. BitsInv' /\ sets'[s] = Rebit(a, f)
  BY <1>1, <1>4, <1>5, RebitKeeps
<1>7. ASSUME NEW n \in 0 .. a.nbits - 1
      PROVE  n % BYTE \in f[n \div BYTE] <=> n % BYTE \in a.bits[n \div BYTE] \/ n = bit
  <2>1. n \div BYTE \in Bits!Bytes(a.nbits) /\ n = (n \div BYTE) * BYTE + (n % BYTE)
    BY <1>2, ByteAt
  <2>2. n = bit <=> n \div BYTE = b /\ n % BYTE = i
    BY <1>1, <1>2, <2>1
  <2> QED BY <1>2, <1>3, <2>1, <2>2 DEF IsBitset
<1>8. Bits!Members(s)' = {n \in 0 .. a.nbits - 1 : n % BYTE \in f[n \div BYTE]}
  BY <1>6 DEF Bits!Members, Bits!SparseSet, Bits!IsSet, Rebit
<1>9. Bits!Members(s) = {n \in 0 .. a.nbits - 1 : n % BYTE \in a.bits[n \div BYTE]}
  BY <1>1 DEF Bits!Members, Bits!SparseSet, Bits!IsSet
<1> QED BY <1>1, <1>6, <1>7, <1>8, <1>9

LEMMA ClrIs ==
  ASSUME Bits!BitsetAssumption, BitsInv, NEW s \in Names, NEW bit \in 0 .. sets[s].nbits - 1,
         Bits!Clr(s, bit)
  PROVE  BitsInv' /\ Bits!Members(s)' = Bits!Members(s) \ {bit}
<1>1. PICK a, b, i : a = sets[s] /\ b = bit \div BYTE /\ i = bit % BYTE
  OBVIOUS
<1>2. IsBitset(a) /\ b \in Bits!Bytes(a.nbits) /\ i \in Bits!Ones /\ bit = b * BYTE + i
  BY <1>1, ByteAt DEF BitsInv
<1>3. PICK f : f = [a.bits EXCEPT ![b] = @ \ {i}]
  OBVIOUS
<1>4. f \in [Bits!Bytes(a.nbits) -> SUBSET Bits!Ones]
  BY <1>2, <1>3 DEF IsBitset
<1>5. sets' = [sets EXCEPT ![s].bits = f]
  BY <1>1, <1>3 DEF Bits!Clr
<1>6. BitsInv' /\ sets'[s] = Rebit(a, f)
  BY <1>1, <1>4, <1>5, RebitKeeps
<1>7. ASSUME NEW n \in 0 .. a.nbits - 1
      PROVE  n % BYTE \in f[n \div BYTE] <=> n % BYTE \in a.bits[n \div BYTE] /\ n # bit
  <2>1. n \div BYTE \in Bits!Bytes(a.nbits) /\ n = (n \div BYTE) * BYTE + (n % BYTE)
    BY <1>2, ByteAt
  <2>2. n = bit <=> n \div BYTE = b /\ n % BYTE = i
    BY <1>1, <1>2, <2>1
  <2> QED BY <1>2, <1>3, <2>1, <2>2 DEF IsBitset
<1>8. Bits!Members(s)' = {n \in 0 .. a.nbits - 1 : n % BYTE \in f[n \div BYTE]}
  BY <1>6 DEF Bits!Members, Bits!SparseSet, Bits!IsSet, Rebit
<1>9. Bits!Members(s) = {n \in 0 .. a.nbits - 1 : n % BYTE \in a.bits[n \div BYTE]}
  BY <1>1 DEF Bits!Members, Bits!SparseSet, Bits!IsSet
<1> QED BY <1>1, <1>6, <1>7, <1>8, <1>9

(* What bs_setRange() sets at one stroke lies in the range. *)
LEMMA SetRangeIs ==
  ASSUME Bits!BitsetAssumption, BitsInv, NEW s \in Names, NEW start \in 0 .. sets[s].nbits,
         NEW endplus1 \in 0 .. sets[s].nbits, Bits!SetRange(s, start, endplus1)
  PROVE  BitsInv' /\ Bits!Members(s)' = Bits!Members(s) \cup (start .. endplus1 - 1)
<1>1. PICK a : a = sets[s]
  OBVIOUS
<1>2. IsBitset(a) /\ a.nbits \in Nat /\ BYTE \in Nat \ {0} /\ start \in Nat /\ endplus1 \in Nat
      /\ endplus1 <= a.nbits
  <2>1. IsBitset(a)
    BY <1>1 DEF BitsInv
  <2>2. a.nbits \in Nat /\ BYTE \in Nat \ {0}
    BY <2>1, SizeType
  <2> QED BY <1>1, <2>1, <2>2
<1>3. PICK whole : whole = {bit \in start .. endplus1 - 1 : Bits!Filled(a, bit, endplus1)}
  OBVIOUS
<1>4. PICK f : f = [b \in DOMAIN a.bits |-> a.bits[b] \cup {i \in Bits!Ones :
                      b * BYTE \in whole \/ b * BYTE + i \in start .. endplus1 - 1}]
  OBVIOUS
<1>5. f \in [Bits!Bytes(a.nbits) -> SUBSET Bits!Ones]
  BY <1>2, <1>4 DEF IsBitset
<1>6. sets' = [sets EXCEPT ![s].bits = f]
  BY <1>1, <1>3, <1>4 DEF Bits!SetRange
<1>7. BitsInv' /\ sets'[s] = Rebit(a, f)
  BY <1>1, <1>5, <1>6, RebitKeeps
<1>8. ASSUME NEW n \in 0 .. a.nbits - 1
      PROVE  n % BYTE \in f[n \div BYTE] <=> n % BYTE \in a.bits[n \div BYTE] \/ n \in start .. endplus1 - 1
  <2>1. PICK b, i : b = n \div BYTE /\ i = n % BYTE
    OBVIOUS
  <2>2. b \in Bits!Bytes(a.nbits) /\ i \in Bits!Ones /\ n = b * BYTE + i /\ b \in Nat /\ n \in Nat
    BY <1>2, <2>1, ByteAt
  <2>3. b * BYTE \in whole => n \in start .. endplus1 - 1
    <3>1. PICK w : w = b * BYTE
      OBVIOUS
    <3>2. w \in Nat /\ i \in 0 .. BYTE - 1 /\ n = w + i
      BY <1>2, <2>2, <3>1 DEF Bits!Ones
    <3>3. w \in whole => w >= start /\ w + BYTE < endplus1
      BY <1>2, <1>3 DEF Bits!Filled
    <3> QED BY <1>2, <3>1, <3>2, <3>3
  <2> QED BY <1>2, <1>4, <2>1, <2>2, <2>3 DEF IsBitset
<1>9. Bits!Members(s)' = {n \in 0 .. a.nbits - 1 : n % BYTE \in f[n \div BYTE]}
  BY <1>7 DEF Bits!Members, Bits!SparseSet, Bits!IsSet, Rebit
<1>10. Bits!Members(s) = {n \in 0 .. a.nbits - 1 : n % BYTE \in a.bits[n \div BYTE]}
  BY <1>1 DEF Bits!Members, Bits!SparseSet, Bits!IsSet
<1>11. start .. endplus1 - 1 \subseteq 0 .. a.nbits - 1
  BY <1>2
<1> QED BY <1>7, <1>8, <1>9, <1>10, <1>11

LEMMA NotIs ==
  ASSUME Bits!BitsetAssumption, BitsInv, NEW s \in Names, NEW t \in Names, Bits!Not(s, t)
  PROVE  BitsInv' /\ Bits!Members(s)' = Bits!Range(t) \ Bits!Members(t)
<1>1. PICK T : T = Bits!NotOf(sets[t])
  OBVIOUS
<1>2. IsBitset(sets[t])
  BY DEF BitsInv
<1>3. IsBitset(T) /\ Bits!SparseSet(T) = (0 .. sets[t].nbits - 1) \ Bits!SparseSet(sets[t])
  BY <1>1, <1>2, NotBits
<1>4. BitsInv' /\ sets'[s] = T
  BY <1>1, <1>3, BecomesKeeps DEF Bits!Not
<1>5. Bits!Members(s)' = Bits!SparseSet(T)
  BY <1>4 DEF Bits!Members, Bits!SparseSet, Bits!IsSet
<1> QED BY <1>3, <1>4, <1>5 DEF Bits!Members, Bits!Range

LEMMA AndIs ==
  ASSUME Bits!BitsetAssumption, BitsInv, NEW s \in Names, NEW t \in Names, NEW u \in Names,
         Bits!And(s, t, u)
  PROVE  BitsInv' /\ Bits!Members(s)' = Bits!Members(t) \cap Bits!Members(u)
<1>1. PICK T : T = Bits!AndOf(sets[t], sets[u])
  OBVIOUS
<1>2. IsBitset(sets[t]) /\ IsBitset(sets[u]) /\ sets[t].nbits = sets[u].nbits
  BY DEF BitsInv, Bits!And
<1>3. IsBitset(T) /\ Bits!SparseSet(T) = Bits!SparseSet(sets[t]) \cap Bits!SparseSet(sets[u])
  BY <1>1, <1>2, AndBits
<1>4. BitsInv' /\ sets'[s] = T
  BY <1>1, <1>3, BecomesKeeps DEF Bits!And
<1>5. Bits!Members(s)' = Bits!SparseSet(T)
  BY <1>4 DEF Bits!Members, Bits!SparseSet, Bits!IsSet
<1> QED BY <1>3, <1>4, <1>5 DEF Bits!Members

LEMMA ReadBytesKeeps ==
  ASSUME Bits!BitsetAssumption, BitsInv, NEW s \in Names, Bits!ReadBytes(s)
  PROVE  BitsInv'
<1>1. PICK a : a = sets[s]
  OBVIOUS
<1>0. PICK len \in 0 .. Bits!Cardinality(DOMAIN a.bits) :
         \E bits \in [0 .. len - 1 -> SUBSET Bits!Ones] :
           sets' = [sets EXCEPT ![s].bits = [b \in DOMAIN @ |-> IF b < len THEN bits[b] ELSE @[b]]]
  BY <1>1, Zenon DEF Bits!ReadBytes
<1>2. PICK bits \in [0 .. len - 1 -> SUBSET Bits!Ones] :
        sets' = [sets EXCEPT ![s].bits = [b \in DOMAIN @ |-> IF b < len THEN bits[b] ELSE @[b]]]
  BY <1>0
<1>3. PICK f : f = [b \in DOMAIN a.bits |-> IF b < len THEN bits[b] ELSE a.bits[b]]
  OBVIOUS
<1>4. IsBitset(a) /\ a.nbits \in Nat /\ BYTE \in Nat \ {0}
  <2>1. IsBitset(a)
    BY <1>1 DEF BitsInv
  <2> QED BY <2>1, SizeType
<1>5. Bits!Cardinality(DOMAIN a.bits) \in Nat /\ Bits!Bytes(a.nbits) \subseteq Nat
  <2>1. \A S : Bits!Cardinality(S) = Cardinality(S)
    BY Zenon DEF Bits!Cardinality, Cardinality
  <2>2. PICK top : top = (a.nbits + BYTE - 1) \div BYTE - 1
    OBVIOUS
  <2>3. top \in Int /\ Bits!Bytes(a.nbits) = 0 .. top /\ DOMAIN a.bits = 0 .. top
    BY <1>4, <2>2 DEF Bits!Bytes, IsBitset
  <2>4. IsFiniteSet(0 .. top)
    BY <2>3, FS_Interval
  <2> QED BY <2>1, <2>3, <2>4, FS_CardinalityType
<1>6. f \in [Bits!Bytes(a.nbits) -> SUBSET Bits!Ones]
  <2>1. \A b \in Bits!Bytes(a.nbits) : b < len => b \in 0 .. len - 1
    BY <1>2, <1>5
  <2> QED BY <1>3, <1>4, <2>1 DEF IsBitset
<1>7. sets' = [sets EXCEPT ![s].bits = f]
  BY <1>1, <1>2, <1>3
<1> QED BY <1>1, <1>6, <1>7, RebitKeeps

LEMMA ZerosType ==
  ASSUME NEW nbits \in Sizes \cup {0}
  PROVE  IsBitset(Bits!Zeros(nbits))
  BY DEF IsBitset, Bits!Zeros

LEMMA BitsStep ==
  ASSUME Bits!BitsetAssumption, BitsInv, [Bits!Next]_sets
  PROVE  BitsInv'
<1>1. ASSUME NEW s \in Names, NEW nbits \in Sizes, Bits!Create(s, nbits) PROVE BitsInv'
  BY <1>1, ZerosType, BecomesKeeps DEF Bits!Create
<1>2. ASSUME NEW s \in Names, Bits!ReadBytes(s) PROVE BitsInv'
  BY <1>2, ReadBytesKeeps
<1>3. ASSUME NEW s \in Names, NEW bit \in 0 .. sets[s].nbits - 1, Bits!Set(s, bit) \/ Bits!Clr(s, bit)
      PROVE  BitsInv'
  BY <1>3, SetIs, ClrIs
<1>4. ASSUME NEW s \in Names, NEW start \in 0 .. sets[s].nbits, NEW endplus1 \in 0 .. sets[s].nbits,
             Bits!SetRange(s, start, endplus1)
      PROVE  BitsInv'
  BY <1>4, SetRangeIs
<1>5. ASSUME NEW s \in Names, NEW t \in Names, Bits!CreateCopy(s, t) PROVE BitsInv'
  BY <1>5, BecomesKeeps DEF Bits!CreateCopy, BitsInv
<1>6. ASSUME NEW s \in Names, NEW t \in Names, Bits!Not(s, t) PROVE BitsInv'
  BY <1>6, NotIs
<1>7. ASSUME NEW s \in Names, NEW t \in Names, NEW u \in Names, Bits!And(s, t, u) PROVE BitsInv'
  BY <1>7, AndIs
<1>8. CASE UNCHANGED sets
  BY <1>8 DEF BitsInv, IsBitset
<1> QED BY <1>1, <1>2, <1>3, <1>4, <1>5, <1>6, <1>7, <1>8 DEF Bits!Next

LEMMA BitsNamed ==
  ASSUME Bits!BitsetAssumption, BitsInv
  PROVE  Bits!AsNamed
<1> SUFFICES ASSUME NEW s \in Names
             PROVE  /\ \A bit \in Bits!Range(s) :
                         /\ Bits!Set(s, bit) => Bits!Members(s)' = Bits!Members(s) \cup {bit}
                         /\ Bits!Clr(s, bit) => Bits!Members(s)' = Bits!Members(s) \ {bit}
                    /\ \A start, endplus1 \in Bits!Range(s) \cup {sets[s].nbits} :
                         Bits!SetRange(s, start, endplus1)
                           => Bits!Members(s)' = Bits!Members(s) \cup start .. endplus1 - 1
                    /\ \A t \in Names : Bits!Not(s, t) => Bits!Members(s)' = Bits!Range(t) \ Bits!Members(t)
                    /\ \A t, u \in Names : Bits!And(s, t, u) => Bits!Members(s)' = Bits!Members(t) \cap Bits!Members(u)
  BY DEF Bits!AsNamed
<1>1. IsBitset(sets[s])
  BY DEF BitsInv
<1>2. Bits!Range(s) = 0 .. sets[s].nbits - 1 /\ sets[s].nbits \in Nat
  BY <1>1, SizeType DEF Bits!Range
<1>3. Bits!Range(s) \cup {sets[s].nbits} = 0 .. sets[s].nbits
  BY <1>2
<1>4. ASSUME NEW bit \in Bits!Range(s)
      PROVE  /\ Bits!Set(s, bit) => Bits!Members(s)' = Bits!Members(s) \cup {bit}
             /\ Bits!Clr(s, bit) => Bits!Members(s)' = Bits!Members(s) \ {bit}
  BY <1>2, SetIs, ClrIs
<1>5. ASSUME NEW start \in Bits!Range(s) \cup {sets[s].nbits}, NEW endplus1 \in Bits!Range(s) \cup {sets[s].nbits},
             Bits!SetRange(s, start, endplus1)
      PROVE  Bits!Members(s)' = Bits!Members(s) \cup (start .. endplus1 - 1)
  BY <1>3, <1>5, SetRangeIs
<1> QED BY <1>4, <1>5, NotIs, AndIs

(* The bitsets answer as the sets they stand for, whatever lies beyond      *)
(* their end; what is picked is wanted, had and not asked for; and each     *)
(* operation does to the set what its name says.                            *)
THEOREM SetsRightHolds ==
  ASSUME Bits!BitsetAssumption
  PROVE  Bits!Spec => [](Bits!TypeOK /\ Bits!AsSets /\ Bits!PicksWanted) /\ [][Bits!AsNamed]_sets
<1>1. Bits!Init => BitsInv
  <2> SUFFICES ASSUME Bits!Init PROVE BitsInv
    OBVIOUS
  <2>1. \A s \in Names : sets[s] = Bits!Zeros(0)
    BY DEF Bits!Init
  <2>2. \A s \in Names : IsBitset(sets[s])
    BY <2>1, ZerosType
  <2> QED BY <2>2 DEF BitsInv, Bits!Init
<1>2. BitsInv /\ [Bits!Next]_sets => BitsInv'
  BY BitsStep
<1>3. BitsInv => Bits!TypeOK /\ Bits!AsSets /\ Bits!PicksWanted
  BY BitsGive
<1>4. BitsInv => Bits!AsNamed
  BY BitsNamed
<1> QED BY <1>1, <1>2, <1>3, <1>4, PTL DEF Bits!Spec

-----------------------------------------------------------------------------
(* The trackers.                                                            *)

CONSTANTS NTorrents, Hosts, MyId, NoId, MAXCONN, Missing, Answers, Step, MaxAge

VARIABLES dls, age, reported, nstatus, strangers, serving, told, heard

Track == INSTANCE Tracker

LEMMA UpTo ==
  ASSUME NEW n \in Nat, NEW A, 0 \in A, \A i \in 1 .. n : i - 1 \in A => i \in A
  PROVE  \A i \in 0 .. n : i \in A
<1> DEFINE Bad == {i \in 0 .. n : i \notin A}
<1> SUFFICES ASSUME Bad # {} PROVE FALSE
  OBVIOUS
<1>1. PICK m \in Bad : \A k \in Bad : m <= k
  <2>1. Bad \in SUBSET Nat
    OBVIOUS
  <2> HIDE DEF Bad
  <2> QED BY <2>1, LeastExists
<1>2. m \in 1 .. n /\ m - 1 \in 0 .. n /\ ~(m <= m - 1)
  BY <1>1
<1>3. m - 1 \in A
  BY <1>1, <1>2
<1> QED BY <1>1, <1>2, <1>3

(* How many peers there are.                                                *)
Sums(d, g, m) == g = [t \in 0..m |-> IF t = 0 THEN 0 ELSE g[t - 1] + Len(d[t].peers)]

Counted(d) == \A t \in 1 .. NTorrents : Len(d[t].peers) \in Nat

LEMMA SumsExist ==
  ASSUME NEW n \in Nat, NEW d
  PROVE  \E g : Sums(d, g, n)
<1> DEFINE A == {m \in Nat : \E g : Sums(d, g, m)}
<1>1. 0 \in A
  <2>1. Sums(d, [t \in 0..0 |-> 0], 0)
    BY DEF Sums
  <2> QED BY <2>1
<1>2. ASSUME NEW m \in 1..n, m - 1 \in A
      PROVE  m \in A
  <2>1. PICK g : Sums(d, g, m - 1)
    BY <1>2
  <2> DEFINE h == [t \in 0..m |-> IF t = m THEN g[m - 1] + Len(d[m].peers) ELSE g[t]]
  <2>2. \A t \in 0..m : h[t] = IF t = 0 THEN 0 ELSE h[t - 1] + Len(d[t].peers)
    <3>1. \A t \in 0..m-1 : g[t] = IF t = 0 THEN 0 ELSE g[t - 1] + Len(d[t].peers)
      BY <2>1 DEF Sums
    <3>2. \A t \in 0..m : t # m => t \in 0..m-1
      OBVIOUS
    <3>3. \A t \in 0..m : t # 0 => t - 1 \in 0..m /\ t - 1 # m /\ h[t - 1] = g[t - 1]
      OBVIOUS
    <3>4. m # 0
      OBVIOUS
    <3> QED BY <3>1, <3>2, <3>3, <3>4
  <2>3. h = [t \in 0..m |-> h[t]]
    OBVIOUS
  <2> HIDE DEF h
  <2>4. Sums(d, h, m)
    BY <2>2, <2>3 DEF Sums
  <2> QED BY <2>4
<1> HIDE DEF A
<1>3. n \in A
  BY <1>1, <1>2, UpTo
<1> QED BY <1>3 DEF A

LEMMA CountIs ==
  ASSUME NTorrents \in Nat, NEW d, Counted(d)
  PROVE  \E g \in [0 .. NTorrents -> Nat] :
           /\ g[0] = 0 /\ Track!PeerCount(d) = g[NTorrents]
           /\ \A t \in 1 .. NTorrents : g[t] = g[t - 1] + Len(d[t].peers)
<1> DEFINE g == CHOOSE h : Sums(d, h, NTorrents)
<1>1. Track!PeerCount(d) = g[NTorrents]
  BY Zenon DEF Track!PeerCount, Sums
<1>2. Sums(d, g, NTorrents)
  BY SumsExist
<1> HIDE DEF g
<1>3. g = [t \in 0 .. NTorrents |-> g[t]]
      /\ \A t \in 0 .. NTorrents : g[t] = IF t = 0 THEN 0 ELSE g[t - 1] + Len(d[t].peers)
  BY <1>2 DEF Sums
<1> DEFINE A == {t \in 0 .. NTorrents : g[t] \in Nat}
<1>4. 0 \in A
  BY <1>3
<1>5. ASSUME NEW t \in 1 .. NTorrents, t - 1 \in A PROVE t \in A
  BY <1>3, <1>5 DEF Counted
<1> HIDE DEF A
<1>6. \A t \in 0 .. NTorrents : t \in A
  BY <1>4, <1>5, UpTo
<1>7. g \in [0 .. NTorrents -> Nat]
  BY <1>3, <1>6 DEF A
<1> QED BY SMTT(30), <1>1, <1>3, <1>7

LEMMA CountMost ==
  ASSUME NTorrents \in Nat, NEW d, Counted(d), NEW u \in 1 .. NTorrents
  PROVE  Track!PeerCount(d) \in Nat /\ Len(d[u].peers) <= Track!PeerCount(d)
<1>1. PICK g \in [0 .. NTorrents -> Nat] :
        /\ g[0] = 0 /\ Track!PeerCount(d) = g[NTorrents]
        /\ \A t \in 1 .. NTorrents : g[t] = g[t - 1] + Len(d[t].peers)
  BY CountIs
<1>2. PICK n \in Nat : n = Len(d[u].peers)
  BY DEF Counted
<1> DEFINE A == {t \in 0 .. NTorrents : t >= u => g[t] >= n}
<1>3. 0 \in A
  OBVIOUS
<1>4. ASSUME NEW t \in 1 .. NTorrents, t - 1 \in A PROVE t \in A
  <2>1. PICK l \in Nat : l = Len(d[t].peers)
    BY DEF Counted
  <2>2. g[t] = g[t - 1] + l /\ (t = u => l = n)
    BY <1>1, <1>2, <2>1
  <2>3. t - 1 \in 0 .. NTorrents /\ t \in 0 .. NTorrents /\ (t - 1 >= u => g[t - 1] >= n)
    BY <1>4
  <2>4. PICK a \in Nat : a = g[t - 1]
    BY <2>3
  <2>5. g[t] = a + l /\ (t - 1 >= u => a >= n)
    BY <2>2, <2>3, <2>4
  <2>6. t >= u => g[t] >= n
    BY <2>2, <2>5
  <2> QED BY <2>3, <2>6
<1> HIDE DEF A
<1>5. \A t \in 0 .. NTorrents : t \in A
  BY <1>3, <1>4, UpTo
<1>6. NTorrents \in 0 .. NTorrents /\ NTorrents >= u
  OBVIOUS
<1>7. g[NTorrents] >= n /\ g[NTorrents] \in Nat
  BY <1>1, <1>5, <1>6 DEF A
<1> QED BY <1>1, <1>2, <1>7

LEMMA CountStep ==
  ASSUME NTorrents \in Nat, NEW d, NEW e, Counted(d), Counted(e), NEW u \in 1 .. NTorrents, NEW k \in Int,
         \A t \in 1 .. NTorrents : Len(e[t].peers) = IF t = u THEN Len(d[t].peers) + k ELSE Len(d[t].peers)
  PROVE  Track!PeerCount(e) = Track!PeerCount(d) + k
<1>1. PICK g \in [0 .. NTorrents -> Nat] :
        /\ g[0] = 0 /\ Track!PeerCount(d) = g[NTorrents]
        /\ \A t \in 1 .. NTorrents : g[t] = g[t - 1] + Len(d[t].peers)
  BY CountIs
<1>2. PICK h \in [0 .. NTorrents -> Nat] :
        /\ h[0] = 0 /\ Track!PeerCount(e) = h[NTorrents]
        /\ \A t \in 1 .. NTorrents : h[t] = h[t - 1] + Len(e[t].peers)
  BY CountIs
<1> DEFINE A == {t \in 0 .. NTorrents : h[t] = IF t >= u THEN g[t] + k ELSE g[t]}
<1>3. 0 \in A
  BY <1>1, <1>2
<1>4. ASSUME NEW t \in 1 .. NTorrents, t - 1 \in A PROVE t \in A
  <2>1. t - 1 \in 0 .. NTorrents /\ t \in 0 .. NTorrents
        /\ h[t - 1] = IF t - 1 >= u THEN g[t - 1] + k ELSE g[t - 1]
    BY <1>4
  <2>2. PICK l \in Nat : l = Len(d[t].peers)
    BY DEF Counted
  <2>3. PICK m \in Nat : m = Len(e[t].peers)
    BY DEF Counted
  <2>4. PICK a \in Nat : a = g[t - 1]
    BY <2>1
  <2>5. PICK b \in Nat : b = h[t - 1]
    BY <2>1
  <2>6. g[t] = a + l
    BY <1>1, <2>2, <2>4
  <2>7. h[t] = b + m
    BY <1>2, <2>3, <2>5
  <2>8. m = IF t = u THEN l + k ELSE l
    BY <2>2, <2>3
  <2>9. b = IF t - 1 >= u THEN a + k ELSE a
    BY <2>1, <2>4, <2>5
  <2>10. b + m = IF t >= u THEN (a + l) + k ELSE a + l
    BY ONLY <2>8, <2>9, a \in Nat, b \in Nat, l \in Nat, m \in Nat, k \in Int, NTorrents \in Nat,
            t \in 1 .. NTorrents, u \in 1 .. NTorrents
  <2>11. h[t] = IF t >= u THEN g[t] + k ELSE g[t]
    BY <2>6, <2>7, <2>10, Zenon
  <2> QED BY <2>1, <2>11
<1> HIDE DEF A
<1>5. \A t \in 0 .. NTorrents : t \in A
  BY <1>3, <1>4, UpTo
<1>6. NTorrents \in 0 .. NTorrents /\ NTorrents >= u
  OBVIOUS
<1>7. h[NTorrents] = g[NTorrents] + k
  BY <1>5, <1>6 DEF A
<1> QED BY <1>1, <1>2, <1>7

-----------------------------------------------------------------------------
(* What holds after each answer: C is Track!Now in the middle of an action, *)
(* s the connections that have not named a torrent.                         *)
PeerType == [host : Hosts, id : {h.id : h \in Hosts} \cup {NoId}, port : Nat,
             kind : {a.kind : a \in Answers} \cup {"incoming"}]

DlType == [interval : {a.interval : a \in Answers}, complete : BOOLEAN, dl : Nat, left : Nat,
           peers : Seq(PeerType)]

StateType == [dls : [1 .. NTorrents -> DlType], nstatus : Nat, told : [1 .. NTorrents -> Nat]]

(* A peer a tracker has named by its id is there once. *)
PeersOk(ps) ==
  \A i \in 1 .. Len(ps) :
    /\ ps[i].id \in {ps[i].host.id, NoId}
    /\ ps[i].kind = "list" =>
         /\ ps[i].id = ps[i].host.id /\ ps[i].id # MyId
         /\ \A j \in 1 .. Len(ps) : ps[j].kind = "list" /\ ps[j].id = ps[i].id => i = j

Reported(d, n) ==
  /\ d.complete => d.left = 0
  /\ n = IF d.complete /\ d.dl > 0 THEN 1 ELSE 0

Good(C, s) ==
  /\ C \in StateType /\ C.nstatus \in 1 .. MAXCONN
  /\ C.nstatus = 1 + s + Track!PeerCount(C.dls)
  /\ \A t \in 1 .. NTorrents : PeersOk(C.dls[t].peers) /\ Reported(C.dls[t], C.told[t])

LEMMA StateCounted ==
  ASSUME NEW d \in [1 .. NTorrents -> DlType]
  PROVE  Counted(d) /\ \A t \in 1 .. NTorrents : d[t] \in DlType /\ d[t].peers \in Seq(PeerType)
<1>1. \A t \in 1 .. NTorrents : d[t] \in DlType
  OBVIOUS
<1>2. \A t \in 1 .. NTorrents : d[t].peers \in Seq(PeerType)
  BY <1>1 DEF DlType
<1>3. \A q \in Seq(PeerType) : Len(q) \in Nat
  OBVIOUS
<1> QED BY <1>1, <1>2, <1>3 DEF Counted

(* D is C with q for torrent t; r connections without a torrent, not s. *)
Replaces(C, t, q, n, m, D) ==
  D = [dls |-> [C.dls EXCEPT ![t] = q], nstatus |-> n, told |-> [C.told EXCEPT ![t] = m]]

Balanced(C, s, t, q, n, r) == n - r - Len(q.peers) = C.nstatus - s - Len(C.dls[t].peers)

LEMMA BecomesGood ==
  ASSUME NTorrents \in Nat, MAXCONN \in Nat, NEW s \in Nat, NEW C, Good(C, s),
         NEW t \in 1 .. NTorrents, NEW q \in DlType, PeersOk(q.peers), NEW m \in Nat, Reported(q, m),
         NEW r \in Nat, NEW n \in 1 .. MAXCONN,
         Balanced(C, s, t, q, n, r), NEW D, Replaces(C, t, q, n, m, D)
  PROVE  /\ Good(D, r) /\ D.dls[t] = q /\ D.told[t] = m /\ D.nstatus = n
         /\ \A u \in 1 .. NTorrents : u # t => D.dls[u] = C.dls[u] /\ D.told[u] = C.told[u]
<1>1. C \in StateType /\ C.nstatus \in Nat /\ C.dls \in [1 .. NTorrents -> DlType]
      /\ C.told \in [1 .. NTorrents -> Nat]
  BY DEF Good, StateType
<1>2. D.dls = [C.dls EXCEPT ![t] = q] /\ D.nstatus = n /\ D.told = [C.told EXCEPT ![t] = m]
      /\ D = [dls |-> D.dls, nstatus |-> D.nstatus, told |-> D.told]
  BY DEF Replaces
<1>3. D.dls \in [1 .. NTorrents -> DlType] /\ D.told \in [1 .. NTorrents -> Nat]
      /\ D.dls[t] = q /\ D.told[t] = m
      /\ \A u \in 1 .. NTorrents : u # t => D.dls[u] = C.dls[u] /\ D.told[u] = C.told[u]
  BY <1>1, <1>2
<1>4. D \in StateType
  <2>1. D.nstatus \in Nat
    BY <1>2
  <2> QED BY <1>2, <1>3, <2>1 DEF StateType
<1>5. \A u \in 1 .. NTorrents : PeersOk(D.dls[u].peers) /\ Reported(D.dls[u], D.told[u])
  <2> TAKE u \in 1 .. NTorrents
  <2>1. CASE u = t
    BY <1>3, <2>1
  <2>2. CASE u # t
    BY <1>3, <2>2 DEF Good
  <2> QED BY <2>1, <2>2
<1>6. D.nstatus = 1 + r + Track!PeerCount(D.dls)
  <2>1. Counted(C.dls) /\ Counted(D.dls)
    BY <1>1, <1>3, StateCounted
  <2>2. PICK a \in Nat : a = Len(C.dls[t].peers)
    BY <2>1 DEF Counted
  <2>3. PICK b \in Nat : b = Len(q.peers)
    BY <1>3, <2>1 DEF Counted
  <2>4. \A u \in 1 .. NTorrents :
          Len(D.dls[u].peers) = IF u = t THEN Len(C.dls[u].peers) + (b - a) ELSE Len(C.dls[u].peers)
    <3>1. b = a + (b - a)
      BY ONLY a \in Nat, b \in Nat
    <3> QED BY <1>3, <2>2, <2>3, <3>1
  <2>5. Track!PeerCount(D.dls) = Track!PeerCount(C.dls) + (b - a)
    <3>1. PICK k \in Int : k = b - a
      OBVIOUS
    <3>2. PICK d : d = C.dls
      OBVIOUS
    <3>3. PICK e : e = D.dls
      OBVIOUS
    <3>4. \A u \in 1 .. NTorrents : Len(e[u].peers) = IF u = t THEN Len(d[u].peers) + k ELSE Len(d[u].peers)
      BY <2>4, <3>1, <3>2, <3>3
    <3>5. Counted(d) /\ Counted(e)
      BY <2>1, <3>2, <3>3
    <3>6. Track!PeerCount(e) = Track!PeerCount(d) + k
      BY <3>4, <3>5, CountStep
    <3> QED BY <3>1, <3>2, <3>3, <3>6
  <2>6. PICK c \in Nat : c = Track!PeerCount(C.dls)
    BY <2>1, CountMost
  <2>7. C.nstatus = 1 + s + c
    BY <2>6 DEF Good
  <2>8. n - r - b = (1 + s + c) - s - a
    BY <2>2, <2>3, <2>7 DEF Balanced
  <2>9. n = 1 + r + (c + (b - a))
    BY ONLY <2>8, n \in 1 .. MAXCONN, MAXCONN \in Nat, r \in Nat, b \in Nat, s \in Nat, c \in Nat, a \in Nat
  <2> QED BY <1>2, <2>5, <2>6, <2>9
<1> QED BY <1>2, <1>3, <1>4, <1>5, <1>6 DEF Good

Newcomer(ps, p) ==
  /\ p.id \in {p.host.id, NoId}
  /\ p.kind = "list" => /\ p.id = p.host.id /\ p.id # MyId
                        /\ \A i \in 1 .. Len(ps) : ps[i].id # p.id

Appends(ps, p, qs) == qs = Append(ps, p)

LEMMA AppendOk ==
  ASSUME NEW ps \in Seq(PeerType), PeersOk(ps), NEW p \in PeerType, Newcomer(ps, p),
         NEW qs, Appends(ps, p, qs)
  PROVE  /\ qs \in Seq(PeerType) /\ PeersOk(qs) /\ Len(qs) = Len(ps) + 1 /\ qs[Len(qs)] = p
         /\ \A i \in 1 .. Len(ps) : i \in 1 .. Len(qs) /\ qs[i] = ps[i]
<1>1. PICK n \in Nat : n = Len(ps)
  OBVIOUS
<1>2. qs \in Seq(PeerType) /\ Len(qs) = n + 1 /\ qs[n + 1] = p /\ \A i \in 1 .. n : qs[i] = ps[i]
  BY <1>1 DEF Appends
<1>3. \A i \in 1 .. n + 1 : i = n + 1 \/ i \in 1 .. n
  OBVIOUS
<1>4. ASSUME NEW i \in 1 .. n + 1
      PROVE  /\ qs[i].id \in {qs[i].host.id, NoId}
             /\ qs[i].kind = "list" => qs[i].id = qs[i].host.id /\ qs[i].id # MyId
  BY <1>1, <1>2, <1>3 DEF PeersOk, Newcomer
<1>5. ASSUME NEW i \in 1 .. n + 1, NEW j \in 1 .. n + 1, qs[i].kind = "list", qs[j].kind = "list",
             qs[j].id = qs[i].id
      PROVE  i = j
  <2>1. CASE i \in 1 .. n /\ j \in 1 .. n
    BY <1>1, <1>2, <1>5, <2>1 DEF PeersOk
  <2>2. CASE i \in 1 .. n /\ j = n + 1
    BY <1>1, <1>2, <1>5, <2>2 DEF Newcomer
  <2>3. CASE i = n + 1 /\ j \in 1 .. n
    BY <1>1, <1>2, <1>5, <2>3 DEF Newcomer
  <2> QED BY <1>3, <2>1, <2>2, <2>3
<1>6. PeersOk(qs)
  BY <1>2, <1>4, <1>5 DEF PeersOk
<1>7. \A i \in 1 .. n : i \in 1 .. n + 1
  OBVIOUS
<1> QED BY <1>1, <1>2, <1>6, <1>7

LEMMA RemoveOk ==
  ASSUME NEW ps \in Seq(PeerType), PeersOk(ps), NEW k \in 1 .. Len(ps), NEW qs, qs = Track!RemoveAt(ps, k)
  PROVE  qs \in Seq(PeerType) /\ PeersOk(qs) /\ Len(qs) = Len(ps) - 1
<1>1. PICK n \in Nat : n = Len(ps)
  OBVIOUS
<1>2. k \in 1 .. n
  BY <1>1
<1>3. PICK a : a = SubSeq(ps, 1, k - 1)
  OBVIOUS
<1>4. PICK b : b = SubSeq(ps, k + 1, n)
  OBVIOUS
<1>5. a \in Seq(PeerType) /\ Len(a) = k - 1 /\ \A i \in 1 .. k - 1 : a[i] = ps[i]
  <2>1. \A i \in 1 .. k - 1 : ps[i] \in PeerType /\ 1 + i - 1 = i
    BY <1>1, <1>2
  <2>2. SubSeq(ps, 1, k - 1) \in Seq(PeerType)
        /\ Len(SubSeq(ps, 1, k - 1)) = (IF 1 <= k - 1 THEN (k - 1) - 1 + 1 ELSE 0)
        /\ \A i \in 1 .. (k - 1) - 1 + 1 : SubSeq(ps, 1, k - 1)[i] = ps[1 + i - 1]
    BY <1>2, <2>1, SubSeqProperties
  <2>3. a \in Seq(PeerType) /\ Len(a) = (IF 1 <= k - 1 THEN (k - 1) - 1 + 1 ELSE 0)
        /\ \A i \in 1 .. (k - 1) - 1 + 1 : a[i] = ps[1 + i - 1]
    BY <1>3, <2>2, Zenon
  <2>4. (k - 1) - 1 + 1 = k - 1 /\ (IF 1 <= k - 1 THEN (k - 1) - 1 + 1 ELSE 0) = k - 1
    BY <1>2
  <2> QED BY <2>1, <2>3, <2>4
<1>6. b \in Seq(PeerType) /\ Len(b) = n - k /\ \A i \in 1 .. n - k : b[i] = ps[k + i]
  <2>1. \A i \in k + 1 .. n : ps[i] \in PeerType
    BY <1>1, <1>2
  <2>2. SubSeq(ps, k + 1, n) \in Seq(PeerType)
        /\ Len(SubSeq(ps, k + 1, n)) = (IF k + 1 <= n THEN n - (k + 1) + 1 ELSE 0)
        /\ \A i \in 1 .. n - (k + 1) + 1 : SubSeq(ps, k + 1, n)[i] = ps[(k + 1) + i - 1]
    BY <1>2, <2>1, SubSeqProperties
  <2>3. b \in Seq(PeerType) /\ Len(b) = (IF k + 1 <= n THEN n - (k + 1) + 1 ELSE 0)
        /\ \A i \in 1 .. n - (k + 1) + 1 : b[i] = ps[(k + 1) + i - 1]
    BY <1>4, <2>2, Zenon
  <2>4. n - (k + 1) + 1 = n - k /\ (IF k + 1 <= n THEN n - (k + 1) + 1 ELSE 0) = n - k
        /\ \A i \in 1 .. n - k : (k + 1) + i - 1 = k + i
    BY <1>2
  <2> QED BY <2>3, <2>4
<1>7. qs = a \o b
  BY <1>1, <1>3, <1>4 DEF Track!RemoveAt
<1>8. qs \in Seq(PeerType) /\ Len(qs) = n - 1
  <2>1. (k - 1) + (n - k) = n - 1
    BY <1>2
  <2>2. a \o b \in Seq(PeerType) /\ Len(a \o b) = Len(a) + Len(b)
    BY <1>5, <1>6, ConcatProperties
  <2> QED BY <1>5, <1>6, <1>7, <2>1, <2>2
(* The places of the others. *)
<1> DEFINE from(i) == IF i < k THEN i ELSE i + 1
<1>9. ASSUME NEW i \in 1 .. n - 1
      PROVE  qs[i] = ps[from(i)] /\ from(i) \in 1 .. n
  <2>1. CASE i < k
    <3>1. i \in 1 .. k - 1 /\ i \in 1 .. Len(a)
      BY <1>2, <1>5, <2>1
    <3> QED BY <1>2, <1>5, <1>7, <2>1, <3>1
  <2>2. CASE ~(i < k)
    <3>1. i - (k - 1) \in 1 .. n - k /\ k + (i - (k - 1)) = i + 1
      BY <1>2, <2>2
    <3>2. qs[i] = b[i - (k - 1)]
      BY <1>2, <1>5, <1>6, <1>7, <2>2, <3>1
    <3>3. b[i - (k - 1)] = ps[i + 1]
      BY <1>6, <3>1
    <3> QED BY <1>2, <2>2, <3>2, <3>3
  <2> QED BY <2>1, <2>2
<1>10. \A i, j \in 1 .. n - 1 : from(i) = from(j) => i = j
  BY <1>2
<1> HIDE DEF from
<1>11. PeersOk(qs)
  <2>1. ASSUME NEW i \in 1 .. n - 1
        PROVE  /\ qs[i].id \in {qs[i].host.id, NoId}
               /\ qs[i].kind = "list" => qs[i].id = qs[i].host.id /\ qs[i].id # MyId
    BY <1>1, <1>9 DEF PeersOk
  <2>2. ASSUME NEW i \in 1 .. n - 1, NEW j \in 1 .. n - 1, qs[i].kind = "list", qs[j].kind = "list",
               qs[j].id = qs[i].id
        PROVE  i = j
    <3>1. PICK g \in 1 .. n : g = from(i) /\ qs[i] = ps[g]
      BY <1>9
    <3>2. PICK h \in 1 .. n : h = from(j) /\ qs[j] = ps[h]
      BY <1>9
    <3>3. g = h
      BY <1>1, <2>2, <3>1, <3>2 DEF PeersOk
    <3> QED BY <1>10, <3>1, <3>2, <3>3
  <2> QED BY <1>8, <2>1, <2>2 DEF PeersOk
<1> QED BY <1>1, <1>8, <1>11

-----------------------------------------------------------------------------
(* The answers.                                                             *)

(* Nothing is to be done any more about a host a tracker has named. *)
Tried(C, t, h) ==
  \/ h.id = MyId \/ C.nstatus = MAXCONN
  \/ \E i \in 1 .. Len(C.dls[t].peers) : C.dls[t].peers[i].id = h.id

StillTried(C, D) == \A u \in 1 .. NTorrents : \A h \in Hosts : Tried(C, u, h) => Tried(D, u, h)

Take(C, t, h, kind) == IF Track!Skipped(C, t, h, kind) THEN C ELSE Track!PeerAdd(C, t, h, kind)

LEMMA PeersSet ==
  ASSUME NEW d \in DlType, NEW ps \in Seq(PeerType), NEW q, q = [d EXCEPT !.peers = ps]
  PROVE  /\ q \in DlType /\ q.peers = ps /\ q.interval = d.interval /\ q.complete = d.complete
         /\ q.dl = d.dl /\ q.left = d.left
  BY DEF DlType

LEMMA ConstantTypes ==
  ASSUME Track!TrackerAssumption
  PROVE  /\ NTorrents \in Nat /\ NTorrents > 0 /\ MAXCONN \in Nat /\ MAXCONN > 0 /\ MaxAge \in Nat
         /\ Missing \subseteq Nat /\ \A h \in Hosts : h.port \in Nat
         /\ Track!NoAnswer \in Answers
         /\ \A a \in Answers : /\ a.interval \in Nat /\ a.hosts \in Seq(Hosts) /\ Len(a.hosts) \in Nat
                               /\ a.kind = "list" => a.ok
  BY DEF Track!TrackerAssumption

Adds(C, t, p, D) == D = [C EXCEPT !.nstatus = @ + 1, !.dls[t].peers = Append(@, p)]

LEMMA AddIs ==
  ASSUME Track!TrackerAssumption, NEW s \in Nat, NEW C, Good(C, s), NEW t \in 1 .. NTorrents,
         C.nstatus < MAXCONN, NEW p \in PeerType, Newcomer(C.dls[t].peers, p),
         NEW D, Adds(C, t, p, D)
  PROVE  /\ Good(D, s) /\ StillTried(C, D) /\ \A u \in 1 .. NTorrents : D.dls[u].interval = C.dls[u].interval
         /\ Len(D.dls[t].peers) \in 1 .. Len(D.dls[t].peers) /\ D.dls[t].peers[Len(D.dls[t].peers)] = p
<1>0. NTorrents \in Nat /\ MAXCONN \in Nat
  BY ConstantTypes
<1>1. /\ C = [dls |-> C.dls, nstatus |-> C.nstatus, told |-> C.told]
      /\ C.dls \in [1 .. NTorrents -> DlType] /\ C.told \in [1 .. NTorrents -> Nat] /\ C.nstatus \in 1 .. MAXCONN
      /\ PeersOk(C.dls[t].peers) /\ Reported(C.dls[t], C.told[t])
  BY DEF Good, StateType
<1>2. PICK d \in DlType : d = C.dls[t]
  BY <1>1
<1>3. PICK ps \in Seq(PeerType) : ps = d.peers
  BY DEF DlType
<1>4. PICK qs : Appends(ps, p, qs)
  BY DEF Appends
<1>5. /\ qs \in Seq(PeerType) /\ PeersOk(qs) /\ Len(qs) = Len(ps) + 1 /\ qs[Len(qs)] = p
      /\ \A i \in 1 .. Len(ps) : i \in 1 .. Len(qs) /\ qs[i] = ps[i]
  <2>1. PeersOk(ps) /\ Newcomer(ps, p)
    BY <1>1, <1>2, <1>3
  <2> QED BY <1>4, <2>1, AppendOk
<1>6. PICK q : q = [d EXCEPT !.peers = qs]
  OBVIOUS
<1>7. /\ q \in DlType /\ q.peers = qs /\ q.interval = d.interval /\ q.complete = d.complete
      /\ q.dl = d.dl /\ q.left = d.left
  BY <1>5, <1>6, PeersSet
<1>8. PICK m \in Nat : m = C.told[t]
  BY <1>1
<1>9. Reported(q, m)
  BY <1>1, <1>2, <1>7, <1>8 DEF Reported
<1>10. PICK n \in 1 .. MAXCONN : n = C.nstatus + 1
  BY <1>0, <1>1
<1>11. Balanced(C, s, t, q, n, s)
  <2>1. PICK l \in Nat : l = Len(ps)
    BY <1>3
  <2>2. PICK k \in Nat : k = C.nstatus
    BY <1>0, <1>1
  <2>3. (k + 1) - s - (l + 1) = k - s - l
    BY ONLY l \in Nat, k \in Nat, s \in Nat
  <2> QED BY <1>2, <1>3, <1>5, <1>7, <1>10, <2>1, <2>2, <2>3 DEF Balanced
<1>12. Replaces(C, t, q, n, m, D)
  <2>1. [C.told EXCEPT ![t] = m] = C.told
    BY <1>1, <1>8
  <2>2. D = [dls |-> [C.dls EXCEPT ![t].peers = Append(@, p)], nstatus |-> C.nstatus + 1, told |-> C.told]
    BY <1>1 DEF Adds
  <2>3. [C.dls EXCEPT ![t].peers = Append(@, p)] = [C.dls EXCEPT ![t] = q]
    BY <1>1, <1>2, <1>3, <1>4, <1>6 DEF Appends
  <2> QED BY <1>10, <2>1, <2>2, <2>3 DEF Replaces
<1>13. /\ Good(D, s) /\ D.dls[t] = q /\ D.nstatus = n
       /\ \A u \in 1 .. NTorrents : u # t => D.dls[u] = C.dls[u]
  BY <1>0, <1>7, <1>5, <1>9, <1>11, <1>12, BecomesGood
<1>14. Len(qs) \in 1 .. Len(qs)
  BY <1>3, <1>5
<1>15. StillTried(C, D)
  <2> SUFFICES ASSUME NEW u \in 1 .. NTorrents, NEW h \in Hosts, Tried(C, u, h) PROVE Tried(D, u, h)
    BY DEF StillTried
  <2>1. C.nstatus # MAXCONN
    BY <1>0, <1>1
  <2>2. CASE u # t
    BY <1>13, <2>1, <2>2 DEF Tried
  <2>3. CASE u = t
    BY <1>2, <1>3, <1>5, <1>7, <1>13, <2>1, <2>3 DEF Tried
  <2> QED BY <2>2, <2>3
<1> QED BY <1>2, <1>5, <1>7, <1>13, <1>14, <1>15

LEMMA TakeIs ==
  ASSUME Track!TrackerAssumption, NEW s \in Nat, NEW C, Good(C, s), NEW t \in 1 .. NTorrents,
         NEW a \in Answers, NEW h \in Hosts, NEW D, D = Take(C, t, h, a.kind)
  PROVE  /\ Good(D, s) /\ StillTried(C, D) /\ \A u \in 1 .. NTorrents : D.dls[u].interval = C.dls[u].interval
         /\ a.kind = "list" => Tried(D, t, h)
<1>0. NTorrents \in Nat /\ MAXCONN \in Nat
  BY ConstantTypes
<1>1. /\ C.dls \in [1 .. NTorrents -> DlType] /\ C.nstatus \in 1 .. MAXCONN
      /\ C.dls[t].peers \in Seq(PeerType)
  <2>1. C.dls \in [1 .. NTorrents -> DlType] /\ C.nstatus \in 1 .. MAXCONN
    BY DEF Good, StateType
  <2> QED BY <2>1, StateCounted
<1>2. Track!Range(C.dls[t].peers) = {C.dls[t].peers[i] : i \in 1 .. Len(C.dls[t].peers)}
  BY <1>1 DEF Track!Range
<1>3. StillTried(C, C)
  BY DEF StillTried
<1>4. CASE Track!Skipped(C, t, h, a.kind)
  <2>1. D = C
    BY <1>4 DEF Take
  <2>2. a.kind = "list" => Tried(C, t, h)
    BY <1>2, <1>4 DEF Track!Skipped, Tried
  <2> QED BY <1>3, <2>1, <2>2
<1>5. CASE ~Track!Skipped(C, t, h, a.kind)
  <2>1. D = Track!PeerAdd(C, t, h, a.kind)
    BY <1>5 DEF Take
  <2>2. CASE C.nstatus >= MAXCONN
    <3>1. D = C /\ C.nstatus = MAXCONN
      BY <1>0, <1>1, <2>1, <2>2 DEF Track!PeerAdd
    <3> QED BY <1>3, <3>1 DEF Tried
  <2>3. CASE ~(C.nstatus >= MAXCONN)
    <3>1. PICK p : p = [host |-> h, id |-> IF a.kind = "list" THEN h.id ELSE NoId,
                        port |-> h.port, kind |-> a.kind]
      OBVIOUS
    <3>2. Adds(C, t, p, D)
      BY <2>1, <2>3, <3>1 DEF Track!PeerAdd, Adds
    <3>3. p \in PeerType /\ p.id \in {p.host.id, NoId} /\ p.kind = a.kind
          /\ (p.kind = "list" => p.id = p.host.id /\ p.id = h.id)
      <4>1. h.port \in Nat /\ h.id \in {g.id : g \in Hosts} \cup {NoId} /\ NoId \in {g.id : g \in Hosts} \cup {NoId}
            /\ a.kind \in {b.kind : b \in Answers} \cup {"incoming"}
        BY ConstantTypes
      <4> QED BY <3>1, <4>1 DEF PeerType
    <3>4. Newcomer(C.dls[t].peers, p)
      BY <1>2, <1>5, <3>3 DEF Track!Skipped, Newcomer
    <3>5. C.nstatus < MAXCONN
      BY <1>0, <1>1, <2>3
    <3>6. /\ Good(D, s) /\ StillTried(C, D) /\ \A u \in 1 .. NTorrents : D.dls[u].interval = C.dls[u].interval
          /\ Len(D.dls[t].peers) \in 1 .. Len(D.dls[t].peers) /\ D.dls[t].peers[Len(D.dls[t].peers)] = p
      BY <3>2, <3>3, <3>4, <3>5, AddIs
    <3>7. a.kind = "list" => Tried(D, t, h)
      BY <3>3, <3>6 DEF Tried
    <3> QED BY <3>6, <3>7
  <2> QED BY <2>2, <2>3
<1> QED BY <1>4, <1>5

(* btresponse(), a host at a time. *)
Takes(C, t, a, g, m) ==
  g = [i \in 0..m |-> IF i = 0 THEN [C EXCEPT !.dls[t].interval = a.interval]
                      ELSE Take(g[i - 1], t, a.hosts[i], a.kind)]

LEMMA TakesExist ==
  ASSUME NEW n \in Nat, NEW C, NEW t, NEW a
  PROVE  \E g : Takes(C, t, a, g, n)
<1> DEFINE A == {m \in Nat : \E g : Takes(C, t, a, g, m)}
<1>1. 0 \in A
  <2>1. Takes(C, t, a, [i \in 0..0 |-> [C EXCEPT !.dls[t].interval = a.interval]], 0)
    BY DEF Takes
  <2> QED BY <2>1
<1>2. ASSUME NEW m \in 1..n, m - 1 \in A
      PROVE  m \in A
  <2>1. PICK g : Takes(C, t, a, g, m - 1)
    BY <1>2
  <2> DEFINE h == [i \in 0..m |-> IF i = m THEN Take(g[m - 1], t, a.hosts[m], a.kind) ELSE g[i]]
  <2>2. \A i \in 0..m : h[i] = IF i = 0 THEN [C EXCEPT !.dls[t].interval = a.interval] ELSE Take(h[i - 1], t, a.hosts[i], a.kind)
    <3>1. \A i \in 0..m-1 : g[i] = IF i = 0 THEN [C EXCEPT !.dls[t].interval = a.interval] ELSE Take(g[i - 1], t, a.hosts[i], a.kind)
      BY <2>1 DEF Takes
    <3>2. \A i \in 0..m : i # m => i \in 0..m-1
      OBVIOUS
    <3>3. \A i \in 0..m : i # 0 => i - 1 \in 0..m /\ i - 1 # m /\ h[i - 1] = g[i - 1]
      OBVIOUS
    <3>4. m # 0
      OBVIOUS
    <3> QED BY <3>1, <3>2, <3>3, <3>4
  <2>3. h = [i \in 0..m |-> h[i]]
    OBVIOUS
  <2> HIDE DEF h
  <2>4. Takes(C, t, a, h, m)
    BY <2>2, <2>3 DEF Takes
  <2> QED BY <2>4
<1> HIDE DEF A
<1>3. n \in A
  BY <1>1, <1>2, UpTo
<1> QED BY <1>3 DEF A


Relays(C, t, a, D) == D = [C EXCEPT !.dls[t].interval = a.interval]

LEMMA IntervalIs ==
  ASSUME Track!TrackerAssumption, NEW s \in Nat, NEW C, Good(C, s), NEW t \in 1 .. NTorrents,
         NEW a \in Answers, NEW D, Relays(C, t, a, D)
  PROVE  /\ Good(D, s) /\ StillTried(C, D)
         /\ \A u \in 1 .. NTorrents : u # t => D.dls[u].interval = C.dls[u].interval
<1>0. NTorrents \in Nat /\ MAXCONN \in Nat
  BY ConstantTypes
<1>1. /\ C = [dls |-> C.dls, nstatus |-> C.nstatus, told |-> C.told]
      /\ C.dls \in [1 .. NTorrents -> DlType] /\ C.told \in [1 .. NTorrents -> Nat] /\ C.nstatus \in 1 .. MAXCONN
      /\ PeersOk(C.dls[t].peers) /\ Reported(C.dls[t], C.told[t])
  BY DEF Good, StateType
<1>2. PICK d \in DlType : d = C.dls[t]
  BY <1>1
<1>3. PICK q : q = [d EXCEPT !.interval = a.interval]
  OBVIOUS
<1>4. /\ q \in DlType /\ q.peers = d.peers /\ q.complete = d.complete /\ q.dl = d.dl /\ q.left = d.left
  BY <1>3 DEF DlType
<1>5. PICK m \in Nat : m = C.told[t]
  BY <1>1
<1>6. Reported(q, m) /\ PeersOk(q.peers)
  BY <1>1, <1>2, <1>4, <1>5 DEF Reported
<1>7. PICK n \in 1 .. MAXCONN : n = C.nstatus
  BY <1>1
<1>8. Replaces(C, t, q, n, m, D)
  <2>1. [C.told EXCEPT ![t] = m] = C.told
    BY <1>1, <1>5
  <2>2. D = [dls |-> [C.dls EXCEPT ![t].interval = a.interval], nstatus |-> C.nstatus, told |-> C.told]
    BY <1>1 DEF Relays
  <2>3. [C.dls EXCEPT ![t].interval = a.interval] = [C.dls EXCEPT ![t] = q]
    BY <1>1, <1>2, <1>3
  <2> QED BY <1>7, <2>1, <2>2, <2>3 DEF Replaces
<1>9. /\ Good(D, s) /\ D.dls[t] = q /\ D.nstatus = n
      /\ \A u \in 1 .. NTorrents : u # t => D.dls[u] = C.dls[u]
  <2>1. Balanced(C, s, t, q, n, s)
    BY <1>2, <1>4, <1>7 DEF Balanced
  <2> QED BY <1>0, <1>4, <1>6, <1>8, <2>1, BecomesGood
<1>10. StillTried(C, D)
  <2>1. \A u \in 1 .. NTorrents : D.dls[u].peers = C.dls[u].peers
    BY <1>2, <1>4, <1>9
  <2> QED BY <1>7, <1>9, <2>1 DEF StillTried, Tried
<1> QED BY <1>9, <1>10

(* After k of the hosts of answer a for torrent t, given in the state C. *)
Answered(C, s, t, a, k, D) ==
  /\ Good(D, s) /\ StillTried(C, D)
  /\ \A u \in 1 .. NTorrents : u # t => D.dls[u].interval = C.dls[u].interval
  /\ a.kind = "list" => \A j \in 1 .. k : Tried(D, t, a.hosts[j])

LEMMA AnsweredStep ==
  ASSUME Track!TrackerAssumption, NEW s \in Nat, NEW C, NEW t \in 1 .. NTorrents, NEW a \in Answers,
         NEW k \in 1 .. Len(a.hosts), NEW D, Answered(C, s, t, a, k - 1, D),
         NEW E, E = Take(D, t, a.hosts[k], a.kind)
  PROVE  Answered(C, s, t, a, k, E)
<1>1. a.hosts \in Seq(Hosts) /\ Len(a.hosts) \in Nat /\ \A j \in 1 .. Len(a.hosts) : a.hosts[j] \in Hosts
  BY ConstantTypes
<1>2. PICK h \in Hosts : h = a.hosts[k]
  BY <1>1
<1>3. Good(D, s) /\ StillTried(C, D) /\ \A u \in 1 .. NTorrents : u # t => D.dls[u].interval = C.dls[u].interval
  BY DEF Answered
<1>4. E = Take(D, t, h, a.kind)
  BY <1>2
<1>5. /\ Good(E, s) /\ StillTried(D, E) /\ \A u \in 1 .. NTorrents : E.dls[u].interval = D.dls[u].interval
      /\ a.kind = "list" => Tried(E, t, h)
  BY <1>3, <1>4, TakeIs
<1>6. StillTried(C, E)
  BY <1>3, <1>5 DEF StillTried
<1>7. ASSUME a.kind = "list", NEW j \in 1 .. k PROVE Tried(E, t, a.hosts[j])
  <2>1. CASE j = k
    BY <1>2, <1>5, <1>7, <2>1
  <2>2. CASE j # k
    <3>1. j \in 1 .. k - 1 /\ j \in 1 .. Len(a.hosts)
      BY <1>1, <2>2
    <3>2. Tried(D, t, a.hosts[j]) /\ a.hosts[j] \in Hosts
      BY <1>1, <1>7, <3>1 DEF Answered
    <3> QED BY <1>5, <3>2 DEF StillTried
  <2> QED BY <2>1, <2>2
<1> QED BY <1>3, <1>5, <1>6, <1>7 DEF Answered

LEMMA AnswerIs ==
  ASSUME Track!TrackerAssumption, NEW s \in Nat, NEW C, Good(C, s), NEW t \in 1 .. NTorrents,
         NEW a \in Answers, NEW D, D = Track!Btresponse(C, t, a)
  PROVE  Answered(C, s, t, a, Len(a.hosts), D)
<1>1. PICK n \in Nat : n = Len(a.hosts)
  BY ConstantTypes
<1>2. CASE ~a.ok
  <2>1. D = C
    BY <1>2, Zenon DEF Track!Btresponse
  <2>2. a.kind # "list"
    BY <1>2, ConstantTypes
  <2>3. StillTried(C, C)
    BY DEF StillTried
  <2> QED BY <2>1, <2>2, <2>3 DEF Answered
<1>3. CASE a.ok
  <2> DEFINE g == CHOOSE h : Takes(C, t, a, h, n)
  <2>1. D = g[n]
    BY <1>1, <1>3, Zenon DEF Track!Btresponse, Takes, Take
  <2>2. Takes(C, t, a, g, n)
    BY TakesExist
  <2> HIDE DEF g
  <2>3. \A i \in 0 .. n : g[i] = IF i = 0 THEN [C EXCEPT !.dls[t].interval = a.interval]
                                 ELSE Take(g[i - 1], t, a.hosts[i], a.kind)
    BY <2>2, Zenon DEF Takes
  <2> DEFINE A == {i \in 0 .. n : Answered(C, s, t, a, i, g[i])}
  <2>4. 0 \in A
    <3>1. PICK E : Relays(C, t, a, E)
      BY DEF Relays
    <3>2. E = g[0] /\ 0 \in 0 .. n
      BY <2>3, <3>1 DEF Relays
    <3>3. Answered(C, s, t, a, 0, E)
      <4>1. Good(E, s) /\ StillTried(C, E) /\ \A u \in 1 .. NTorrents : u # t => E.dls[u].interval = C.dls[u].interval
        BY <3>1, IntervalIs
      <4> QED BY <4>1 DEF Answered
    <3> QED BY <3>2, <3>3
  <2>5. ASSUME NEW i \in 1 .. n, i - 1 \in A PROVE i \in A
    <3>1. i \in 0 .. n /\ i # 0 /\ i \in 1 .. Len(a.hosts)
      BY <1>1
    <3>2. PICK B : B = g[i - 1]
      OBVIOUS
    <3>3. PICK E : E = g[i]
      OBVIOUS
    <3>4. E = Take(B, t, a.hosts[i], a.kind) /\ Answered(C, s, t, a, i - 1, B)
      BY <2>3, <2>5, <3>1, <3>2, <3>3
    <3>5. Answered(C, s, t, a, i, E)
      BY <3>1, <3>4, AnsweredStep
    <3> QED BY <3>1, <3>3, <3>5
  <2> HIDE DEF A
  <2>6. \A i \in 0 .. n : i \in A
    BY <2>4, <2>5, UpTo
  <2>7. n \in 0 .. n
    OBVIOUS
  <2> QED BY <1>1, <2>1, <2>6, <2>7 DEF A
<1> QED BY <1>2, <1>3

(* The torrents, one after the other. *)
Asks(C, due, answers, g, m) ==
  g = [i \in 0..m |-> IF i = 0 THEN C
                      ELSE IF i \in due THEN Track!Btresponse(g[i - 1], i, answers[i]) ELSE g[i - 1]]

LEMMA AsksExist ==
  ASSUME NEW n \in Nat, NEW C, NEW due, NEW answers
  PROVE  \E g : Asks(C, due, answers, g, n)
<1> DEFINE A == {m \in Nat : \E g : Asks(C, due, answers, g, m)}
<1>1. 0 \in A
  <2>1. Asks(C, due, answers, [i \in 0..0 |-> C], 0)
    BY DEF Asks
  <2> QED BY <2>1
<1>2. ASSUME NEW m \in 1..n, m - 1 \in A
      PROVE  m \in A
  <2>1. PICK g : Asks(C, due, answers, g, m - 1)
    BY <1>2
  <2> DEFINE h == [i \in 0..m |-> IF i = m THEN IF m \in due THEN Track!Btresponse(g[m - 1], m, answers[m]) ELSE g[m - 1] ELSE g[i]]
  <2>2. \A i \in 0..m : h[i] = IF i = 0 THEN C ELSE IF i \in due THEN Track!Btresponse(h[i - 1], i, answers[i]) ELSE h[i - 1]
    <3>1. \A i \in 0..m-1 : g[i] = IF i = 0 THEN C ELSE IF i \in due THEN Track!Btresponse(g[i - 1], i, answers[i]) ELSE g[i - 1]
      BY <2>1 DEF Asks
    <3>2. \A i \in 0..m : i # m => i \in 0..m-1
      OBVIOUS
    <3>3. \A i \in 0..m : i # 0 => i - 1 \in 0..m /\ i - 1 # m /\ h[i - 1] = g[i - 1]
      OBVIOUS
    <3>4. m # 0
      OBVIOUS
    <3> QED BY <3>1, <3>2, <3>3, <3>4
  <2>3. h = [i \in 0..m |-> h[i]]
    OBVIOUS
  <2> HIDE DEF h
  <2>4. Asks(C, due, answers, h, m)
    BY <2>2, <2>3 DEF Asks
  <2> QED BY <2>4
<1> HIDE DEF A
<1>3. n \in A
  BY <1>1, <1>2, UpTo
<1> QED BY <1>3 DEF A

(* After the first k of the torrents that are due were asked. *)
Asked(C, s, due, answers, k, D) ==
  /\ Good(D, s)
  /\ \A u \in 1 .. NTorrents : u \notin due => D.dls[u].interval = C.dls[u].interval
  /\ \A u \in 1 .. k : u \in due /\ answers[u].kind = "list" =>
       \A j \in 1 .. Len(answers[u].hosts) : Tried(D, u, answers[u].hosts[j])

LEMMA AskedStep ==
  ASSUME Track!TrackerAssumption, NEW s \in Nat, NEW C, NEW due, NEW answers \in [1 .. NTorrents -> Answers],
         NEW k \in 1 .. NTorrents, NEW D, Asked(C, s, due, answers, k - 1, D),
         NEW E, E = IF k \in due THEN Track!Btresponse(D, k, answers[k]) ELSE D
  PROVE  Asked(C, s, due, answers, k, E)
<1>0. NTorrents \in Nat
  BY ConstantTypes
<1>1. \A u \in 1 .. k : u = k \/ u \in 1 .. k - 1
  BY <1>0
<1>2. CASE k \notin due
  BY <1>1, <1>2 DEF Asked
<1>3. CASE k \in due
  <2>1. PICK a \in Answers : a = answers[k]
    OBVIOUS
  <2>2. E = Track!Btresponse(D, k, a) /\ Good(D, s)
    BY <1>3, <2>1 DEF Asked
  <2>3. Answered(D, s, k, a, Len(a.hosts), E)
    BY <2>2, AnswerIs
  <2>4. Good(E, s) /\ \A u \in 1 .. NTorrents : u \notin due => E.dls[u].interval = C.dls[u].interval
    BY <1>3, <2>3 DEF Answered, Asked
  <2>5. ASSUME NEW u \in 1 .. k, u \in due, answers[u].kind = "list", NEW j \in 1 .. Len(answers[u].hosts)
        PROVE  Tried(E, u, answers[u].hosts[j])
    <3>1. CASE u = k
      BY <2>1, <2>3, <2>5, <3>1 DEF Answered
    <3>2. CASE u # k
      <4>1. u \in 1 .. k - 1 /\ u \in 1 .. NTorrents
        BY <1>0, <3>2
      <4>2. Tried(D, u, answers[u].hosts[j])
        BY <2>5, <4>1 DEF Asked
      <4>3. PICK b \in Answers : b = answers[u]
        BY <4>1
      <4>4. b.hosts \in Seq(Hosts)
        BY ConstantTypes
      <4>5. answers[u].hosts[j] \in Hosts
        BY <2>5, <4>3, <4>4
      <4> QED BY <2>3, <4>1, <4>2, <4>5 DEF Answered, StillTried
    <3> QED BY <3>1, <3>2
  <2> QED BY <2>4, <2>5 DEF Asked
<1> QED BY <1>2, <1>3

LEMMA AskIs ==
  ASSUME Track!TrackerAssumption, NEW s \in Nat, NEW C, Good(C, s), NEW due,
         NEW answers \in [1 .. NTorrents -> Answers], NEW D, D = Track!AskEach(C, due, answers)
  PROVE  Asked(C, s, due, answers, NTorrents, D)
<1>1. NTorrents \in Nat
  BY ConstantTypes
<1> DEFINE g == CHOOSE h : Asks(C, due, answers, h, NTorrents)
<1>2. D = g[NTorrents]
  BY Zenon DEF Track!AskEach, Asks
<1>3. Asks(C, due, answers, g, NTorrents)
  BY <1>1, AsksExist
<1> HIDE DEF g
<1>4. \A i \in 0 .. NTorrents :
        g[i] = IF i = 0 THEN C ELSE IF i \in due THEN Track!Btresponse(g[i - 1], i, answers[i]) ELSE g[i - 1]
  BY <1>3, Zenon DEF Asks
<1> DEFINE A == {i \in 0 .. NTorrents : Asked(C, s, due, answers, i, g[i])}
<1>5. 0 \in A
  <2>1. g[0] = C /\ 0 \in 0 .. NTorrents
    BY <1>1, <1>4
  <2>2. Asked(C, s, due, answers, 0, C)
    BY DEF Asked
  <2> QED BY <2>1, <2>2
<1>6. ASSUME NEW i \in 1 .. NTorrents, i - 1 \in A PROVE i \in A
  <2>1. i \in 0 .. NTorrents /\ i # 0
    BY <1>1
  <2>2. PICK B : B = g[i - 1]
    OBVIOUS
  <2>3. PICK E : E = g[i]
    OBVIOUS
  <2>4. E = (IF i \in due THEN Track!Btresponse(B, i, answers[i]) ELSE B) /\ Asked(C, s, due, answers, i - 1, B)
    BY <1>4, <1>6, <2>1, <2>2, <2>3
  <2>5. Asked(C, s, due, answers, i, E)
    BY <2>4, AskedStep
  <2> QED BY <2>1, <2>3, <2>5
<1> HIDE DEF A
<1>7. \A i \in 0 .. NTorrents : i \in A
  BY <1>1, <1>5, <1>6, UpTo
<1>8. NTorrents \in 0 .. NTorrents
  BY <1>1
<1> QED BY <1>2, <1>7, <1>8 DEF A

-----------------------------------------------------------------------------
(* The completions.                                                         *)

(* The same peers are there, and the trackers are asked as often. *)
SamePeers(C, D) ==
  /\ D.nstatus = C.nstatus
  /\ \A u \in 1 .. NTorrents : D.dls[u].peers = C.dls[u].peers /\ D.dls[u].interval = C.dls[u].interval

Completes(C, t, m, D) == D = [C EXCEPT !.dls[t].complete = TRUE, !.told[t] = m]

LEMMA CompleteIs ==
  ASSUME Track!TrackerAssumption, NEW s \in Nat, NEW C, Good(C, s), NEW t \in 1 .. NTorrents,
         NEW D, D = Track!Complete(C, t)
  PROVE  Good(D, s) /\ SamePeers(C, D)
<1>0. NTorrents \in Nat /\ MAXCONN \in Nat
  BY ConstantTypes
<1>1. /\ C = [dls |-> C.dls, nstatus |-> C.nstatus, told |-> C.told]
      /\ C.dls \in [1 .. NTorrents -> DlType] /\ C.told \in [1 .. NTorrents -> Nat] /\ C.nstatus \in 1 .. MAXCONN
      /\ PeersOk(C.dls[t].peers) /\ Reported(C.dls[t], C.told[t])
  BY DEF Good, StateType
<1>2. CASE C.dls[t].left > 0 \/ C.dls[t].complete
  <2>1. D = C
    BY <1>2 DEF Track!Complete
  <2> QED BY <2>1 DEF SamePeers
<1>3. CASE ~(C.dls[t].left > 0 \/ C.dls[t].complete)
  <2>1. PICK d \in DlType : d = C.dls[t]
    BY <1>1
  <2>2. d.left = 0 /\ d.complete = FALSE /\ d.dl \in Nat /\ C.told[t] = 0
    <3>1. d.left \in Nat /\ ~(d.left > 0) /\ ~d.complete /\ d.complete \in BOOLEAN /\ d.dl \in Nat
      BY <1>3, <2>1 DEF DlType
    <3>2. C.told[t] = 0
      BY <1>1, <2>1, <3>1 DEF Reported
    <3> QED BY <3>1, <3>2
  <2>3. PICK m \in Nat : m = IF d.dl = 0 THEN 0 ELSE 1
    OBVIOUS
  <2>4. Completes(C, t, m, D)
    <3>1. D = [C EXCEPT !.dls[t].complete = TRUE,
                        !.told[t] = IF C.dls[t].dl = 0 THEN C.told[t] ELSE C.told[t] + 1]
      BY <1>3, Zenon DEF Track!Complete
    <3>2. m = IF C.dls[t].dl = 0 THEN C.told[t] ELSE C.told[t] + 1
      BY <2>1, <2>2, <2>3
    <3> QED BY <3>1, <3>2 DEF Completes
  <2>5. PICK q : q = [d EXCEPT !.complete = TRUE]
    OBVIOUS
  <2>6. /\ q \in DlType /\ q.peers = d.peers /\ q.complete = TRUE /\ q.dl = d.dl /\ q.left = d.left
        /\ q.interval = d.interval
    BY <2>5 DEF DlType
  <2>7. Reported(q, m) /\ PeersOk(q.peers)
    BY <1>1, <2>1, <2>2, <2>3, <2>6 DEF Reported
  <2>8. PICK n \in 1 .. MAXCONN : n = C.nstatus
    BY <1>1
  <2>9. Replaces(C, t, q, n, m, D)
    <3>1. D = [dls |-> [C.dls EXCEPT ![t].complete = TRUE], nstatus |-> C.nstatus,
               told |-> [C.told EXCEPT ![t] = m]]
      BY <1>1, <2>4 DEF Completes
    <3>2. [C.dls EXCEPT ![t].complete = TRUE] = [C.dls EXCEPT ![t] = q]
      BY <1>1, <2>1, <2>5
    <3> QED BY <2>8, <3>1, <3>2 DEF Replaces
  <2>10. Balanced(C, s, t, q, n, s)
    BY <2>1, <2>6, <2>8 DEF Balanced
  <2>11. /\ Good(D, s) /\ D.dls[t] = q /\ D.nstatus = n
         /\ \A u \in 1 .. NTorrents : u # t => D.dls[u] = C.dls[u]
    BY <1>0, <2>6, <2>7, <2>9, <2>10, BecomesGood
  <2>12. SamePeers(C, D)
    BY <2>1, <2>6, <2>8, <2>11 DEF SamePeers
  <2> QED BY <2>11, <2>12
<1> QED BY <1>2, <1>3

Completions(C, g, m) == g = [i \in 0..m |-> IF i = 0 THEN C ELSE Track!Complete(g[i - 1], i)]

LEMMA CompletionsExist ==
  ASSUME NEW n \in Nat, NEW C
  PROVE  \E g : Completions(C, g, n)
<1> DEFINE A == {m \in Nat : \E g : Completions(C, g, m)}
<1>1. 0 \in A
  <2>1. Completions(C, [i \in 0..0 |-> C], 0)
    BY DEF Completions
  <2> QED BY <2>1
<1>2. ASSUME NEW m \in 1..n, m - 1 \in A
      PROVE  m \in A
  <2>1. PICK g : Completions(C, g, m - 1)
    BY <1>2
  <2> DEFINE h == [i \in 0..m |-> IF i = m THEN Track!Complete(g[m - 1], m) ELSE g[i]]
  <2>2. \A i \in 0..m : h[i] = IF i = 0 THEN C ELSE Track!Complete(h[i - 1], i)
    <3>1. \A i \in 0..m-1 : g[i] = IF i = 0 THEN C ELSE Track!Complete(g[i - 1], i)
      BY <2>1 DEF Completions
    <3>2. \A i \in 0..m : i # m => i \in 0..m-1
      OBVIOUS
    <3>3. \A i \in 0..m : i # 0 => i - 1 \in 0..m /\ i - 1 # m /\ h[i - 1] = g[i - 1]
      OBVIOUS
    <3>4. m # 0
      OBVIOUS
    <3> QED BY <3>1, <3>2, <3>3, <3>4
  <2>3. h = [i \in 0..m |-> h[i]]
    OBVIOUS
  <2> HIDE DEF h
  <2>4. Completions(C, h, m)
    BY <2>2, <2>3 DEF Completions
  <2> QED BY <2>4
<1> HIDE DEF A
<1>3. n \in A
  BY <1>1, <1>2, UpTo
<1> QED BY <1>3 DEF A

LEMMA CompleteEachIs ==
  ASSUME Track!TrackerAssumption, NEW s \in Nat, NEW C, Good(C, s), NEW D, D = Track!CompleteEach(C)
  PROVE  Good(D, s) /\ SamePeers(C, D)
<1>1. NTorrents \in Nat
  BY ConstantTypes
<1> DEFINE g == CHOOSE h : Completions(C, h, NTorrents)
<1>2. D = g[NTorrents]
  BY Zenon DEF Track!CompleteEach, Completions
<1>3. Completions(C, g, NTorrents)
  BY <1>1, CompletionsExist
<1> HIDE DEF g
<1>4. \A i \in 0 .. NTorrents : g[i] = IF i = 0 THEN C ELSE Track!Complete(g[i - 1], i)
  BY <1>3, Zenon DEF Completions
<1> DEFINE A == {i \in 0 .. NTorrents : Good(g[i], s) /\ SamePeers(C, g[i])}
<1>5. 0 \in A
  <2>1. g[0] = C /\ 0 \in 0 .. NTorrents
    BY <1>1, <1>4
  <2>2. SamePeers(C, C)
    BY DEF SamePeers
  <2> QED BY <2>1, <2>2
<1>6. ASSUME NEW i \in 1 .. NTorrents, i - 1 \in A PROVE i \in A
  <2>1. i \in 0 .. NTorrents /\ i # 0
    BY <1>1
  <2>2. PICK B : B = g[i - 1]
    OBVIOUS
  <2>3. PICK E : E = g[i]
    OBVIOUS
  <2>4. E = Track!Complete(B, i) /\ Good(B, s) /\ SamePeers(C, B)
    BY <1>4, <1>6, <2>1, <2>2, <2>3
  <2>5. Good(E, s) /\ SamePeers(B, E)
    BY <2>4, CompleteIs
  <2>6. SamePeers(C, E)
    BY <2>4, <2>5 DEF SamePeers
  <2> QED BY <2>1, <2>3, <2>5, <2>6
<1> HIDE DEF A
<1>7. \A i \in 0 .. NTorrents : i \in A
  BY <1>1, <1>5, <1>6, UpTo
<1>8. NTorrents \in 0 .. NTorrents
  BY <1>1
<1> QED BY <1>2, <1>7, <1>8 DEF A

-----------------------------------------------------------------------------
(* The invariant, and the steps.                                            *)

TrackInv ==
  /\ strangers \in Nat /\ reported \in Nat /\ serving \in BOOLEAN
  /\ Good(Track!Now, strangers)
  /\ age \in [1 .. NTorrents -> Nat]
  /\ \A t \in 1 .. NTorrents : age[t] <= dls[t].interval /\ (serving = FALSE => age[t] = 0)
  /\ heard \in [1 .. NTorrents -> Answers]
  /\ \A t \in 1 .. NTorrents : heard[t].kind = "list" =>
       \A j \in 1 .. Len(heard[t].hosts) : Tried(Track!Now, t, heard[t].hosts[j])

LEMMA NowIs ==
  ASSUME TrackInv
  PROVE  /\ Track!Now.dls = dls /\ Track!Now.nstatus = nstatus /\ Track!Now.told = told
         /\ dls \in [1 .. NTorrents -> DlType] /\ told \in [1 .. NTorrents -> Nat] /\ nstatus \in 1 .. MAXCONN
         /\ \A t \in 1 .. NTorrents : PeersOk(dls[t].peers) /\ Reported(dls[t], told[t])
<1>1. Track!Now.dls = dls /\ Track!Now.nstatus = nstatus /\ Track!Now.told = told
  BY DEF Track!Now
<1>2. Good(Track!Now, strangers)
  BY DEF TrackInv
<1>3. Track!Now \in StateType /\ Track!Now.nstatus \in 1 .. MAXCONN
      /\ \A t \in 1 .. NTorrents : PeersOk(Track!Now.dls[t].peers) /\ Reported(Track!Now.dls[t], Track!Now.told[t])
  BY <1>2 DEF Good
<1> QED BY <1>1, <1>3 DEF StateType

LEMMA QuietIs ==
  ASSUME Track!TrackerAssumption
  PROVE  Track!Quiet \in [1 .. NTorrents -> Answers] /\ \A t \in 1 .. NTorrents : Track!Quiet[t].kind # "list"
<1>1. Track!Quiet = [t \in 1 .. NTorrents |-> Track!NoAnswer]
  BY DEF Track!Quiet, Track!Torrents
<1>2. Track!NoAnswer \in Answers /\ Track!NoAnswer.kind # "list"
  BY ConstantTypes DEF Track!NoAnswer
<1> QED BY <1>1, <1>2

(* A step that gives torrent t the state q, and leaves the timers.          *)
LEMMA PieceKeeps ==
  ASSUME Track!TrackerAssumption, TrackInv, NEW t \in 1 .. NTorrents, NEW q \in DlType, PeersOk(q.peers),
         Reported(q, told[t]), q.interval = dls[t].interval, NEW r \in Nat, NEW n \in 1 .. MAXCONN,
         Balanced(Track!Now, strangers, t, q, n, r),
         dls' = [dls EXCEPT ![t] = q], nstatus' = n, strangers' = r, told' = told,
         heard' = Track!Quiet, UNCHANGED <<age, reported, serving>>
  PROVE  TrackInv'
<1>0. NTorrents \in Nat /\ MAXCONN \in Nat
  BY ConstantTypes
<1>1. /\ Track!Now.dls = dls /\ Track!Now.nstatus = nstatus /\ Track!Now.told = told
      /\ dls \in [1 .. NTorrents -> DlType] /\ told \in [1 .. NTorrents -> Nat]
  BY NowIs
<1>2. PICK m \in Nat : m = told[t]
  BY <1>1
<1>3. PICK D : D = Track!Now'
  OBVIOUS
<1>4. Replaces(Track!Now, t, q, n, m, D)
  <2>1. D = [dls |-> dls', nstatus |-> nstatus', told |-> told']
    BY <1>3 DEF Track!Now
  <2>2. [told EXCEPT ![t] = m] = told
    BY <1>1, <1>2
  <2> QED BY <1>1, <2>1, <2>2 DEF Replaces
<1>5. PICK C : C = Track!Now
  OBVIOUS
<1>6. strangers \in Nat /\ Good(C, strangers)
  BY <1>5 DEF TrackInv
<1>7. Good(D, r)
  <2>1. Replaces(C, t, q, n, m, D) /\ Balanced(C, strangers, t, q, n, r) /\ Reported(q, m)
    BY <1>2, <1>4, <1>5
  <2> QED BY <1>0, <1>6, <2>1, BecomesGood
<1>8. Good(Track!Now, strangers)'
  BY <1>3, <1>7
<1>9. \A u \in 1 .. NTorrents : age'[u] <= dls'[u].interval /\ (serving' = FALSE => age'[u] = 0)
  BY <1>1 DEF TrackInv
<1>10. heard' \in [1 .. NTorrents -> Answers] /\ \A u \in 1 .. NTorrents : heard'[u].kind # "list"
  BY QuietIs
<1> QED BY <1>8, <1>9, <1>10 DEF TrackInv

LEMMA RegisterKeeps ==
  ASSUME Track!TrackerAssumption, TrackInv, Track!Register
  PROVE  TrackInv'
<1>1. PICK answers \in [1 .. NTorrents -> Answers] :
        Track!Becomes(Track!AskEach(Track!Now, 1 .. NTorrents, answers)) /\ heard' = answers
  BY Zenon DEF Track!Register, Track!Torrents
<1>2. /\ serving = FALSE /\ serving' = TRUE /\ UNCHANGED <<age, reported, strangers>>
  BY DEF Track!Register, TrackInv
<1>3. PICK C : C = Track!Now
  OBVIOUS
<1>4. PICK D : D = Track!AskEach(C, 1 .. NTorrents, answers)
  OBVIOUS
<1>5. strangers \in Nat /\ Good(C, strangers)
  BY <1>3 DEF TrackInv
<1>6. Asked(C, strangers, 1 .. NTorrents, answers, NTorrents, D)
  BY <1>4, <1>5, AskIs
<1>7. dls' = D.dls /\ nstatus' = D.nstatus /\ told' = D.told
  BY <1>1, <1>3, <1>4 DEF Track!Becomes
<1>8. Track!Now' = D
  <2>1. D \in StateType
    BY <1>6 DEF Asked, Good
  <2> QED BY <1>7, <2>1 DEF Track!Now, StateType
<1>9. Good(Track!Now, strangers)'
  BY <1>2, <1>6, <1>8 DEF Asked
<1>10. \A t \in 1 .. NTorrents : age'[t] <= dls'[t].interval
  <2> TAKE t \in 1 .. NTorrents
  <2>1. age'[t] = 0
    BY <1>2 DEF TrackInv
  <2>2. dls'[t] \in DlType
    BY <1>6, <1>7 DEF Asked, Good, StateType
  <2>3. dls'[t].interval \in Nat
    BY <2>2, ConstantTypes DEF DlType
  <2> QED BY <2>1, <2>3
<1>11. \A t \in 1 .. NTorrents : heard'[t].kind = "list" =>
         \A j \in 1 .. Len(heard'[t].hosts) : Tried(Track!Now', t, heard'[t].hosts[j])
  BY <1>1, <1>6, <1>8 DEF Asked
<1> QED BY <1>1, <1>2, <1>9, <1>10, <1>11 DEF TrackInv, Tried

LEMMA TurnKeeps ==
  ASSUME Track!TrackerAssumption, TrackInv, NEW seconds \in 0 .. Step,
         NEW answers \in [1 .. NTorrents -> Answers], Track!Turn(seconds, answers)
  PROVE  TrackInv'
<1>0. NTorrents \in Nat /\ MaxAge \in Nat /\ seconds \in Nat
  BY ConstantTypes DEF Track!TrackerAssumption
<1>1. PICK due : due = {t \in 1 .. NTorrents : Track!Due(t, seconds)}
  OBVIOUS
<1>2. /\ serving /\ \A t \in (1 .. NTorrents) \ due : answers[t] = Track!NoAnswer
      /\ Track!Becomes(IF reported + seconds > 0 THEN Track!CompleteEach(Track!AskEach(Track!Now, due, answers))
                       ELSE Track!AskEach(Track!Now, due, answers))
      /\ age' = [t \in 1 .. NTorrents |-> IF t \in due THEN 0 ELSE Track!Least(age[t] + seconds, MaxAge)]
      /\ reported' = (IF reported + seconds > 0 THEN 0 ELSE reported + seconds)
      /\ heard' = answers /\ UNCHANGED <<strangers, serving>>
  BY <1>1, Zenon DEF Track!Turn, Track!Torrents
<1>3. PICK C : C = Track!Now
  OBVIOUS
<1>4. PICK D : D = Track!AskEach(C, due, answers)
  OBVIOUS
<1>5. PICK E : E = IF reported + seconds > 0 THEN Track!CompleteEach(D) ELSE D
  OBVIOUS
<1>6. strangers \in Nat /\ Good(C, strangers)
  BY <1>3 DEF TrackInv
<1>7. Asked(C, strangers, due, answers, NTorrents, D)
  BY <1>4, <1>6, AskIs
<1>8. Good(E, strangers) /\ SamePeers(D, E)
  <2>1. Good(D, strangers)
    BY <1>7 DEF Asked
  <2>2. CASE reported + seconds > 0
    <3>1. E = Track!CompleteEach(D)
      BY <1>5, <2>2
    <3> QED BY <1>6, <2>1, <3>1, CompleteEachIs
  <2>3. CASE ~(reported + seconds > 0)
    BY <1>5, <2>1, <2>3 DEF SamePeers
  <2> QED BY <2>2, <2>3
<1>9. dls' = E.dls /\ nstatus' = E.nstatus /\ told' = E.told
  <2>1. Track!Becomes(E)
    BY <1>2, <1>3, <1>4, <1>5
  <2> QED BY <2>1 DEF Track!Becomes
<1>10. Track!Now' = E
  <2>1. E \in StateType
    BY <1>8 DEF Good
  <2> QED BY <1>9, <2>1 DEF Track!Now, StateType
<1>11. Good(Track!Now, strangers)'
  BY <1>2, <1>8, <1>10
<1>12. ASSUME NEW t \in 1 .. NTorrents
       PROVE  age'[t] \in Nat /\ age'[t] <= dls'[t].interval
  <2>1. dls'[t] \in DlType
    BY <1>8, <1>9 DEF Good, StateType
  <2>2. PICK i \in Nat : i = dls'[t].interval
    BY <2>1, ConstantTypes DEF DlType
  <2>3. CASE t \in due
    BY <1>2, <2>2, <2>3
  <2>4. CASE t \notin due
    <3>1. i = dls[t].interval
      BY <1>3, <1>7, <1>8, <1>9, <2>2, <2>4, NowIs DEF Asked, SamePeers
    <3>2. PICK g \in Nat : g = age[t]
      BY DEF TrackInv
    <3>3. ~(g + seconds > i)
      BY <1>1, <2>4, <3>1, <3>2 DEF Track!Due
    <3>4. age'[t] = IF g + seconds < MaxAge THEN g + seconds ELSE MaxAge
      BY <1>2, <2>4, <3>2 DEF Track!Least
    <3>5. age'[t] \in Nat /\ age'[t] <= i
      BY <1>0, <3>3, <3>4
    <3> QED BY <2>2, <3>5
  <2> QED BY <2>3, <2>4
<1>13. age' \in [1 .. NTorrents -> Nat]
  BY <1>2, <1>12
<1>14. ASSUME NEW t \in 1 .. NTorrents, heard'[t].kind = "list", NEW j \in 1 .. Len(heard'[t].hosts)
       PROVE  Tried(E, t, heard'[t].hosts[j])
  <2>1. t \in due
    BY <1>2, <1>14 DEF Track!NoAnswer
  <2>2. Tried(D, t, heard'[t].hosts[j])
    BY <1>2, <1>7, <1>14, <2>1, <1>0 DEF Asked
  <2> QED BY <1>8, <2>2 DEF SamePeers, Tried
<1>15. reported' \in Nat
  BY <1>0, <1>2 DEF TrackInv
<1>16. \A t \in 1 .. NTorrents : heard'[t].kind = "list" =>
         \A j \in 1 .. Len(heard'[t].hosts) : Tried(Track!Now, t, heard[t].hosts[j])'
  BY <1>10, <1>14 DEF Tried
<1> QED BY <1>2, <1>6, <1>11, <1>12, <1>13, <1>15, <1>16 DEF TrackInv

LEMMA PieceDoneKeeps ==
  ASSUME Track!TrackerAssumption, TrackInv, NEW t \in 1 .. NTorrents, Track!PieceDone(t)
  PROVE  TrackInv'
<1>1. /\ dls \in [1 .. NTorrents -> DlType] /\ nstatus \in 1 .. MAXCONN
      /\ PeersOk(dls[t].peers) /\ Reported(dls[t], told[t]) /\ Track!Now.dls = dls /\ Track!Now.nstatus = nstatus
  BY NowIs
<1>2. PICK d \in DlType : d = dls[t]
  BY <1>1
<1>3. PICK q : q = [d EXCEPT !.left = d.left - 1, !.dl = d.dl + 1]
  OBVIOUS
<1>4. /\ d.left > 0 /\ heard' = Track!Quiet /\ UNCHANGED <<age, reported, nstatus, strangers, serving, told>>
      /\ dls' = [dls EXCEPT ![t].left = dls[t].left - 1, ![t].dl = dls[t].dl + 1]
  BY <1>2 DEF Track!PieceDone
<1>5. dls' = [dls EXCEPT ![t] = q]
  BY <1>1, <1>2, <1>3, <1>4
<1>6. d.left \in Nat /\ d.dl \in Nat /\ d.complete \in BOOLEAN
  BY DEF DlType
<1>7. d.left - 1 \in Nat /\ d.dl + 1 \in Nat
  BY <1>4, <1>6
<1>8. /\ q \in DlType /\ q.peers = d.peers /\ q.complete = d.complete /\ q.interval = d.interval
  BY <1>3, <1>7 DEF DlType
<1>9. Reported(q, told[t])
  <2>1. ~d.complete /\ told[t] = 0
    BY <1>1, <1>2, <1>4, <1>6 DEF Reported
  <2> QED BY <1>8, <2>1 DEF Reported
<1>10. Balanced(Track!Now, strangers, t, q, nstatus, strangers)
  BY <1>1, <1>2, <1>8 DEF Balanced
<1>11. PICK r \in Nat : r = strangers
  BY DEF TrackInv
<1>12. PICK n \in 1 .. MAXCONN : n = nstatus
  BY <1>1
<1> QED BY <1>1, <1>2, <1>4, <1>5, <1>8, <1>9, <1>10, <1>11, <1>12, PieceKeeps

(* The peers of t are ps, the rest of it is as it was. *)
LEMMA PeersKeep ==
  ASSUME Track!TrackerAssumption, TrackInv, NEW t \in 1 .. NTorrents, NEW ps \in Seq(PeerType), PeersOk(ps),
         NEW r \in Nat, NEW n \in 1 .. MAXCONN, n - r - Len(ps) = nstatus - strangers - Len(dls[t].peers),
         dls' = [dls EXCEPT ![t].peers = ps], nstatus' = n, strangers' = r, told' = told,
         heard' = Track!Quiet, UNCHANGED <<age, reported, serving>>
  PROVE  TrackInv'
<1>1. /\ dls \in [1 .. NTorrents -> DlType] /\ Reported(dls[t], told[t])
      /\ Track!Now.dls = dls /\ Track!Now.nstatus = nstatus
  BY NowIs
<1>2. PICK d \in DlType : d = dls[t]
  BY <1>1
<1>3. PICK q : q = [d EXCEPT !.peers = ps]
  OBVIOUS
<1>4. /\ q \in DlType /\ q.peers = ps /\ q.complete = d.complete /\ q.interval = d.interval
      /\ q.dl = d.dl /\ q.left = d.left
  BY <1>3, PeersSet
<1>5. dls' = [dls EXCEPT ![t] = q]
  BY <1>1, <1>2, <1>3
<1>6. Reported(q, told[t]) /\ PeersOk(q.peers)
  BY <1>1, <1>2, <1>4 DEF Reported
<1>7. Balanced(Track!Now, strangers, t, q, n, r)
  BY <1>1, <1>4 DEF Balanced
<1> QED BY <1>2, <1>4, <1>5, <1>6, <1>7, PieceKeeps

(* Nothing becomes of the torrents. *)
LEMMA ConnectionKeeps ==
  ASSUME Track!TrackerAssumption, TrackInv, NEW r \in Nat, NEW n \in 1 .. MAXCONN,
         n - r = nstatus - strangers, nstatus' = n, strangers' = r,
         heard' = Track!Quiet, UNCHANGED <<dls, told, age, reported, serving>>
  PROVE  TrackInv'
<1>0. MAXCONN \in Nat
  BY ConstantTypes
<1>1. PICK t \in 1 .. NTorrents : t = 1
  BY ConstantTypes
<1>2. /\ dls \in [1 .. NTorrents -> DlType] /\ nstatus \in 1 .. MAXCONN /\ PeersOk(dls[t].peers)
  BY NowIs
<1>3. PICK ps \in Seq(PeerType) : ps = dls[t].peers
  BY <1>2, StateCounted
<1>4. dls' = [dls EXCEPT ![t].peers = ps]
  <2>1. PICK d \in DlType : d = dls[t]
    BY <1>2
  <2>2. [d EXCEPT !.peers = ps] = d
    BY <1>3, <2>1 DEF DlType
  <2> QED BY <1>2, <2>1, <2>2
<1>5. n - r - Len(ps) = nstatus - strangers - Len(dls[t].peers)
  BY <1>3
<1> QED BY <1>2, <1>3, <1>4, <1>5, PeersKeep

LEMMA PeerAnswerKeeps ==
  ASSUME Track!TrackerAssumption, TrackInv, Track!PeerAnswer
  PROVE  TrackInv'
<1>1. PICK m \in 1 .. MAXCONN : m = nstatus
  BY NowIs
<1>2. PICK s \in Nat : s = strangers
  BY DEF TrackInv
<1>3. /\ m < MAXCONN /\ nstatus' = m + 1 /\ strangers' = s + 1
      /\ heard' = Track!Quiet /\ UNCHANGED <<dls, told, age, reported, serving>>
  BY <1>1, <1>2 DEF Track!PeerAnswer
<1>4. m + 1 \in 1 .. MAXCONN /\ s + 1 \in Nat /\ (m + 1) - (s + 1) = m - s
  BY <1>3, ConstantTypes
<1> QED BY <1>1, <1>2, <1>3, <1>4, ConnectionKeeps

LEMMA JoinKeeps ==
  ASSUME Track!TrackerAssumption, TrackInv, NEW t \in 1 .. NTorrents, NEW h \in Hosts, Track!Join(t, h)
  PROVE  TrackInv'
<1>1. /\ dls \in [1 .. NTorrents -> DlType] /\ nstatus \in 1 .. MAXCONN /\ PeersOk(dls[t].peers)
  BY NowIs
<1>2. PICK ps \in Seq(PeerType) : ps = dls[t].peers
  BY <1>1, StateCounted
<1>3. PICK s \in Nat : s = strangers
  BY DEF TrackInv
<1>4. /\ s > 0 /\ strangers' = s - 1 /\ heard' = Track!Quiet
      /\ UNCHANGED <<age, reported, nstatus, serving, told>>
  BY <1>3 DEF Track!Join
<1>5. PICK id \in {h.id, NoId} :
        dls' = [dls EXCEPT ![t].peers = Append(@, [host |-> h, id |-> id, port |-> 0, kind |-> "incoming"])]
  BY DEF Track!Join
<1>6. PICK p : p = [host |-> h, id |-> id, port |-> 0, kind |-> "incoming"]
  OBVIOUS
<1>7. p \in PeerType /\ Newcomer(ps, p)
  <2>1. id \in {g.id : g \in Hosts} \cup {NoId} /\ "incoming" \in {a.kind : a \in Answers} \cup {"incoming"}
    OBVIOUS
  <2> QED BY <1>6, <2>1 DEF PeerType, Newcomer
<1>8. PICK qs : Appends(ps, p, qs)
  BY DEF Appends
<1>9. qs \in Seq(PeerType) /\ PeersOk(qs) /\ Len(qs) = Len(ps) + 1
  BY <1>1, <1>2, <1>7, <1>8, AppendOk
<1>10. dls' = [dls EXCEPT ![t].peers = qs]
  BY <1>1, <1>2, <1>5, <1>6, <1>8 DEF Appends
<1>11. PICK n \in 1 .. MAXCONN : n = nstatus
  BY <1>1
<1>12. n - (s - 1) - Len(qs) = n - s - Len(dls[t].peers)
  <2>1. PICK l \in Nat : l = Len(ps)
    BY <1>2
  <2>2. n - (s - 1) - (l + 1) = n - s - l
    BY ConstantTypes
  <2> QED BY <1>2, <1>9, <2>1, <2>2
<1>13. PICK r \in Nat : r = s - 1
  BY <1>4
<1>14. n - r - Len(qs) = nstatus - strangers - Len(dls[t].peers)
  BY <1>3, <1>11, <1>12, <1>13
<1> QED BY <1>4, <1>9, <1>10, <1>11, <1>13, <1>14, PeersKeep

LEMMA NamedKeeps ==
  ASSUME Track!TrackerAssumption, TrackInv, NEW t \in 1 .. NTorrents, NEW i \in 1 .. MAXCONN, Track!Named(t, i)
  PROVE  TrackInv'
<1>1. /\ dls \in [1 .. NTorrents -> DlType] /\ nstatus \in 1 .. MAXCONN /\ PeersOk(dls[t].peers)
  BY NowIs
<1>2. PICK ps \in Seq(PeerType) : ps = dls[t].peers
  BY <1>1, StateCounted
<1>3. /\ i \in 1 .. Len(ps) /\ ps[i].id = NoId /\ heard' = Track!Quiet
      /\ dls' = [dls EXCEPT ![t].peers[i].id = ps[i].host.id]
      /\ UNCHANGED <<age, reported, nstatus, strangers, serving, told>>
  BY <1>2, ConstantTypes DEF Track!Named
<1>4. PICK p \in PeerType : p = ps[i]
  BY <1>2, <1>3
<1>5. PICK p1 : p1 = [p EXCEPT !.id = p.host.id]
  OBVIOUS
<1>6. p1 \in PeerType /\ p1.id = p.host.id /\ p1.host = p.host /\ p1.kind = p.kind
  BY <1>5 DEF PeerType
<1>7. PICK qs : qs = [ps EXCEPT ![i] = p1]
  OBVIOUS
<1>8. qs \in Seq(PeerType) /\ Len(qs) = Len(ps) /\ qs[i] = p1
      /\ \A j \in 1 .. Len(ps) : j # i => qs[j] = ps[j]
  BY <1>2, <1>3, <1>6, <1>7
(* A peer that was named by its id had it. *)
<1>9. \A j \in 1 .. Len(ps) :
        /\ qs[j].host = ps[j].host /\ qs[j].kind = ps[j].kind /\ qs[j].id \in {qs[j].host.id, NoId}
        /\ ps[j].kind = "list" => qs[j].id = ps[j].id
  BY SMTT(30), <1>1, <1>2, <1>3, <1>4, <1>6, <1>8 DEF PeersOk
<1>10. PeersOk(qs)
  BY SMTT(30), <1>1, <1>2, <1>8, <1>9 DEF PeersOk
<1>11. dls' = [dls EXCEPT ![t].peers = qs]
  <2>1. [ps EXCEPT ![i].id = ps[i].host.id] = qs
    BY <1>4, <1>5, <1>7
  <2> QED BY <1>1, <1>2, <1>3, <2>1
<1>12. nstatus - strangers - Len(qs) = nstatus - strangers - Len(dls[t].peers)
  BY <1>2, <1>8
<1>13. PICK r \in Nat : r = strangers
  BY DEF TrackInv
<1>14. PICK n \in 1 .. MAXCONN : n = nstatus
  BY <1>1
<1> QED BY <1>3, <1>8, <1>10, <1>11, <1>12, <1>13, <1>14, PeersKeep

LEMMA ClientFinitKeeps ==
  ASSUME Track!TrackerAssumption, TrackInv, Track!ClientFinit
  PROVE  TrackInv'
<1>0. NTorrents \in Nat /\ MAXCONN \in Nat
  BY ConstantTypes
<1>1. /\ dls \in [1 .. NTorrents -> DlType] /\ nstatus \in 1 .. MAXCONN
  BY NowIs
<1>2. PICK s \in Nat : s = strangers
  BY DEF TrackInv
<1>3. PICK m \in 1 .. MAXCONN : m = nstatus
  BY <1>1
<1>4. nstatus' = m - 1 /\ heard' = Track!Quiet /\ UNCHANGED <<age, reported, serving, told>>
  BY <1>3 DEF Track!ClientFinit, Track!Freed
<1>5. PICK c \in Nat : c = Track!PeerCount(dls) /\ \A t \in 1 .. NTorrents : Len(dls[t].peers) <= c
  BY <1>0, <1>1, StateCounted, CountMost, ConstantTypes
<1>6. m = 1 + s + c
  BY <1>2, <1>3, <1>5, NowIs DEF TrackInv, Good
<1>7. CASE s > 0 /\ strangers' = s - 1 /\ dls' = dls
  <2>1. m - 1 \in 1 .. MAXCONN /\ s - 1 \in Nat /\ (m - 1) - (s - 1) = m - s
    BY <1>0, <1>6, <1>7
  <2> QED BY <1>2, <1>3, <1>4, <1>7, <2>1, ConnectionKeeps
<1>8. ASSUME NEW t \in 1 .. NTorrents, NEW i \in DOMAIN dls[t].peers,
             dls' = [dls EXCEPT ![t].peers = Track!RemoveAt(dls[t].peers, i)], strangers' = strangers
      PROVE  TrackInv'
  <2>1. PICK ps \in Seq(PeerType) : ps = dls[t].peers /\ PeersOk(ps)
    BY <1>1, StateCounted, NowIs
  <2>2. i \in 1 .. Len(ps)
    BY <2>1
  <2>3. PICK qs : qs = Track!RemoveAt(ps, i)
    OBVIOUS
  <2>4. qs \in Seq(PeerType) /\ PeersOk(qs) /\ Len(qs) = Len(ps) - 1
    BY <2>1, <2>2, <2>3, RemoveOk
  <2>5. PICK l \in Nat : l = Len(ps)
    BY <2>1
  <2>6. l >= 1 /\ l <= c
    BY <1>5, <2>1, <2>2, <2>5
  <2>7. m - 1 \in 1 .. MAXCONN
    BY <1>0, <1>6, <2>6
  <2>8. (m - 1) - s - (l - 1) = m - s - l
    BY <1>0
  <2>9. (m - 1) - s - Len(qs) = nstatus - strangers - Len(dls[t].peers)
    BY <1>2, <1>3, <2>1, <2>4, <2>5, <2>8
  <2>10. dls' = [dls EXCEPT ![t].peers = qs]
    BY <1>8, <2>1, <2>3
  <2>11. PICK n \in 1 .. MAXCONN : n = m - 1
    BY <2>7
  <2> QED BY <1>2, <1>4, <1>8, <2>4, <2>9, <2>10, <2>11, PeersKeep
<1>9. \/ s > 0 /\ strangers' = s - 1 /\ dls' = dls
      \/ \E t \in 1 .. NTorrents : \E i \in DOMAIN dls[t].peers :
           dls' = [dls EXCEPT ![t].peers = Track!RemoveAt(dls[t].peers, i)] /\ strangers' = strangers
  BY <1>2, Zenon DEF Track!ClientFinit, Track!Torrents
<1> QED BY <1>7, <1>8, <1>9

LEMMA TrackInit ==
  ASSUME Track!TrackerAssumption, Track!Init
  PROVE  TrackInv
<1>0. NTorrents \in Nat /\ MAXCONN \in Nat /\ MAXCONN > 0
  BY ConstantTypes
<1>1. /\ dls \in [1 .. NTorrents -> {[interval |-> 0, complete |-> FALSE, dl |-> 0, left |-> n, peers |-> <<>>] : n \in Missing}]
      /\ age = [t \in 1 .. NTorrents |-> 0] /\ reported = 0 /\ nstatus = 1 /\ strangers = 0 /\ serving = FALSE
      /\ told = [t \in 1 .. NTorrents |-> 0] /\ heard = Track!Quiet
  BY DEF Track!Init, Track!Torrents
<1>2. ASSUME NEW t \in 1 .. NTorrents
      PROVE  /\ dls[t] \in DlType /\ dls[t].peers = <<>> /\ dls[t].complete = FALSE /\ dls[t].interval = 0
  <2>1. PICK n \in Missing : dls[t] = [interval |-> 0, complete |-> FALSE, dl |-> 0, left |-> n, peers |-> <<>>]
    BY <1>1
  <2>2. 0 \in {a.interval : a \in Answers}
    BY ConstantTypes DEF Track!NoAnswer
  <2>3. n \in Nat /\ <<>> \in Seq(PeerType)
    BY ConstantTypes
  <2> QED BY <2>1, <2>2, <2>3 DEF DlType
<1>3. dls \in [1 .. NTorrents -> DlType]
  BY <1>1, <1>2
<1>4. Track!PeerCount(dls) = 0
  <2>1. PICK g \in [0 .. NTorrents -> Nat] :
          /\ g[0] = 0 /\ Track!PeerCount(dls) = g[NTorrents]
          /\ \A t \in 1 .. NTorrents : g[t] = g[t - 1] + Len(dls[t].peers)
    BY <1>0, <1>3, StateCounted, CountIs
  <2> DEFINE A == {t \in 0 .. NTorrents : g[t] = 0}
  <2>2. 0 \in A
    BY <1>0, <2>1
  <2>3. ASSUME NEW t \in 1 .. NTorrents, t - 1 \in A PROVE t \in A
    <3>1. PICK ps : ps = dls[t].peers
      OBVIOUS
    <3>2. ps = <<>>
      BY <1>2, <3>1
    <3>3. Len(ps) = 0
      BY <3>2
    <3>4. g[t - 1] = 0 /\ t \in 0 .. NTorrents
      BY <1>0, <2>3
    <3>5. g[t] = g[t - 1] + Len(ps)
      BY <2>1, <3>1
    <3>6. g[t] = 0
      BY <3>3, <3>4, <3>5
    <3> QED BY <3>4, <3>6
  <2> HIDE DEF A
  <2>4. \A t \in 0 .. NTorrents : t \in A
    BY <1>0, <2>2, <2>3, UpTo
  <2> QED BY <1>0, <2>1, <2>4 DEF A
<1>5. Good(Track!Now, strangers)
  <2>1. Track!Now = [dls |-> dls, nstatus |-> 1, told |-> told] /\ told \in [1 .. NTorrents -> Nat]
    BY <1>1 DEF Track!Now
  <2>2. Track!Now \in StateType
    BY <1>3, <2>1 DEF StateType
  <2>3. \A t \in 1 .. NTorrents : PeersOk(dls[t].peers) /\ Reported(dls[t], told[t])
    BY <1>1, <1>2 DEF PeersOk, Reported
  <2>4. Track!Now.dls = dls /\ Track!Now.nstatus = 1 /\ Track!Now.told = told
    BY <2>1
  <2>5. 1 \in 1 .. MAXCONN /\ 1 = 1 + strangers + Track!PeerCount(dls)
    BY <1>0, <1>1, <1>4
  <2>6. PICK C : C = Track!Now
    OBVIOUS
  <2>7. C \in StateType /\ C.nstatus \in 1 .. MAXCONN /\ C.nstatus = 1 + strangers + Track!PeerCount(C.dls)
    BY <2>2, <2>4, <2>5, <2>6
  <2>8. \A t \in 1 .. NTorrents : PeersOk(C.dls[t].peers) /\ Reported(C.dls[t], C.told[t])
    BY <2>3, <2>4, <2>6
  <2>9. Good(C, strangers)
    BY <2>7, <2>8 DEF Good
  <2> QED BY <2>6, <2>9
<1>6. heard \in [1 .. NTorrents -> Answers] /\ \A t \in 1 .. NTorrents : heard[t].kind # "list"
  BY <1>1, QuietIs
<1>7. age \in [1 .. NTorrents -> Nat]
      /\ \A t \in 1 .. NTorrents : age[t] <= dls[t].interval /\ (serving = FALSE => age[t] = 0)
  <2>1. \A t \in 1 .. NTorrents : age[t] = 0 /\ dls[t].interval = 0
    BY <1>1, <1>2
  <2> QED BY <1>1, <2>1
<1>8. strangers \in Nat /\ reported \in Nat /\ serving \in BOOLEAN
  BY <1>1
<1> QED BY <1>5, <1>6, <1>7, <1>8 DEF TrackInv

LEMMA TrackStep ==
  ASSUME Track!TrackerAssumption, TrackInv, [Track!Next]_Track!vars
  PROVE  TrackInv'
<1>1. CASE UNCHANGED Track!vars
  <2>1. UNCHANGED <<dls, age, reported, nstatus, strangers, serving, told, heard>>
    BY <1>1 DEF Track!vars
  <2>2. Track!Now' = Track!Now
    BY <2>1 DEF Track!Now
  <2> QED BY <2>1, <2>2 DEF TrackInv, Tried
<1>2. ASSUME NEW t \in 1 .. NTorrents, Track!PieceDone(t) \/ \E h \in Hosts : Track!Join(t, h) PROVE TrackInv'
  BY <1>2, PieceDoneKeeps, JoinKeeps
<1>3. ASSUME NEW t \in 1 .. NTorrents, NEW i \in 1 .. MAXCONN, Track!Named(t, i) PROVE TrackInv'
  BY <1>3, NamedKeeps
<1>4. ASSUME NEW seconds \in 0 .. Step, NEW answers \in [1 .. NTorrents -> Answers],
             Track!Turn(seconds, answers)
      PROVE  TrackInv'
  BY <1>4, TurnKeeps
<1> QED
  BY <1>1, <1>2, <1>3, <1>4, RegisterKeeps, PeerAnswerKeeps, ClientFinitKeeps DEF Track!Next, Track!Torrents

LEMMA TrackSound ==
  ASSUME Track!TrackerAssumption, TrackInv
  PROVE  /\ Track!TypeOK /\ Track!EntriesCounted /\ Track!ListedOnce /\ Track!AllTried
         /\ Track!Timely /\ Track!CompletedOnce
<1>1. /\ Track!Now.dls = dls /\ Track!Now.nstatus = nstatus /\ Track!Now.told = told
      /\ dls \in [1 .. NTorrents -> DlType] /\ nstatus \in 1 .. MAXCONN
      /\ \A t \in 1 .. NTorrents : PeersOk(dls[t].peers) /\ Reported(dls[t], told[t])
  BY NowIs
<1>2. \A t \in 1 .. NTorrents : dls[t] \in DlType /\ dls[t].peers \in Seq(PeerType)
  BY <1>1, StateCounted
<1>3. ASSUME NEW t \in 1 .. NTorrents
      PROVE  /\ DOMAIN dls[t].peers = 1 .. Len(dls[t].peers)
             /\ Track!Range(dls[t].peers) = {dls[t].peers[i] : i \in 1 .. Len(dls[t].peers)}
  BY <1>2 DEF Track!Range
<1>4. Track!TypeOK
  <2>1. ASSUME NEW t \in 1 .. NTorrents
        PROVE  /\ dls[t].interval \in {a.interval : a \in Answers} /\ dls[t].complete \in BOOLEAN
               /\ dls[t].dl \in Nat /\ dls[t].left \in Nat /\ age[t] \in Nat
    BY <1>2 DEF DlType, TrackInv
  <2>2. ASSUME NEW t \in 1 .. NTorrents, NEW p \in Track!Range(dls[t].peers)
        PROVE  p.host \in Hosts /\ p.id \in {p.host.id, NoId}
    <3>1. PICK i \in 1 .. Len(dls[t].peers) : p = dls[t].peers[i]
      BY <1>3
    <3>2. p \in PeerType
      BY <1>2, <3>1
    <3> QED BY <1>1, <3>1, <3>2 DEF PeerType, PeersOk
  <2> QED BY <1>1, <2>1, <2>2 DEF Track!TypeOK, Track!Torrents, TrackInv
<1>5. Track!EntriesCounted
  BY <1>1 DEF Track!EntriesCounted, TrackInv, Good
<1>6. Track!ListedOnce
  BY <1>1, <1>3 DEF Track!ListedOnce, Track!Torrents, PeersOk
<1>7. Track!AllTried
  <2> SUFFICES ASSUME NEW t \in 1 .. NTorrents, heard[t].kind = "list", NEW h \in Track!Range(heard[t].hosts)
               PROVE  h.id = MyId \/ nstatus = MAXCONN \/ \E p \in Track!Range(dls[t].peers) : p.id = h.id
    BY DEF Track!AllTried, Track!Torrents
  <2>1. PICK a \in Answers : a = heard[t]
    BY DEF TrackInv
  <2>2. a.hosts \in Seq(Hosts)
    BY ConstantTypes
  <2>3. PICK j \in 1 .. Len(a.hosts) : h = a.hosts[j]
    BY <2>1, <2>2 DEF Track!Range
  <2>4. Tried(Track!Now, t, h)
    BY <2>1, <2>3 DEF TrackInv
  <2> QED BY <1>1, <1>3, <2>4 DEF Tried
<1>8. Track!Timely
  BY DEF Track!Timely, Track!Torrents, TrackInv
<1>9. Track!CompletedOnce
  BY <1>1 DEF Track!CompletedOnce, Track!Torrents, Reported
<1> QED BY <1>4, <1>5, <1>6, <1>7, <1>8, <1>9

(* For any torrents, hosts and answers of their trackers: every connection  *)
(* has its entry in poll()'s table and no entry is lost; a peer named by    *)
(* its id is connected to once and none that is named is passed over while  *)
(* there is room; each tracker is asked in its time; and "completed" is     *)
(* told once, for what was completed in this life.                          *)
THEOREM TrackersSoundHolds ==
  ASSUME Track!TrackerAssumption
  PROVE  Track!Spec => [](/\ Track!TypeOK /\ Track!EntriesCounted /\ Track!ListedOnce /\ Track!AllTried
                          /\ Track!Timely /\ Track!CompletedOnce)
<1>1. Track!Init => TrackInv
  BY TrackInit
<1>2. TrackInv /\ [Track!Next]_Track!vars => TrackInv'
  BY TrackStep
<1>3. TrackInv => /\ Track!TypeOK /\ Track!EntriesCounted /\ Track!ListedOnce /\ Track!AllTried
                  /\ Track!Timely /\ Track!CompletedOnce
  BY TrackSound
<1> QED BY <1>1, <1>2, <1>3, PTL DEF Track!Spec

-----------------------------------------------------------------------------
(* The torrent builder.  What it hashes is the files one after the other,   *)
(* whatever their sizes.  FlattenSeq is a recursive function: `Flat` says   *)
(* that g is it, as far as n.                                               *)

CONSTANTS Letter, Text, Size, Number, MaxArgs, Default

VARIABLES phase, nargs, opt, count, path, files, name, length, mode, todo, pos, buf, pieces, entries

Make == INSTANCE Maker

Flat(s, g, n) == g = [i \in 1 .. n |-> IF i = 1 THEN s[i] ELSE g[i - 1] \o s[i]]

LEMMA FlatExists ==
  ASSUME NEW n \in Nat, NEW s
  PROVE  \E g : Flat(s, g, n)
<1> DEFINE A == {m \in Nat : \E g : Flat(s, g, m)}
<1>1. 0 \in A
  <2>1. Flat(s, [i \in 1 .. 0 |-> s], 0)
    BY DEF Flat
  <2> QED BY <2>1
<1>2. ASSUME NEW m \in 1 .. n, m - 1 \in A
      PROVE  m \in A
  <2>1. PICK g : Flat(s, g, m - 1)
    BY <1>2
  <2> DEFINE h == [i \in 1 .. m |-> IF i # m THEN g[i] ELSE IF m = 1 THEN s[m] ELSE g[m - 1] \o s[m]]
  <2>2. ASSUME NEW i \in 1 .. m
        PROVE  h[i] = IF i = 1 THEN s[i] ELSE h[i - 1] \o s[i]
    <3>1. CASE i = m
      <4>1. CASE m = 1
        BY <3>1, <4>1
      <4>2. CASE m # 1
        <5>1. m - 1 \in 1 .. m /\ m - 1 # m
          BY <4>2
        <5> QED BY <3>1, <4>2, <5>1
      <4> QED BY <4>1, <4>2
    <3>2. CASE i # m
      <4>1. i \in 1 .. m - 1
        BY <3>2
      <4>2. h[i] = g[i]
        BY <3>2
      <4>3. g[i] = IF i = 1 THEN s[i] ELSE g[i - 1] \o s[i]
        BY <2>1, <4>1 DEF Flat
      <4>4. i # 1 => i - 1 \in 1 .. m /\ i - 1 # m
        BY <4>1
      <4> QED BY <4>2, <4>3, <4>4
    <3> QED BY <3>1, <3>2
  <2>3. h = [i \in 1 .. m |-> h[i]]
    OBVIOUS
  <2> HIDE DEF h
  <2>4. Flat(s, h, m)
    BY <2>2, <2>3 DEF Flat
  <2> QED BY <2>4
<1> HIDE DEF A
<1>3. n \in A
  BY <1>1, <1>2, UpTo
<1> QED BY <1>3 DEF A

SameTo(s, t, m) == \A i \in 1 .. m : s[i] = t[i]

LEMMA FlatAlike ==
  ASSUME NEW n \in Nat, NEW m \in 0 .. n, NEW s, NEW t, SameTo(s, t, m),
         NEW g, NEW h, Flat(s, g, n), Flat(t, h, m)
  PROVE  SameTo(g, h, m)
<1> DEFINE A == {i \in Nat : i # 0 => g[i] = h[i]}
<1>1. 0 \in A
  OBVIOUS
<1>2. ASSUME NEW i \in 1 .. m, i - 1 \in A
      PROVE  i \in A
  <2>1. i \in 1 .. n /\ i \in Nat
    OBVIOUS
  <2>2. g[i] = IF i = 1 THEN s[i] ELSE g[i - 1] \o s[i]
    BY <2>1 DEF Flat
  <2>3. h[i] = IF i = 1 THEN t[i] ELSE h[i - 1] \o t[i]
    BY DEF Flat
  <2>5. s[i] = t[i]
    BY DEF SameTo
  <2>4. i # 1 => g[i - 1] = h[i - 1]
    BY <1>2
  <2> QED BY <2>1, <2>2, <2>3, <2>4, <2>5
<1> HIDE DEF A
<1>3. \A i \in 0 .. m : i \in A
  BY <1>1, <1>2, UpTo
<1> QED BY <1>3 DEF A, SameTo

LEMMA FlattenIs ==
  ASSUME NEW s, NEW n \in Nat \ {0}, Len(s) = n, NEW g, Flat(s, g, n)
  PROVE  Make!FlattenSeq(s) = g[n]
<1> DEFINE h == CHOOSE f : Flat(s, f, n)
<1>1. Flat(s, h, n)
  BY FlatExists
<1>2. Make!FlattenSeq(s) = h[n]
  <2>1. Make!FlattenSeq(s) = h[Len(s)]
    BY Zenon DEF Make!FlattenSeq, Flat
  <2> QED BY <2>1
<1> HIDE DEF h
<1>3. g[n] = h[n]
  <2>1. SameTo(s, s, n) /\ n \in 0 .. n
    BY DEF SameTo
  <2>2. SameTo(g, h, n)
    BY <1>1, <2>1, FlatAlike
  <2> QED BY <2>2 DEF SameTo
<1> QED BY <1>2, <1>3

(* One more sequence comes at the end.                                      *)
LEMMA Flattened ==
  ASSUME NEW S, NEW s \in Seq(Seq(S))
  PROVE  /\ Make!FlattenSeq(<<>>) = <<>> /\ Make!FlattenSeq(s) \in Seq(S)
         /\ \A e \in Seq(S) : Make!FlattenSeq(Append(s, e)) = Make!FlattenSeq(s) \o e
<1>1. Make!FlattenSeq(<<>>) = <<>>
  <2>1. Len(<<>>) = 0
    OBVIOUS
  <2> QED BY <2>1, Zenon DEF Make!FlattenSeq
<1>a. PICK T : T = Seq(S)
  OBVIOUS
<1>b. s \in Seq(T)
  BY <1>a
<1>2. PICK n \in Nat : n = Len(s)
  BY <1>b
<1>3. PICK g : Flat(s, g, n)
  BY FlatExists
<1>4. n # 0 => Make!FlattenSeq(s) = g[n]
  BY <1>2, <1>3, FlattenIs
<1>5. n = 0 => s = <<>>
  BY <1>b, <1>2, EmptySeq
<1>6. \A i \in 1 .. n : g[i] \in T
  <2> DEFINE A == {i \in Nat : i # 0 => g[i] \in T}
  <2>1. 0 \in A
    OBVIOUS
  <2>2. ASSUME NEW i \in 1 .. n, i - 1 \in A
        PROVE  i \in A
    <3>1. g[i] = IF i = 1 THEN s[i] ELSE g[i - 1] \o s[i]
      BY <1>3 DEF Flat
    <3>2. s[i] \in T
      BY <1>b, <1>2
    <3>3. i # 1 => g[i - 1] \in T
      BY <2>2
    <3>4. i # 1 => g[i - 1] \o s[i] \in T
      BY <1>a, <3>2, <3>3, ConcatProperties
    <3>5. i \in Nat /\ g[i] \in T
      BY <3>1, <3>2, <3>4
    <3> QED BY <3>5
  <2> HIDE DEF A
  <2>3. \A i \in 0 .. n : i \in A
    BY <2>1, <2>2, UpTo
  <2> QED BY <2>3 DEF A
<1>7. Make!FlattenSeq(s) \in T
  <2>1. CASE n = 0
    <3>1. <<>> \in T
      BY <1>a
    <3> QED BY <1>1, <1>5, <2>1, <3>1, Zenon
  <2>2. CASE n # 0
    <3>1. n \in 1 .. n
      BY <2>2
    <3> QED BY <1>4, <1>6, <2>2, <3>1, Zenon
  <2> QED BY <2>1, <2>2
<1>8. ASSUME NEW e \in T
      PROVE  Make!FlattenSeq(Append(s, e)) = Make!FlattenSeq(s) \o e
  <2>1. PICK t \in Seq(T) : t = Append(s, e)
    BY <1>b, AppendProperties
  <2>9. PICK m \in Nat : m = n + 1
    OBVIOUS
  <2>0. m = n + 1 /\ m # 0 /\ n \in 0 .. m /\ m - 1 = n /\ m \in 1 .. m /\ (m = 1 <=> n = 0)
    BY <2>9
  <2>2. Len(t) = m /\ t[m] = e /\ SameTo(t, s, n)
    BY <1>b, <1>2, <2>0, <2>1 DEF SameTo
  <2>3. PICK h : Flat(t, h, m)
    BY FlatExists
  <2>4. Make!FlattenSeq(t) = h[m]
    BY <2>0, <2>2, <2>3, FlattenIs
  <2>5. h[m] = IF m = 1 THEN e ELSE h[n] \o e
    BY <2>0, <2>2, <2>3 DEF Flat
  <2>6. CASE n = 0
    <3>1. <<>> \o e = e
      BY <1>a, ConcatEmptySeq
    <3>2. Make!FlattenSeq(s) = <<>>
      BY <1>1, <1>5, <2>6, Zenon
    <3>3. m = 1
      BY <2>0, <2>6
    <3> QED BY <2>1, <2>4, <2>5, <3>1, <3>2, <3>3, Zenon
  <2>7. CASE n # 0
    <3>1. h[n] = g[n]
      <4>1. SameTo(h, g, n)
        BY <1>3, <2>0, <2>2, <2>3, FlatAlike
      <4> QED BY <2>7, <4>1 DEF SameTo
    <3>2. m # 1
      BY <2>0, <2>7
    <3> QED BY <1>4, <2>1, <2>4, <2>5, <2>7, <3>1, <3>2, Zenon
  <2> QED BY <2>6, <2>7
<1> QED BY <1>1, <1>a, <1>7, <1>8, Zenon

(* The names of a path: as far as i the list L holds the runs s[k]..e[k].   *)
Cut(t, L, i, s, e) ==
  /\ s \in [1 .. Len(L) -> 1 .. i] /\ e \in [1 .. Len(L) -> 1 .. i]
  /\ \A k \in 1 .. Len(L) : s[k] <= e[k] /\ L[k] = SubSeq(t, s[k], e[k])
  /\ \A k \in 1 .. Len(L) : k > 1 => e[k - 1] + 1 < s[k]
  /\ \A j \in 1 .. i : t[j] \notin Make!Separators <=> \E k \in 1 .. Len(L) : s[k] <= j /\ j <= e[k]

Word == Seq(STRING)

(* A separator changes nothing; another character begins a name, or is the  *)
(* next one of a name that was begun.                                       *)
LEMMA CutSeparator ==
  ASSUME NEW t, NEW L \in Seq(Word), NEW i \in Nat \ {0}, NEW s, NEW e, Cut(t, L, i - 1, s, e),
         t[i] \in Make!Separators
  PROVE  Cut(t, L, i, s, e) /\ \A k \in 1 .. Len(L) : e[k] # i
<1>1. PICK n \in Nat : n = Len(L)
  OBVIOUS
<1>2. /\ s \in [1 .. n -> 1 .. i - 1] /\ e \in [1 .. n -> 1 .. i - 1]
      /\ \A j \in 1 .. i - 1 : t[j] \notin Make!Separators <=> \E k \in 1 .. n : s[k] <= j /\ j <= e[k]
  BY <1>1 DEF Cut
<1>3. \A k \in 1 .. n : s[k] \in 1 .. i - 1 /\ e[k] \in 1 .. i - 1 /\ e[k] # i /\ ~(i <= e[k])
  BY <1>2
<1>4. s \in [1 .. n -> 1 .. i] /\ e \in [1 .. n -> 1 .. i]
  BY <1>2, <1>3
<1>5. \A j \in 1 .. i : t[j] \notin Make!Separators <=> \E k \in 1 .. n : s[k] <= j /\ j <= e[k]
  <2> TAKE j \in 1 .. i
  <2>1. CASE j = i
    BY <1>3, <2>1
  <2>2. CASE j # i
    <3>1. j \in 1 .. i - 1
      BY <2>2
    <3> QED BY <1>2, <3>1
  <2> QED BY <2>1, <2>2
<1> QED BY <1>1, <1>3, <1>4, <1>5 DEF Cut

Begins(t, L, i, s, e, M) ==
  /\ i \in 1 .. Len(t) /\ Cut(t, L, i - 1, s, e) /\ t[i] \notin Make!Separators
  /\ \A k \in 1 .. Len(L) : e[k] # i - 1
  /\ M = Append(L, Append(<<>>, t[i]))

LEMMA CutBegins ==
  ASSUME NEW t \in Word, NEW L \in Seq(Word), NEW i, NEW s, NEW e, NEW M, Begins(t, L, i, s, e, M)
  PROVE  \E a, b : Cut(t, M, i, a, b) /\ b[Len(M)] = i
<1>0. /\ i \in 1 .. Len(t) /\ Cut(t, L, i - 1, s, e) /\ t[i] \notin Make!Separators
      /\ (\A k \in 1 .. Len(L) : e[k] # i - 1) /\ M = Append(L, Append(<<>>, t[i]))
  BY DEF Begins
<1> USE <1>0
<1>1. PICK n \in Nat : n = Len(L)
  OBVIOUS
<1>2. PICK m \in Nat : m = n + 1
  OBVIOUS
<1>3. /\ s \in [1 .. n -> 1 .. i - 1] /\ e \in [1 .. n -> 1 .. i - 1]
      /\ \A k \in 1 .. n : s[k] <= e[k] /\ L[k] = SubSeq(t, s[k], e[k])
      /\ \A k \in 1 .. n : k > 1 => e[k - 1] + 1 < s[k]
      /\ \A j \in 1 .. i - 1 : t[j] \notin Make!Separators <=> \E k \in 1 .. n : s[k] <= j /\ j <= e[k]
  BY <1>1 DEF Cut
<1>4. /\ M \in Seq(Word) /\ Len(M) = m /\ M[m] = Append(<<>>, t[i]) /\ \A k \in 1 .. n : M[k] = L[k]
  <2>1. t[i] \in STRING /\ Append(<<>>, t[i]) \in Word
    BY DEF Word
  <2> QED BY <1>1, <1>2, <2>1, AppendProperties
<1>5. Append(<<>>, t[i]) = SubSeq(t, i, i)
  <2>1. t[i] \in STRING
    BY DEF Word
  <2>2. PICK u : u = SubSeq(t, i, i)
    OBVIOUS
  <2>3. u \in Seq(STRING) /\ Len(u) = 1 /\ u[1] = t[i]
    BY <2>1, <2>2, SubSeqProperties
  <2>4. PICK v : v = Append(<<>>, t[i])
    OBVIOUS
  <2>5. v \in Seq(STRING) /\ Len(v) = 1 /\ v[1] = t[i]
    BY <2>1, <2>4
  <2>6. u = v
    BY <2>3, <2>5, SeqEqual
  <2> QED BY <2>2, <2>4, <2>6
<1>6. PICK a, b : a = [k \in 1 .. m |-> IF k = m THEN i ELSE s[k]]
                  /\ b = [k \in 1 .. m |-> IF k = m THEN i ELSE e[k]]
  OBVIOUS
<1>7. \A k \in 1 .. m : k # m => k \in 1 .. n /\ s[k] \in 1 .. i - 1 /\ e[k] \in 1 .. i - 1
  BY <1>2, <1>3
<1>8. /\ \A k \in 1 .. n : a[k] = s[k] /\ b[k] = e[k] /\ k \in 1 .. m /\ k # m
      /\ m \in 1 .. m /\ a[m] = i /\ b[m] = i
  BY <1>2, <1>6
<1>9. a \in [1 .. m -> 1 .. i] /\ b \in [1 .. m -> 1 .. i]
  <2>1. \A k \in 1 .. m : (IF k = m THEN i ELSE s[k]) \in 1 .. i /\ (IF k = m THEN i ELSE e[k]) \in 1 .. i
    BY <1>7
  <2> QED BY <1>6, <2>1
<1>10. ASSUME NEW k \in 1 .. m
       PROVE  /\ a[k] <= b[k] /\ M[k] = SubSeq(t, a[k], b[k])
              /\ k > 1 => b[k - 1] + 1 < a[k]
  <2>1. CASE k = m
    <3>1. k > 1 => k - 1 \in 1 .. n /\ b[k - 1] = e[k - 1] /\ e[k - 1] \in 1 .. i - 1 /\ e[k - 1] # i - 1
      <4>1. k > 1 => k - 1 \in 1 .. n
        BY <1>2, <2>1
      <4>2. \A q \in 1 .. n : e[q] \in 1 .. i - 1 /\ e[q] # i - 1 /\ b[q] = e[q]
        BY <1>1, <1>3, <1>8
      <4>3. ASSUME k > 1
            PROVE  b[k - 1] = e[k - 1] /\ e[k - 1] \in 1 .. i - 1 /\ e[k - 1] # i - 1
        <5>1. PICK q \in 1 .. n : q = k - 1
          BY <4>1, <4>3
        <5> QED BY <4>2, <5>1
      <4> QED BY <4>1, <4>3
    <3>2. a[k] = i /\ b[k] = i /\ M[k] = SubSeq(t, i, i)
      BY <1>4, <1>5, <1>8, <2>1
    <3>3. i \in Nat /\ i <= i
      BY DEF Word
    <3>4. a[k] <= b[k] /\ M[k] = SubSeq(t, a[k], b[k])
      BY <3>2, <3>3
    <3>5. ASSUME k > 1 PROVE b[k - 1] + 1 < a[k]
      <4>1. PICK c : c = b[k - 1]
        OBVIOUS
      <4>2. c \in 1 .. i - 1 /\ c # i - 1
        BY <3>1, <3>5, <4>1
      <4>3. c + 1 < i
        BY ONLY <3>3, <4>2
      <4> QED BY <3>2, <4>1, <4>3
    <3> QED BY <3>4, <3>5
  <2>2. CASE k # m
    <3>1. k \in 1 .. n /\ M[k] = L[k]
      BY <1>4, <1>7, <2>2
    <3>2. k > 1 => k - 1 \in 1 .. n
      BY <3>1
    <3> QED BY <1>3, <1>8, <3>1, <3>2
  <2> QED BY <2>1, <2>2
<1>11. \A j \in 1 .. i : t[j] \notin Make!Separators <=> \E k \in 1 .. m : a[k] <= j /\ j <= b[k]
  <2> TAKE j \in 1 .. i
  <2>1. CASE j = i
    BY <1>8, <2>1
  <2>2. CASE j # i
    <3>1. j \in 1 .. i - 1 /\ ~(i <= j)
      BY <2>2
    <3>2. (\E k \in 1 .. m : a[k] <= j /\ j <= b[k]) <=> \E k \in 1 .. n : s[k] <= j /\ j <= e[k]
      BY <1>7, <1>8, <3>1
    <3> QED BY <1>3, <3>1, <3>2
  <2> QED BY <2>1, <2>2
<1>12. Cut(t, M, i, a, b)
  BY <1>4, <1>9, <1>10, <1>11 DEF Cut
<1> QED BY <1>4, <1>8, <1>12

GoesOn(t, N, z, L, i, s, e, M) ==
  /\ L = Append(N, z) /\ i \in 1 .. Len(t) /\ Cut(t, L, i - 1, s, e) /\ t[i] \notin Make!Separators
  /\ e[Len(L)] = i - 1 /\ M = Append(N, Append(z, t[i]))

LEMMA CutGoesOn ==
  ASSUME NEW t \in Word, NEW N \in Seq(Word), NEW z \in Word, NEW L, NEW i, NEW s, NEW e, NEW M,
         GoesOn(t, N, z, L, i, s, e, M)
  PROVE  \E a, b : Cut(t, M, i, a, b) /\ b[Len(M)] = i
<1>0. /\ L = Append(N, z) /\ i \in 1 .. Len(t) /\ Cut(t, L, i - 1, s, e) /\ t[i] \notin Make!Separators
      /\ e[Len(L)] = i - 1 /\ M = Append(N, Append(z, t[i]))
  BY DEF GoesOn
<1> USE <1>0
<1>1. PICK n \in Nat : n = Len(N) + 1
  OBVIOUS
<1>2. /\ L \in Seq(Word) /\ Len(L) = n /\ L[n] = z /\ n \in 1 .. n
      /\ \A k \in 1 .. n : k # n => L[k] = N[k]
  <2>1. Len(N) \in Nat /\ \A k \in 1 .. n : k # n => k \in 1 .. Len(N)
    BY <1>1
  <2> QED BY <1>1, <2>1, AppendProperties
<1>3. /\ s \in [1 .. n -> 1 .. i - 1] /\ e \in [1 .. n -> 1 .. i - 1]
      /\ \A k \in 1 .. n : s[k] <= e[k] /\ L[k] = SubSeq(t, s[k], e[k])
      /\ \A k \in 1 .. n : k > 1 => e[k - 1] + 1 < s[k]
      /\ \A j \in 1 .. i - 1 : t[j] \notin Make!Separators <=> \E k \in 1 .. n : s[k] <= j /\ j <= e[k]
  BY <1>2 DEF Cut
<1>4. PICK y \in Word : y = Append(z, t[i])
  <2>1. t[i] \in STRING /\ z \in Seq(STRING)
    BY DEF Word
  <2>2. Append(z, t[i]) \in Seq(STRING)
    BY <2>1, AppendProperties
  <2> QED BY <2>2 DEF Word
<1>5. /\ M \in Seq(Word) /\ Len(M) = n /\ M[n] = y /\ \A k \in 1 .. n : k # n => M[k] = L[k]
  <2>1. Len(N) \in Nat /\ \A k \in 1 .. n : k # n => k \in 1 .. Len(N)
    BY <1>1
  <2> QED BY <1>1, <1>2, <1>4, <2>1, AppendProperties
<1>a. i \in Nat /\ \A k \in 1 .. n : s[k] \in 1 .. i - 1 /\ e[k] \in 1 .. i - 1 /\ s[k] \in 1 .. i /\ e[k] \in 1 .. i
  <2>1. \A k \in 1 .. n : s[k] \in 1 .. i - 1 /\ e[k] \in 1 .. i - 1
    BY <1>3
  <2>2. i \in Nat /\ \A q \in 1 .. i - 1 : q \in 1 .. i
    BY DEF Word
  <2> QED BY <2>1, <2>2
<1>6. s[n] \in 1 .. i - 1 /\ e[n] = i - 1 /\ z = SubSeq(t, s[n], i - 1) /\ s[n] <= i - 1
  <2>1. e[n] = i - 1 /\ L[n] = SubSeq(t, s[n], e[n])
    BY <1>2, <1>3
  <2>2. s[n] \in 1 .. i - 1
    BY <1>2, <1>3
  <2> QED BY <1>2, <1>a, <2>1, <2>2
<1>7. y = SubSeq(t, s[n], i)
  <2>1. PICK m : m = s[n]
    OBVIOUS
  <2>2. t \in Seq(STRING) /\ m \in 1 .. Len(t) /\ i \in m .. Len(t) /\ t[i] \in STRING
    BY <1>6, <2>1 DEF Word
  <2>3. SubSeq(t, m, i) = SubSeq(t, m, i - 1) \o <<t[i]>>
    BY <2>2, SubSeqRecursiveSecond
  <2>4. Append(z, t[i]) = z \o <<t[i]>>
    BY <2>2, AppendIsConcat DEF Word
  <2> QED BY <1>4, <1>6, <2>1, <2>3, <2>4
<1>8. PICK b : b = [k \in 1 .. n |-> IF k = n THEN i ELSE e[k]]
  OBVIOUS
<1>9. b[n] = i /\ (\A k \in 1 .. n : k # n => b[k] = e[k])
  BY <1>2, <1>8
<1>10. s \in [1 .. n -> 1 .. i] /\ b \in [1 .. n -> 1 .. i]
  <2>1. \A k \in 1 .. n : s[k] \in 1 .. i /\ (IF k = n THEN i ELSE e[k]) \in 1 .. i
    BY <1>a
  <2> QED BY <1>3, <1>a, <1>8, <2>1
<1>11. ASSUME NEW k \in 1 .. n
       PROVE  s[k] <= b[k] /\ M[k] = SubSeq(t, s[k], b[k]) /\ (k > 1 => b[k - 1] + 1 < s[k])
  <2>1. k > 1 => k - 1 \in 1 .. n /\ k - 1 # n /\ b[k - 1] = e[k - 1]
    BY <1>9
  <2>2. CASE k = n
    <3>1. s[k] <= b[k] /\ M[k] = SubSeq(t, s[k], b[k])
      <4>1. b[k] = i /\ M[k] = SubSeq(t, s[k], i)
        BY <1>5, <1>7, <1>9, <2>2
      <4>2. s[k] <= i
        BY <1>a
      <4> QED BY <4>1, <4>2
    <3> QED BY <1>3, <2>1, <3>1
  <2>3. CASE k # n
    BY <1>3, <1>5, <1>9, <2>1, <2>3
  <2> QED BY <2>2, <2>3
<1>12. \A j \in 1 .. i : t[j] \notin Make!Separators <=> \E k \in 1 .. n : s[k] <= j /\ j <= b[k]
  <2> TAKE j \in 1 .. i
  <2>1. CASE j = i
    <3>1. i \in Nat /\ s[n] \in Nat /\ s[n] <= i - 1 /\ n \in 1 .. n
      BY <1>2, <1>6, <1>a
    <3>2. s[n] <= i /\ i <= b[n]
      BY ONLY <1>9, <3>1
    <3> QED BY <2>1, <3>1, <3>2
  <2>2. CASE j # i
    <3>1. j \in 1 .. i - 1 /\ j <= i - 1 /\ j <= i
      BY <1>a, <2>2
    <3>2. ASSUME NEW k \in 1 .. n PROVE (j <= b[k]) <=> (j <= e[k])
      <4>1. CASE k = n
        BY ONLY <1>6, <1>9, <3>1, <4>1
      <4>2. CASE k # n
        BY ONLY k \in 1 .. n, <1>9, <4>2
      <4> QED BY <4>1, <4>2
    <3> QED BY <1>3, <3>1, <3>2
  <2> QED BY <2>1, <2>2
<1>13. Cut(t, M, i, s, b)
  BY <1>5, <1>10, <1>11, <1>12 DEF Cut
<1> QED BY <1>5, <1>9, <1>13

(* The turns of write_path_list() over the characters of a path.            *)
Walk(t, w, n) ==
  w = [i \in 0 .. n |->
         IF i = 0 THEN [list |-> <<>>, el |-> <<>>]
         ELSE IF t[i] \in Make!Separators THEN [list |-> Make!Take(w[i - 1]), el |-> <<>>]
         ELSE [w[i - 1] EXCEPT !.el = Append(@, t[i])]]

LEMMA WalkExists ==
  ASSUME NEW n \in Nat, NEW t
  PROVE  \E w : Walk(t, w, n)
<1> DEFINE A == {m \in Nat : \E w : Walk(t, w, m)}
           Turn(r, c) == IF c \in Make!Separators THEN [list |-> Make!Take(r), el |-> <<>>]
                         ELSE [r EXCEPT !.el = Append(@, c)]
<1>1. 0 \in A
  <2>1. Walk(t, [i \in 0 .. 0 |-> [list |-> <<>>, el |-> <<>>]], 0)
    BY DEF Walk
  <2> QED BY <2>1
<1>2. ASSUME NEW m \in 1 .. n, m - 1 \in A
      PROVE  m \in A
  <2>1. PICK w : Walk(t, w, m - 1)
    BY <1>2
  <2> DEFINE h == [i \in 0 .. m |-> IF i = m THEN Turn(w[m - 1], t[m]) ELSE w[i]]
  <2>2. \A i \in 0 .. m : h[i] = IF i = 0 THEN [list |-> <<>>, el |-> <<>>] ELSE Turn(h[i - 1], t[i])
    <3>1. \A i \in 0 .. m - 1 :
            w[i] = IF i = 0 THEN [list |-> <<>>, el |-> <<>>] ELSE Turn(w[i - 1], t[i])
      BY <2>1, Zenon DEF Walk
    <3> HIDE DEF Turn
    <3>2. \A i \in 0 .. m : i # m => i \in 0 .. m - 1
      OBVIOUS
    <3>3. \A i \in 0 .. m : i # 0 => i - 1 \in 0 .. m /\ i - 1 # m /\ h[i - 1] = w[i - 1]
      OBVIOUS
    <3>4. m # 0 /\ h[m] = Turn(w[m - 1], t[m]) /\ \A i \in 0 .. m : i # m => h[i] = w[i]
      OBVIOUS
    <3> HIDE DEF h
    <3> QED BY <3>1, <3>2, <3>3, <3>4
  <2>3. h = [i \in 0 .. m |-> h[i]]
    OBVIOUS
  <2> HIDE DEF h
  <2>4. h = [i \in 0 .. m |-> IF i = 0 THEN [list |-> <<>>, el |-> <<>>] ELSE Turn(h[i - 1], t[i])]
    <3> HIDE DEF Turn
    <3> QED BY <2>2, <2>3
  <2>5. Walk(t, h, m)
    BY <2>4, Zenon DEF Walk
  <2> QED BY <2>5
<1> HIDE DEF A
<1>3. n \in A
  BY <1>1, <1>2, UpTo
<1> QED BY <1>3 DEF A

Acc == [list : Seq(Word), el : Word]

(* What is begun ends where the walk is.                                    *)
Parsed(t, r, i) ==
  /\ r \in Acc
  /\ \E s, e : /\ Cut(t, Make!Take(r), i, s, e)
               /\ \A k \in 1 .. Len(Make!Take(r)) : r.el = <<>> => e[k] # i
               /\ r.el # <<>> => e[Len(Make!Take(r))] = i

LEMMA NamesTaken ==
  ASSUME NEW r \in Acc
  PROVE  Make!Take(r) \in Seq(Word) /\ Make!Take(r) = IF r.el = <<>> THEN r.list ELSE Append(r.list, r.el)
<1>1. Make!Take(r) = IF r.el = <<>> THEN r.list ELSE Append(r.list, r.el)
  BY DEF Make!Take
<1>2. r.list \in Seq(Word) /\ r.el \in Word
  BY DEF Acc
<1>3. Append(r.list, r.el) \in Seq(Word)
  BY <1>2, AppendProperties
<1> QED BY <1>1, <1>2, <1>3

LEMMA ParsedMore ==
  ASSUME NEW t \in Word, NEW i \in 1 .. Len(t), NEW r, Parsed(t, r, i - 1),
         NEW q, q = IF t[i] \in Make!Separators THEN [list |-> Make!Take(r), el |-> <<>>]
                    ELSE [r EXCEPT !.el = Append(@, t[i])]
  PROVE  Parsed(t, q, i)
<1>1. PICK L \in Seq(Word) : L = Make!Take(r)
  BY NamesTaken DEF Parsed
<1>2. PICK s, e : /\ Cut(t, L, i - 1, s, e) /\ (\A k \in 1 .. Len(L) : r.el = <<>> => e[k] # i - 1)
                  /\ (r.el # <<>> => e[Len(L)] = i - 1)
  BY <1>1 DEF Parsed
<1>3. /\ r \in Acc /\ r.list \in Seq(Word) /\ r.el \in Word /\ i \in Nat \ {0} /\ t[i] \in STRING
      /\ L = IF r.el = <<>> THEN r.list ELSE Append(r.list, r.el)
  <2>1. r \in Acc
    BY DEF Parsed
  <2>2. i \in Nat \ {0} /\ t[i] \in STRING
    BY DEF Word
  <2>3. r.list \in Seq(Word) /\ r.el \in Word
    BY <2>1 DEF Acc
  <2> QED BY <1>1, <2>1, <2>2, <2>3, NamesTaken
<1>4. CASE t[i] \in Make!Separators
  <2>1. q = [list |-> L, el |-> <<>>]
    BY <1>1, <1>4
  <2>2. q \in Acc /\ q.el = <<>> /\ q.list = L
    <3>1. <<>> \in Word
      BY DEF Word
    <3> QED BY <2>1, <3>1 DEF Acc
  <2>3. Make!Take(q) = L
    BY <2>2, NamesTaken
  <2>4. Cut(t, L, i, s, e) /\ \A k \in 1 .. Len(L) : e[k] # i
    BY <1>2, <1>3, <1>4, CutSeparator
  <2> QED BY <2>2, <2>3, <2>4 DEF Parsed
<1>5. CASE t[i] \notin Make!Separators
  <2>1. PICK y \in Word : y = Append(r.el, t[i]) /\ y # <<>>
    <3>1. r.el \in Seq(STRING)
      BY <1>3 DEF Word
    <3> QED BY <1>3, <3>1, AppendProperties DEF Word
  <2>2. q = [r EXCEPT !.el = y]
    BY <1>5, <2>1
  <2>3. q \in Acc /\ q.list = r.list /\ q.el = y
    BY <1>3, <2>2 DEF Acc
  <2>4. PICK M : M = Append(r.list, y)
    OBVIOUS
  <2>5. Make!Take(q) = M
    BY <2>1, <2>3, <2>4, NamesTaken
  <2>6. \E a, b : Cut(t, M, i, a, b) /\ b[Len(M)] = i
    <3>1. CASE r.el = <<>>
      <4>1. L = r.list /\ M = Append(L, Append(<<>>, t[i]))
        BY <1>3, <2>1, <2>4, <3>1
      <4>2. \A k \in 1 .. Len(L) : e[k] # i - 1
        BY <1>2, <3>1
      <4>3. Begins(t, L, i, s, e, M)
        BY <1>2, <1>5, <4>1, <4>2 DEF Begins
      <4> QED BY <4>3, CutBegins
    <3>2. CASE r.el # <<>>
      <4>1. L = Append(r.list, r.el) /\ M = Append(r.list, Append(r.el, t[i])) /\ e[Len(L)] = i - 1
        BY <1>2, <1>3, <2>1, <2>4, <3>2
      <4>2. GoesOn(t, r.list, r.el, L, i, s, e, M)
        BY <1>2, <1>5, <4>1 DEF GoesOn
      <4> QED BY <1>3, <4>2, CutGoesOn
    <3> QED BY <3>1, <3>2
  <2> QED BY <2>1, <2>3, <2>5, <2>6 DEF Parsed
<1> QED BY <1>4, <1>5

(* write_path_list() writes the names of a path, in their order.            *)
LEMMA PathIs ==
  ASSUME NEW t \in Word
  PROVE  Make!PathList(t) \in Seq(Word) /\ Make!NamesOf(t, Make!PathList(t))
<1>1. PICK n \in Nat : n = Len(t)
  BY DEF Word
<1> DEFINE w == CHOOSE f : Walk(t, f, n)
<1>2. Walk(t, w, n)
  BY <1>1, WalkExists
<1>3. Make!PathList(t) = Make!Take(w[n])
  <2>1. Make!PathList(t) = Make!Take((CHOOSE f : Walk(t, f, Len(t)))[Len(t)])
    BY Zenon DEF Make!PathList, Walk
  <2> QED BY <1>1, <2>1, Zenon
<1> HIDE DEF w
<1>4. /\ w[0] = [list |-> <<>>, el |-> <<>>]
      /\ \A i \in 1 .. n : w[i] = IF t[i] \in Make!Separators THEN [list |-> Make!Take(w[i - 1]), el |-> <<>>]
                                  ELSE [w[i - 1] EXCEPT !.el = Append(@, t[i])]
  <2>1. 0 \in 0 .. n /\ \A i \in 1 .. n : i \in 0 .. n /\ i # 0
    OBVIOUS
  <2>2. \A i \in 0 .. n :
          w[i] = IF i = 0 THEN [list |-> <<>>, el |-> <<>>]
                 ELSE IF t[i] \in Make!Separators THEN [list |-> Make!Take(w[i - 1]), el |-> <<>>]
                 ELSE [w[i - 1] EXCEPT !.el = Append(@, t[i])]
    BY <1>2, Zenon DEF Walk
  <2> QED BY <2>1, <2>2, Zenon
<1> DEFINE A == {i \in 0 .. n : Parsed(t, w[i], i)}
<1>5. 0 \in A
  <2>1. PICK r : r = w[0]
    OBVIOUS
  <2>2. r = [list |-> <<>>, el |-> <<>>] /\ <<>> \in Word /\ <<>> \in Seq(Word)
    BY <1>4, <2>1 DEF Word
  <2>3. r \in Acc /\ r.el = <<>> /\ r.list = <<>>
    BY <2>2 DEF Acc
  <2>4. Make!Take(r) = <<>> /\ Len(<<>>) = 0
    BY <2>3, NamesTaken
  <2>5. Cut(t, <<>>, 0, [k \in {} |-> 0], [k \in {} |-> 0])
    <3>1. 1 .. Len(<<>>) = {} /\ 1 .. 0 = {}
      OBVIOUS
    <3> QED BY <3>1 DEF Cut
  <2>6. Parsed(t, r, 0)
    BY <2>3, <2>4, <2>5 DEF Parsed
  <2> QED BY <2>1, <2>6
<1>6. ASSUME NEW i \in 1 .. n, i - 1 \in A
      PROVE  i \in A
  <2>1. Parsed(t, w[i - 1], i - 1) /\ i \in 1 .. Len(t)
    BY <1>1, <1>6
  <2>2. Parsed(t, w[i], i)
    BY <1>4, <2>1, ParsedMore, Zenon
  <2> QED BY <2>2
<1> HIDE DEF A
<1>7. n \in A
  BY <1>5, <1>6, UpTo
<1>8. PICK r : r = w[n] /\ Parsed(t, r, n)
  BY <1>7 DEF A
<1>9. PICK L \in Seq(Word) : L = Make!PathList(t) /\ L = Make!Take(r)
  BY <1>3, <1>8, NamesTaken DEF Parsed
<1>10. PICK s, e : Cut(t, L, n, s, e)
  BY <1>8, <1>9 DEF Parsed
<1>11. DOMAIN L = 1 .. Len(L) /\ DOMAIN t = 1 .. n
  BY <1>1, <1>9 DEF Word
<1>12. Make!NamesOf(t, L)
  <2>1. s \in [DOMAIN L -> DOMAIN t] /\ e \in [DOMAIN L -> DOMAIN t]
    BY <1>10, <1>11, Zenon DEF Cut
  <2>2. /\ \A k \in DOMAIN L : s[k] <= e[k] /\ L[k] = SubSeq(t, s[k], e[k])
        /\ \A k \in DOMAIN L : k > 1 => e[k - 1] + 1 < s[k]
    BY <1>10, <1>11, Zenon DEF Cut
  <2>3. \A i \in DOMAIN t : t[i] \notin Make!Separators <=> \E k \in DOMAIN L : i \in s[k] .. e[k]
    <3>1. \A i \in 1 .. n : \A k \in 1 .. Len(L) :
            (s[k] <= i /\ i <= e[k]) <=> i \in s[k] .. e[k]
      <4>1. \A k \in 1 .. Len(L) : s[k] \in 1 .. n /\ e[k] \in 1 .. n
        BY <1>10 DEF Cut
      <4> QED BY <4>1
    <3>2. \A i \in 1 .. n : t[i] \notin Make!Separators <=> \E k \in 1 .. Len(L) : s[k] <= i /\ i <= e[k]
      BY <1>10 DEF Cut
    <3> QED BY <1>11, <3>1, <3>2
  <2> QED BY <2>1, <2>2, <2>3 DEF Make!NamesOf
<1> QED BY <1>9, <1>12

(* What is built when k files are read, p bytes of the next one, and the    *)
(* buffer holds b.                                                          *)
Byte == (DOMAIN Size) \X Nat
Entry == [path : Seq(Word), length : Nat]
Contents(src, k) == [i \in 1 .. k |-> Make!Content(src[i])]
Begun(td, p) == IF td = <<>> THEN <<>> ELSE SubSeq(Make!Content(td[1]), 1, p)

Pieces(b, ps, len) ==
  /\ ps \in Seq(Seq(Byte)) /\ b \in Seq(Byte)
  /\ \A i \in 1 .. Len(ps) : Len(ps[i]) = len
  /\ IF len = 0 THEN b = <<>> /\ ps = <<>> ELSE Len(b) < len

Entries(src, k, en) ==
  /\ en \in Seq(Entry) /\ Len(en) = k
  /\ \A i \in 1 .. k : en[i].length = Size[src[i]] /\ Make!NamesOf(Text[src[i]], en[i].path)

Left(src, k, td, p) ==
  /\ src \in Seq(DOMAIN Size) /\ td \in Seq(DOMAIN Size) /\ k \in Nat /\ Len(src) = k + Len(td)
  /\ \A i \in 1 .. Len(td) : td[i] = src[k + i]
  /\ p \in Nat /\ IF td = <<>> THEN p = 0 ELSE p <= Size[td[1]]

Same(src, k, td, p, b, ps) ==
  Make!FlattenSeq(ps) \o b = Make!FlattenSeq(Contents(src, k)) \o Begun(td, p)

Built(src, k, td, p, b, ps, en, len) ==
  Left(src, k, td, p) /\ Same(src, k, td, p, b, ps) /\ Pieces(b, ps, len) /\ Entries(src, k, en)

LEMMA LeastOf ==
  ASSUME NEW a \in Int, NEW b \in Int
  PROVE  Make!Min({a, b}) = IF a <= b THEN a ELSE b
<1>1. \A y \in {a, b} : (IF a <= b THEN a ELSE b) <= y
  OBVIOUS
<1> QED BY <1>1 DEF Make!Min

LEMMA ContentIs ==
  ASSUME Make!MakerAssumption, NEW f \in DOMAIN Size
  PROVE  Make!Content(f) \in Seq(Byte) /\ Len(Make!Content(f)) = Size[f] /\ Size[f] \in Nat
<1>1. PICK n \in Nat : n = Size[f]
  BY DEF Make!MakerAssumption
<1>2. Make!Content(f) = [i \in 1 .. n |-> <<f, i>>] /\ \A i \in 1 .. n : <<f, i>> \in Byte
  <2>1. \A i \in 1 .. n : f \in DOMAIN Size /\ i \in Nat
    OBVIOUS
  <2>2. Make!Content(f) = [i \in 1 .. n |-> <<f, i>>]
    BY <1>1, Zenon DEF Make!Content
  <2> QED BY <2>1, <2>2, Zenon DEF Byte
<1>3. [i \in 1 .. n |-> <<f, i>>] \in Seq(Byte) /\ Len([i \in 1 .. n |-> <<f, i>>]) = n
  BY <1>2
<1> QED BY <1>1, <1>2, <1>3

LEMMA ContentsAre ==
  ASSUME Make!MakerAssumption, NEW src \in Seq(DOMAIN Size), NEW k \in 0 .. Len(src)
  PROVE  /\ Contents(src, k) \in Seq(Seq(Byte)) /\ Len(Contents(src, k)) = k
         /\ k < Len(src) => Contents(src, k + 1) = Append(Contents(src, k), Make!Content(src[k + 1]))
<1>1. PICK T : T = Seq(Byte)
  OBVIOUS
<1>2. \A i \in 1 .. Len(src) : Make!Content(src[i]) \in T
  BY <1>1, ContentIs
<1>3. ASSUME NEW m \in 0 .. Len(src)
      PROVE  /\ Contents(src, m) \in Seq(T) /\ Len(Contents(src, m)) = m
             /\ \A i \in 1 .. m : Contents(src, m)[i] = Make!Content(src[i])
  <2>1. \A i \in 1 .. m : Make!Content(src[i]) \in T
    BY <1>2
  <2> QED BY <2>1 DEF Contents
<1>4. ASSUME k < Len(src)
      PROVE  Contents(src, k + 1) = Append(Contents(src, k), Make!Content(src[k + 1]))
  <2>1. PICK m \in Nat : m = k + 1
    OBVIOUS
  <2>2. m \in 0 .. Len(src) /\ m \in 1 .. Len(src) /\ k = m - 1 /\ \A i \in 1 .. m : i # m => i \in 1 .. k
    BY <1>4, <2>1
  <2>3. PICK s \in Seq(T) : s = Contents(src, m)
    BY <1>3, <2>2
  <2>4. Len(s) = m /\ \A i \in 1 .. m : s[i] = Make!Content(src[i])
    BY <1>3, <2>2, <2>3
  <2>5. PICK u \in Seq(T) : u = Contents(src, k)
    BY <1>3
  <2>6. Len(u) = k /\ \A i \in 1 .. k : u[i] = Make!Content(src[i])
    BY <1>3, <2>5
  <2>7. PICK c \in T : c = Make!Content(src[m])
    BY <1>2, <2>2
  <2>8. PICK v \in Seq(T) : v = Append(u, c)
    BY AppendProperties
  <2>9. Len(v) = m /\ v[m] = c /\ \A i \in 1 .. k : v[i] = u[i]
    BY <2>1, <2>6, <2>8, AppendProperties
  <2>10. \A i \in 1 .. m : s[i] = v[i]
    BY <2>2, <2>4, <2>6, <2>7, <2>9
  <2>11. s = v
    BY <2>4, <2>9, <2>10, SeqEqual
  <2> QED BY <2>1, <2>3, <2>5, <2>7, <2>8, <2>11
<1> QED BY <1>1, <1>3, <1>4

(* What is read comes behind what was.                                      *)
Reads(T, C, X, P, b, p, g) ==
  /\ C \in Seq(T) /\ X \in Seq(T) /\ P \in Seq(T) /\ b \in Seq(T) /\ p \in Nat /\ g \in Nat
  /\ p + g <= Len(C) /\ P \o b = X \o SubSeq(C, 1, p)

ReadMore(T, C, X, P, b, p, g) ==
  /\ SubSeq(C, p + 1, p + g) \in Seq(T) /\ Len(SubSeq(C, p + 1, p + g)) = g
  /\ P \o (b \o SubSeq(C, p + 1, p + g)) = X \o SubSeq(C, 1, p + g)

LEMMA ReadOn ==
  ASSUME NEW T, NEW C, NEW X, NEW P, NEW b, NEW p, NEW g, Reads(T, C, X, P, b, p, g)
  PROVE  ReadMore(T, C, X, P, b, p, g)
<1>0. /\ C \in Seq(T) /\ X \in Seq(T) /\ P \in Seq(T) /\ b \in Seq(T) /\ p \in Nat /\ g \in Nat
      /\ p + g <= Len(C) /\ P \o b = X \o SubSeq(C, 1, p)
  BY DEF Reads
<1> USE <1>0
<1>1. PICK q \in Nat : q = p + g
  OBVIOUS
<1>2. q <= Len(C) /\ p <= q /\ 1 \in 1 .. Len(C) + 1 /\ p \in 0 .. Len(C) /\ q \in p .. Len(C) /\ g = q - p
  BY <1>1
<1>3. PICK D, E, F : D = SubSeq(C, 1, p) /\ E = SubSeq(C, p + 1, q) /\ F = SubSeq(C, 1, q)
  OBVIOUS
<1>4. D \in Seq(T) /\ E \in Seq(T) /\ F \in Seq(T) /\ Len(E) = g
  <2>1. \A i \in 1 .. Len(C) : C[i] \in T
    OBVIOUS
  <2>2. D \in Seq(T)
    <3>1. \A i \in 1 .. p : C[i] \in T
      BY <1>2, <2>1
    <3> QED BY <1>3, <3>1, SubSeqProperties
  <2>3. F \in Seq(T)
    <3>1. \A i \in 1 .. q : C[i] \in T
      BY <1>2, <2>1
    <3> QED BY <1>3, <3>1, SubSeqProperties
  <2>4. E \in Seq(T) /\ Len(E) = g
    <3>1. \A i \in p + 1 .. q : C[i] \in T
      BY <1>2, <2>1
    <3>2. p + 1 \in Int /\ q \in Int /\ (IF p + 1 <= q THEN q - (p + 1) + 1 ELSE 0) = g
      BY <1>2
    <3>3. PICK m \in Int : m = p + 1
      OBVIOUS
    <3>4. SubSeq(C, m, q) \in Seq(T) /\ Len(SubSeq(C, m, q)) = IF m <= q THEN q - m + 1 ELSE 0
      BY <3>1, <3>3, SubSeqProperties
    <3> QED BY <1>3, <3>2, <3>3, <3>4
  <2> QED BY <2>2, <2>3, <2>4
<1>5. D \o E = F
  <2>1. 1 \in 1 .. Len(C) + 1 /\ p \in 1 - 1 .. Len(C) /\ q \in p .. Len(C)
    BY <1>2
  <2> QED BY <1>3, <2>1, ConcatAdjacentSubSeq
<1>6. P \o (b \o E) = (P \o b) \o E
  BY ONLY <1>4, P \in Seq(T), b \in Seq(T)
<1>7. (X \o D) \o E = X \o (D \o E)
  BY ONLY <1>4, X \in Seq(T)
<1> QED BY <1>1, <1>3, <1>4, <1>5, <1>6, <1>7 DEF ReadMore

(* One turn of build_hash()'s loop.                                         *)
LEMMA ReadBuilt ==
  ASSUME Make!MakerAssumption, NEW src, NEW k, length \in Nat,
         Built(src, k, todo, pos, buf, pieces, entries, length), Make!Read
  PROVE  \E m : Built(src, m, todo', pos', buf', pieces', entries', length')
<1>1. /\ Left(src, k, todo, pos) /\ Same(src, k, todo, pos, buf, pieces)
      /\ Pieces(buf, pieces, length) /\ Entries(src, k, entries)
  BY DEF Built
<1>2. /\ todo # <<>> /\ todo \in Seq(DOMAIN Size) /\ src \in Seq(DOMAIN Size) /\ k \in Nat /\ pos \in Nat
      /\ Len(src) = k + Len(todo) /\ (\A i \in 1 .. Len(todo) : todo[i] = src[k + i]) /\ pos <= Size[todo[1]]
      /\ pieces \in Seq(Seq(Byte)) /\ buf \in Seq(Byte) /\ (\A i \in 1 .. Len(pieces) : Len(pieces[i]) = length)
      /\ IF length = 0 THEN buf = <<>> /\ pieces = <<>> ELSE Len(buf) < length
  BY <1>1 DEF Left, Pieces, Make!Read
<1>3. PICK f \in DOMAIN Size : f = todo[1] /\ f = Head(todo)
  BY <1>2
<1>4. PICK C \in Seq(Byte) : C = Make!Content(f)
  BY ContentIs
<1>5. PICK n \in Nat : n = Size[f] /\ n = Len(C) /\ pos <= n
  BY <1>2, <1>3, <1>4, ContentIs
<1>6. PICK room \in Nat : room = Make!Room /\ room = length - Len(buf)
  <2>1. Len(buf) \in Nat /\ (length = 0 => Len(buf) = 0)
    BY <1>2
  <2>2. length - Len(buf) \in Nat
    BY <1>2, <2>1
  <2> QED BY <2>2 DEF Make!Room
<1>7. PICK g \in Nat : g = Make!Min({room, n - pos}) /\ g <= room /\ pos + g <= n /\ (g < room => pos + g = n)
  <2>1. n - pos \in Nat
    BY <1>2, <1>5
  <2>2. Make!Min({room, n - pos}) = IF room <= n - pos THEN room ELSE n - pos
    BY <2>1, LeastOf
  <2>3. PICK g \in Nat : g = IF room <= n - pos THEN room ELSE n - pos
    BY <2>1
  <2> QED BY <1>2, <2>1, <2>2, <2>3
<1>8. PICK X \in Seq(Byte) : X = Make!FlattenSeq(Contents(src, k))
  <2>1. k \in 0 .. Len(src)
    <3>1. Len(todo) \in Nat
      BY <1>2
    <3> QED BY <1>2, <3>1
  <2> QED BY <1>2, <2>1, ContentsAre, Flattened
<1>9. PICK P \in Seq(Byte) : P = Make!FlattenSeq(pieces)
  BY <1>2, Flattened
<1>10. PICK b \in Seq(Byte) : /\ b = buf \o SubSeq(C, pos + 1, pos + g) /\ Len(b) = Len(buf) + g
                              /\ P \o b = X \o SubSeq(C, 1, pos + g)
  <2>1. P \o buf = X \o SubSeq(C, 1, pos)
    BY <1>1, <1>2, <1>3, <1>4, <1>8, <1>9 DEF Same, Begun
  <2>2. PICK E : E = SubSeq(C, pos + 1, pos + g)
    OBVIOUS
  <2>3. pos + g <= Len(C) /\ pos \in Nat /\ buf \in Seq(Byte)
    BY <1>2, <1>5, <1>7
  <2>4. E \in Seq(Byte) /\ Len(E) = g /\ P \o (buf \o E) = X \o SubSeq(C, 1, pos + g)
    <3>1. Reads(Byte, C, X, P, buf, pos, g)
      BY <2>1, <2>3 DEF Reads
    <3>2. ReadMore(Byte, C, X, P, buf, pos, g)
      BY <3>1, ReadOn, Zenon
    <3> QED BY <2>2, <3>2 DEF ReadMore
  <2>5. buf \o E \in Seq(Byte) /\ Len(buf \o E) = Len(buf) + Len(E)
    BY <2>3, <2>4, ConcatProperties
  <2> QED BY <2>2, <2>4, <2>5
<1>11. PICK b1, p1 : /\ b1 = (IF Len(b) >= length /\ b # <<>> THEN <<>> ELSE b)
                     /\ p1 = (IF Len(b) >= length /\ b # <<>> THEN Append(pieces, b) ELSE pieces)
  OBVIOUS
<1>12. /\ length' = length
       /\ IF g < room
          THEN /\ buf' = b1 /\ pieces' = p1 /\ todo' = Tail(todo) /\ pos' = 0
               /\ entries' = Append(entries, [path |-> Make!PathList(Text[f]), length |-> pos + g])
          ELSE /\ buf' = b1 /\ pieces' = p1 /\ pos' = pos + g /\ UNCHANGED <<todo, entries>>
  <2>1. Make!Room = room /\ g = Make!Min({Make!Room, Size[f] - pos}) /\ f = Head(todo)
        /\ b = buf \o SubSeq(Make!Content(f), pos + 1, pos + g)
    BY <1>3, <1>4, <1>5, <1>6, <1>7, <1>10
  <2> QED BY <1>11, <2>1, Zenon DEF Make!Read, Make!NextFile, Make!Full, Make!args
<1>13. Len(b) \in Nat /\ Len(b) <= length /\ (g < room => Len(b) < length) /\ (~(g < room) => Len(b) = length)
  <2>1. PICK z \in Nat : z = Len(buf)
    BY <1>2
  <2>2. PICK l \in Nat : l = length
    OBVIOUS
  <2>3. PICK y \in Nat : y = Len(b)
    OBVIOUS
  <2>4. y = z + g /\ room = l - z /\ g <= room
    BY <1>6, <1>7, <1>10, <2>1, <2>2, <2>3
  <2>5. y <= l /\ (g < room => y < l) /\ (~(g < room) => y = l)
    BY ONLY room \in Nat, g \in Nat, z \in Nat, l \in Nat, y \in Nat, <2>4
  <2> QED BY <2>2, <2>3, <2>5
<1>14. Pieces(b1, p1, length) /\ P \in Seq(Byte) /\ Make!FlattenSeq(p1) \o b1 = P \o b
  <2>1. CASE Len(b) >= length /\ b # <<>>
    <3>1. b1 = <<>> /\ p1 = Append(pieces, b) /\ Len(b) = length /\ length # 0
      BY <1>11, <1>13, <2>1
    <3>2. PICK T : T = Seq(Byte)
      OBVIOUS
    <3>3. p1 \in Seq(T) /\ Len(p1) = Len(pieces) + 1 /\ p1[Len(pieces) + 1] = b
          /\ \A i \in 1 .. Len(pieces) : p1[i] = pieces[i]
      BY <1>2, <3>1, <3>2, AppendProperties
    <3>4. \A i \in 1 .. Len(p1) : Len(p1[i]) = length
      <4>1. \A i \in 1 .. Len(pieces) + 1 : i \in 1 .. Len(pieces) \/ i = Len(pieces) + 1
        <5>1. Len(pieces) \in Nat
          BY <1>2
        <5> QED BY <5>1
      <4> QED BY <1>2, <3>1, <3>3, <4>1
    <3>5. Pieces(b1, p1, length)
      <4>1. <<>> \in Seq(Byte) /\ Len(<<>>) = 0 /\ 0 < length
        BY <3>1
      <4> QED BY <3>1, <3>2, <3>3, <3>4, <4>1 DEF Pieces
    <3>6. Make!FlattenSeq(p1) = P \o b
      BY <1>2, <1>9, <3>1, Flattened
    <3>7. P \o b \in Seq(Byte)
      BY ConcatProperties
    <3>8. (P \o b) \o <<>> = P \o b
      BY <3>7, ConcatEmptySeq
    <3> QED BY <3>1, <3>5, <3>6, <3>8
  <2>2. CASE ~(Len(b) >= length /\ b # <<>>)
    <3>1. b1 = b /\ p1 = pieces
      BY <1>11, <2>2
    <3>2. IF length = 0 THEN b = <<>> ELSE Len(b) < length
      <4>1. b = <<>> => Len(b) = 0
        OBVIOUS
      <4>2. Len(b) = 0 => b = <<>>
        BY EmptySeq
      <4> QED BY <1>13, <2>2, <4>1, <4>2
    <3>3. Pieces(b1, p1, length)
      BY <1>2, <3>1, <3>2 DEF Pieces
    <3> QED BY <1>9, <3>1, <3>3
  <2> QED BY <2>1, <2>2
<1>15. CASE g < room
  <2>1. PICK m \in Nat : m = k + 1
    BY <1>2
  <2>2. src[m] = f /\ m \in 1 .. Len(src) /\ k < Len(src) /\ k \in 0 .. Len(src)
    <3>1. Len(todo) \in Nat \ {0} /\ 1 \in 1 .. Len(todo)
      BY <1>2, EmptySeq
    <3> QED BY <1>2, <1>3, <2>1, <3>1
  <2>3. PICK td \in Seq(DOMAIN Size) : td = Tail(todo) /\ Len(td) = Len(todo) - 1
                                       /\ \A i \in 1 .. Len(td) : td[i] = todo[i + 1]
    <3>1. /\ Tail(todo) \in Seq(DOMAIN Size) /\ Len(Tail(todo)) = Len(todo) - 1
          /\ \A i \in 1 .. Len(Tail(todo)) : Tail(todo)[i] = todo[i + 1]
      BY <1>2, HeadTailProperties
    <3> QED BY <3>1
  <2>4. Left(src, m, td, 0)
    <3>1. Len(todo) \in Nat \ {0} /\ Len(td) \in Nat
      BY <1>2, EmptySeq
    <3>2. Len(src) = m + Len(td)
      BY <1>2, <2>1, <2>3, <3>1
    <3>3. \A i \in 1 .. Len(td) : i + 1 \in 1 .. Len(todo) /\ k + (i + 1) = m + i
      BY <1>2, <2>1, <2>3, <3>1
    <3>4. td # <<>> => 0 <= Size[td[1]]
      <4>1. ASSUME td # <<>> PROVE td[1] \in DOMAIN Size
        BY <4>1, EmptySeq
      <4>2. \A h \in DOMAIN Size : Size[h] \in Nat
        BY ContentIs
      <4> QED BY <4>1, <4>2
    <3> QED BY <1>2, <2>3, <3>2, <3>3, <3>4 DEF Left
  <2>5. P \o b = Make!FlattenSeq(Contents(src, m))
    <3>1. SubSeq(C, 1, pos + g) = C
      BY <1>5, <1>7, <1>15, SubSeqFull
    <3>2. Contents(src, m) = Append(Contents(src, k), C) /\ Contents(src, k) \in Seq(Seq(Byte))
      BY <1>2, <1>4, <2>1, <2>2, ContentsAre
    <3>3. Make!FlattenSeq(Contents(src, m)) = X \o C
      BY <1>8, <3>2, Flattened
    <3> QED BY <1>10, <3>1, <3>3
  <2>6. Same(src, m, td, 0, b1, p1)
    <3>1. Begun(td, 0) = <<>>
      <4>1. SubSeq(Make!Content(td[1]), 1, 0) = <<>>
        BY SubSeqEmpty
      <4> QED BY <4>1, Zenon DEF Begun
    <3>2. P \o b \in Seq(Byte)
      BY <1>14, ConcatProperties
    <3>3. (P \o b) \o <<>> = P \o b
      BY <3>2, ConcatEmptySeq
    <3> QED BY <1>14, <2>5, <3>1, <3>3 DEF Same
  <2>7. PICK en : en = Append(entries, [path |-> Make!PathList(Text[f]), length |-> pos + g])
    OBVIOUS
  <2>8. Entries(src, m, en)
    <3>1. PICK d : d = [path |-> Make!PathList(Text[f]), length |-> pos + g]
      OBVIOUS
    <3>2. Text[f] \in Word
      BY DEF Make!MakerAssumption, Word
    <3>3. /\ d \in Entry /\ d.length = Size[f] /\ Make!NamesOf(Text[f], d.path)
      <4>1. Make!PathList(Text[f]) \in Seq(Word) /\ Make!NamesOf(Text[f], Make!PathList(Text[f]))
        BY <3>2, PathIs
      <4>2. pos + g = n
        BY <1>7, <1>15
      <4>3. d.path = Make!PathList(Text[f]) /\ d.length = n /\ d \in Entry
        BY <3>1, <4>1, <4>2 DEF Entry
      <4> QED BY <1>5, <4>1, <4>3
    <3>4. entries \in Seq(Entry) /\ Len(entries) = k
          /\ \A i \in 1 .. k : entries[i].length = Size[src[i]] /\ Make!NamesOf(Text[src[i]], entries[i].path)
      BY <1>1 DEF Entries
    <3>5. en \in Seq(Entry) /\ Len(en) = m /\ en[m] = d /\ \A i \in 1 .. k : en[i] = entries[i]
      BY <2>1, <2>7, <3>1, <3>3, <3>4, AppendProperties
    <3>6. \A i \in 1 .. m : i # m => i \in 1 .. k
      BY <1>2, <2>1
    <3>7. ASSUME NEW i \in 1 .. m
          PROVE  en[i].length = Size[src[i]] /\ Make!NamesOf(Text[src[i]], en[i].path)
      <4>1. CASE i = m
        BY <2>2, <3>3, <3>5, <4>1
      <4>2. CASE i # m
        BY <3>4, <3>5, <3>6, <4>2
      <4> QED BY <4>1, <4>2
    <3> QED BY <3>5, <3>7 DEF Entries
  <2>9. Built(src, m, td, 0, b1, p1, en, length)
    BY <1>14, <2>4, <2>6, <2>8 DEF Built
  <2>10. todo' = td /\ pos' = 0 /\ buf' = b1 /\ pieces' = p1 /\ entries' = en /\ length' = length
    BY <1>12, <1>15, <2>3, <2>7
  <2> QED BY <2>9, <2>10
<1>16. CASE ~(g < room)
  <2>1. pos' = pos + g /\ todo' = todo /\ buf' = b1 /\ pieces' = p1 /\ entries' = entries /\ length' = length
    BY <1>12, <1>16
  <2>2. Left(src, k, todo, pos + g)
    <3>1. PICK q \in Nat : q = pos + g
      BY <1>2
    <3>2. q <= Size[todo[1]]
      BY <1>3, <1>5, <1>7, <3>1
    <3> QED BY ONLY <1>2, <3>1, <3>2 DEF Left
  <2>3. Same(src, k, todo, pos + g, b1, p1)
    BY <1>2, <1>3, <1>4, <1>8, <1>10, <1>14 DEF Same, Begun
  <2>4. Built(src, k, todo, pos + g, b1, p1, entries, length)
    BY <1>1, <1>14, <2>2, <2>3 DEF Built
  <2> QED BY <2>1, <2>4
<1> QED BY <1>15, <1>16

(* What is built as far as it is done has the types of TypeOK.              *)
LEMMA PiecesTyped ==
  ASSUME NEW b, NEW ps, NEW len \in Nat, Pieces(b, ps, len)
  PROVE  /\ DOMAIN ps = 1 .. Len(ps) /\ Len(ps) \in Nat
         /\ len > 0 => Len(b) < len /\ \A i \in DOMAIN ps : Len(ps[i]) <= len
<1>1. PICK T : T = Seq(Byte)
  OBVIOUS
<1>2. ps \in Seq(T) /\ (\A i \in 1 .. Len(ps) : Len(ps[i]) = len) /\ (len # 0 => Len(b) < len)
  BY <1>1 DEF Pieces
<1>3. DOMAIN ps = 1 .. Len(ps) /\ Len(ps) \in Nat
  BY <1>2
<1>4. \A i \in DOMAIN ps : Len(ps[i]) <= len
  BY <1>2, <1>3
<1> QED BY <1>2, <1>3, <1>4

(* When no file is left, what is in the buffer is the last piece.           *)
Whole(src, ps, en, len) ==
  /\ Make!FlattenSeq(ps) = Make!FlattenSeq([i \in DOMAIN src |-> Make!Content(src[i])])
  /\ \A i \in DOMAIN ps : IF i < Len(ps) THEN Len(ps[i]) = len ELSE Len(ps[i]) \in 1 .. len
  /\ Len(en) = Len(src)
  /\ \A i \in DOMAIN en : en[i].length = Size[src[i]] /\ Make!NamesOf(Text[src[i]], en[i].path)

LEMMA LastPiece ==
  ASSUME NEW T, NEW ps \in Seq(T), NEW b \in T, NEW len \in Nat, Len(b) \in 1 .. len,
         \A i \in 1 .. Len(ps) : Len(ps[i]) = len, NEW qs, qs = Append(ps, b)
  PROVE  \A i \in DOMAIN qs : IF i < Len(qs) THEN Len(qs[i]) = len ELSE Len(qs[i]) \in 1 .. len
<1>1. PICK n \in Nat : n = Len(ps)
  OBVIOUS
<1>2. PICK m \in Nat : m = n + 1
  OBVIOUS
<1>3. Len(qs) = m /\ DOMAIN qs = 1 .. m /\ qs[m] = b /\ \A i \in 1 .. n : qs[i] = ps[i]
  BY <1>1, <1>2, AppendProperties
<1>4. ASSUME NEW i \in 1 .. m
      PROVE  IF i < m THEN Len(qs[i]) = len ELSE Len(qs[i]) \in 1 .. len
  <2>1. CASE i < m
    <3>1. i \in 1 .. n
      BY <1>2, <2>1
    <3> QED BY <1>1, <1>3, <2>1, <3>1
  <2>2. CASE ~(i < m)
    <3>1. i = m
      BY <2>2
    <3> QED BY <1>3, <2>2, <3>1
  <2> QED BY <2>1, <2>2
<1> QED BY <1>3, <1>4

LEMMA BuiltWhole ==
  ASSUME Make!MakerAssumption, NEW src, NEW k, NEW p, NEW b, NEW ps, NEW en, NEW len \in Nat,
         Built(src, k, <<>>, p, b, ps, en, len)
  PROVE  Whole(src, IF b = <<>> THEN ps ELSE Append(ps, b), en, len)
<1>1. /\ src \in Seq(DOMAIN Size) /\ k = Len(src) /\ Same(src, k, <<>>, p, b, ps)
      /\ Pieces(b, ps, len) /\ Entries(src, k, en)
  BY DEF Built, Left
<1>2. PICK T : T = Seq(Byte)
  OBVIOUS
<1>3. /\ ps \in Seq(T) /\ ps \in Seq(Seq(Byte)) /\ b \in T /\ b \in Seq(Byte)
      /\ (\A i \in 1 .. Len(ps) : Len(ps[i]) = len)
      /\ IF len = 0 THEN b = <<>> /\ ps = <<>> ELSE Len(b) < len
  BY <1>1, <1>2 DEF Pieces
<1>4. k \in 0 .. Len(src) /\ Contents(src, k) = [i \in DOMAIN src |-> Make!Content(src[i])]
  BY <1>1 DEF Contents
<1>5. PICK X \in Seq(Byte) : X = Make!FlattenSeq(Contents(src, k))
  BY <1>1, <1>4, ContentsAre, Flattened
<1>6. PICK P \in Seq(Byte) : P = Make!FlattenSeq(ps)
  BY <1>3, Flattened
<1>7. P \o b = X
  <2>1. P \o b = X \o <<>>
    BY <1>1, <1>5, <1>6 DEF Same, Begun
  <2> QED BY <2>1, ConcatEmptySeq
<1>8. /\ Len(en) = Len(src)
      /\ \A i \in DOMAIN en : en[i].length = Size[src[i]] /\ Make!NamesOf(Text[src[i]], en[i].path)
  <2>1. DOMAIN en = 1 .. k /\ Len(en) = k
    BY <1>1 DEF Entries
  <2> QED BY <1>1, <2>1, Zenon DEF Entries
<1>9. CASE b = <<>>
  <2>1. P = X
    BY <1>7, <1>9, ConcatEmptySeq
  <2>2. \A i \in DOMAIN ps : IF i < Len(ps) THEN Len(ps[i]) = len ELSE Len(ps[i]) \in 1 .. len
    <3>1. DOMAIN ps = 1 .. Len(ps)
      BY <1>3
    <3>2. ASSUME NEW i \in 1 .. Len(ps) PROVE Len(ps[i]) = len /\ len \in 1 .. len
      <4>1. Len(ps) # 0
        BY <1>3
      <4>2. len # 0
        BY <1>3, <4>1
      <4> QED BY <1>3, <4>2
    <3> QED BY <3>1, <3>2
  <2> QED BY <1>4, <1>5, <1>6, <1>8, <1>9, <2>1, <2>2 DEF Whole
<1>10. CASE b # <<>>
  <2>1. PICK qs : qs = Append(ps, b)
    OBVIOUS
  <2>2. Make!FlattenSeq(qs) = X
    BY <1>3, <1>6, <1>7, <2>1, Flattened
  <2>3. Len(b) \in 1 .. len
    <3>1. Len(b) \in Nat /\ Len(b) # 0
      BY <1>3, <1>10, EmptySeq
    <3>2. Len(b) < len
      BY <1>3, <1>10
    <3> QED BY <3>1, <3>2
  <2>4. \A i \in DOMAIN qs : IF i < Len(qs) THEN Len(qs[i]) = len ELSE Len(qs[i]) \in 1 .. len
    BY <1>3, <2>1, <2>3, LastPiece
  <2> QED BY <1>4, <1>5, <1>8, <1>10, <2>1, <2>2, <2>4 DEF Whole
<1> QED BY <1>9, <1>10

(* The invariant: nothing is built while the arguments are walked over, and *)
(* then what is read so far is built; the two properties follow at the end. *)
Idle == todo = <<>> /\ pos = 0 /\ buf = <<>> /\ pieces = <<>> /\ entries = <<>>

MakerInv ==
  /\ Make!TypeOK /\ path \in DOMAIN Size \cup {Make!None}
  /\ phase \in {"args", "exit", "crash"} => Idle
  /\ phase = "build" => \E k : Built(Make!Sources, k, todo, pos, buf, pieces, entries, length)
  /\ Make!PiecesOfStream /\ Make!EntriesOfFiles

(* Where nothing is built, types are all there is to it.                    *)
LEMMA IdleInv ==
  ASSUME phase' \in {"args", "exit", "crash"}, Idle', nargs' \in 0 .. MaxArgs, count' \in Nat,
         mode' \in {"SINGLE", "MULTI"}, length' \in Nat, files' \in Seq(DOMAIN Size),
         path' \in DOMAIN Size \cup {Make!None}
  PROVE  MakerInv'
<1>1. todo' = <<>> /\ pos' = 0 /\ buf' = <<>> /\ pieces' = <<>> /\ entries' = <<>>
  BY DEF Idle
<1>2. Make!TypeOK'
  <2>1. <<>> \in Seq(DOMAIN Size) /\ Len(<<>>) = 0 /\ \A i \in DOMAIN <<>> : FALSE
    OBVIOUS
  <2> QED BY <1>1, <2>1 DEF Make!TypeOK
<1>3. phase' # "build" /\ phase' # "done"
  OBVIOUS
<1> QED BY <1>2, <1>3 DEF MakerInv, Make!PiecesOfStream, Make!EntriesOfFiles

LEMMA ArgsKeep ==
  ASSUME Make!MakerAssumption, MakerInv,
         NEW a, \/ a \in Make!Args /\ (Make!Option(a) \/ Make!OptionSet(a) \/ Make!Refused(a))
                \/ a \in DOMAIN Size /\ Make!File(a)
  PROVE  MakerInv'
<1>1. /\ phase = "args" /\ nargs < MaxArgs /\ nargs' = nargs + 1 /\ phase' \in {"args", "exit"}
      /\ UNCHANGED <<todo, pos, buf, pieces, entries>>
  BY DEF Make!Option, Make!OptionSet, Make!Refused, Make!File, Make!Reading
<1>2. /\ nargs \in 0 .. MaxArgs /\ count \in Nat /\ mode \in {"SINGLE", "MULTI"} /\ length \in Nat
      /\ files \in Seq(DOMAIN Size) /\ path \in DOMAIN Size \cup {Make!None} /\ Idle /\ MaxArgs \in Nat
  BY <1>1 DEF MakerInv, Make!TypeOK, Make!MakerAssumption
<1>3. nargs' \in 0 .. MaxArgs
  BY <1>1, <1>2
<1>4. Idle'
  BY <1>1, <1>2 DEF Idle
<1>5. CASE a \in DOMAIN Size /\ Make!File(a)
  <2>1. path' = a /\ files' = Append(files, a) /\ mode' = "MULTI" /\ count' = count + 1 /\ length' = length
    BY <1>5 DEF Make!File
  <2>2. files' \in Seq(DOMAIN Size)
    BY <1>2, <1>5, <2>1, AppendProperties
  <2> QED BY <1>1, <1>2, <1>3, <1>4, <1>5, <2>1, <2>2, IdleInv
<1>6. CASE Make!OptionSet(a)
  <2>1. /\ count' \in Nat /\ path' = path /\ files' = files /\ mode' = mode
        /\ length' = (IF opt = "k" THEN Make!Atoi(a) ELSE length)
    BY <1>2, <1>6 DEF Make!OptionSet
  <2>2. length' \in Nat
    BY <1>2, <2>1 DEF Make!Atoi, Make!MakerAssumption
  <2> QED BY <1>1, <1>2, <1>3, <1>4, <2>1, <2>2, IdleInv
<1>7. CASE Make!Option(a) \/ Make!Refused(a)
  <2>1. count' = count /\ path' = path /\ files' = files /\ mode' = mode /\ length' = length
    BY <1>7 DEF Make!Option, Make!Refused
  <2> QED BY <1>1, <1>2, <1>3, <1>4, <2>1, IdleInv
<1> QED BY <1>5, <1>6, <1>7

(* What begins to be built is nothing of all the files.                     *)
LEMMA BuiltBegins ==
  ASSUME Make!MakerAssumption, NEW src \in Seq(DOMAIN Size), NEW len \in Nat
  PROVE  Built(src, 0, src, 0, <<>>, <<>>, <<>>, len)
<1>1. Left(src, 0, src, 0)
  <2>1. Len(src) \in Nat /\ Len(src) = 0 + Len(src) /\ \A i \in 1 .. Len(src) : 0 + i = i
    OBVIOUS
  <2>2. ASSUME src # <<>> PROVE 0 <= Size[src[1]]
    <3>1. src[1] \in DOMAIN Size
      BY <2>2, EmptySeq
    <3>2. Size[src[1]] \in Nat
      BY <3>1, ContentIs
    <3> QED BY <3>2
  <2> QED BY <2>1, <2>2 DEF Left
<1>2. Same(src, 0, src, 0, <<>>, <<>>)
  <2>1. Contents(src, 0) = <<>>
    BY DEF Contents
  <2>2. Begun(src, 0) = <<>>
    <3>1. SubSeq(Make!Content(src[1]), 1, 0) = <<>>
      BY SubSeqEmpty
    <3> QED BY <3>1, Zenon DEF Begun
  <2> QED BY <2>1, <2>2, Zenon DEF Same
<1>3. Pieces(<<>>, <<>>, len)
  <2>1. <<>> \in Seq(Seq(Byte)) /\ <<>> \in Seq(Byte) /\ Len(<<>>) = 0 /\ (len # 0 => 0 < len)
    OBVIOUS
  <2> QED BY <2>1 DEF Pieces
<1>4. Entries(src, 0, <<>>)
  BY DEF Entries
<1> QED BY <1>1, <1>2, <1>3, <1>4 DEF Built

LEMMA EndArgsKeeps ==
  ASSUME Make!MakerAssumption, MakerInv, Make!EndArgs
  PROVE  MakerInv'
<1>1. /\ phase = "args" /\ phase' = IF count = 0 THEN "exit" ELSE IF path = Make!None THEN "crash" ELSE "build"
      /\ mode' = IF count = 1 THEN "SINGLE" ELSE mode
      /\ todo' = IF phase' # "build" THEN <<>> ELSE IF mode' = "SINGLE" THEN <<path>> ELSE files
      /\ nargs' = nargs /\ count' = count /\ path' = path /\ files' = files /\ length' = length
      /\ UNCHANGED <<pos, buf, pieces, entries>>
  BY DEF Make!EndArgs, Make!args
<1>2. /\ nargs \in 0 .. MaxArgs /\ count \in Nat /\ mode \in {"SINGLE", "MULTI"} /\ length \in Nat
      /\ files \in Seq(DOMAIN Size) /\ path \in DOMAIN Size \cup {Make!None} /\ Idle
  BY <1>1 DEF MakerInv, Make!TypeOK
<1>3. CASE phase' # "build"
  <2>1. phase' \in {"args", "exit", "crash"} /\ Idle'
    BY <1>1, <1>2, <1>3 DEF Idle
  <2> QED BY <1>1, <1>2, <2>1, IdleInv
<1>4. CASE phase' = "build"
  <2>1. path \in DOMAIN Size
    BY <1>1, <1>2, <1>4
  <2>2. PICK src \in Seq(DOMAIN Size) : src = IF mode' = "SINGLE" THEN <<path>> ELSE files
    <3>1. <<path>> \in Seq(DOMAIN Size)
      BY <2>1
    <3> QED BY <1>2, <3>1
  <2>3. todo' = src /\ Make!Sources' = src
    BY <1>1, <1>4, <2>2 DEF Make!Sources
  <2>4. pos' = 0 /\ buf' = <<>> /\ pieces' = <<>> /\ entries' = <<>>
    BY <1>1, <1>2 DEF Idle
  <2>5. \E k : Built(Make!Sources, k, todo, pos, buf, pieces, entries, length)'
    <3>1. Built(src, 0, src, 0, <<>>, <<>>, <<>>, length)
      BY <1>2, BuiltBegins
    <3> QED BY <1>1, <2>3, <2>4, <3>1
  <2>6. Make!TypeOK'
    <3>1. Len(<<>>) = 0 /\ \A i \in DOMAIN <<>> : FALSE
      OBVIOUS
    <3> QED BY <1>1, <1>2, <1>4, <2>3, <2>4, <3>1 DEF Make!TypeOK
  <2> QED BY <1>1, <1>2, <1>4, <2>5, <2>6 DEF MakerInv, Make!PiecesOfStream, Make!EntriesOfFiles
<1> QED BY <1>3, <1>4

LEMMA ReadKeeps ==
  ASSUME Make!MakerAssumption, MakerInv, Make!Read
  PROVE  MakerInv'
<1>1. phase = "build" /\ phase' = phase /\ mode' = mode
      /\ nargs' = nargs /\ count' = count /\ path' = path /\ files' = files /\ length' = length
  BY DEF Make!Read, Make!args
<1>2. /\ nargs \in 0 .. MaxArgs /\ count \in Nat /\ mode \in {"SINGLE", "MULTI"} /\ length \in Nat
      /\ files \in Seq(DOMAIN Size) /\ path \in DOMAIN Size \cup {Make!None}
  BY <1>1 DEF MakerInv, Make!TypeOK
<1>3. PICK src : src = Make!Sources /\ src = Make!Sources'
  BY <1>1 DEF Make!Sources
<1>4. PICK k : Built(src, k, todo, pos, buf, pieces, entries, length)
  BY <1>1, <1>3 DEF MakerInv
<1>5. PICK m : Built(src, m, todo', pos', buf', pieces', entries', length')
  BY <1>2, <1>4, ReadBuilt
<1>6. todo' \in Seq(DOMAIN Size) /\ Pieces(buf', pieces', length')
  BY <1>5 DEF Built, Left
<1>7. length' > 0 => Len(buf') < length' /\ \A i \in DOMAIN pieces' : Len(pieces'[i]) <= length'
  <2>1. length' \in Nat
    BY <1>1, <1>2
  <2> QED BY <1>6, <2>1, PiecesTyped
<1>8. Make!TypeOK'
  BY <1>1, <1>2, <1>6, <1>7 DEF Make!TypeOK
<1> QED BY <1>1, <1>2, <1>3, <1>5, <1>8 DEF MakerInv, Make!PiecesOfStream, Make!EntriesOfFiles

LEMMA FinishKeeps ==
  ASSUME Make!MakerAssumption, MakerInv, Make!Finish
  PROVE  MakerInv'
<1>1. /\ phase = "build" /\ phase' = "done" /\ todo = <<>> /\ todo' = todo /\ mode' = mode /\ buf' = <<>>
      /\ nargs' = nargs /\ count' = count /\ path' = path /\ files' = files /\ length' = length
      /\ pieces' = (IF buf = <<>> THEN pieces ELSE Append(pieces, buf)) /\ entries' = entries
  BY DEF Make!Finish, Make!args
<1>2. /\ nargs \in 0 .. MaxArgs /\ count \in Nat /\ mode \in {"SINGLE", "MULTI"} /\ length \in Nat
      /\ files \in Seq(DOMAIN Size) /\ path \in DOMAIN Size \cup {Make!None}
  BY <1>1 DEF MakerInv, Make!TypeOK
<1>3. PICK src : src = Make!Sources /\ src = Make!Sources'
  BY <1>1 DEF Make!Sources
<1>4. PICK k : Built(src, k, <<>>, pos, buf, pieces, entries, length)
  BY <1>1, <1>3 DEF MakerInv
<1>5. Whole(src, pieces', entries', length')
  BY <1>1, <1>2, <1>4, BuiltWhole
<1>6. Make!PiecesOfStream' /\ Make!EntriesOfFiles'
  BY <1>1, <1>3, <1>5, Zenon DEF Whole, Make!PiecesOfStream, Make!EntriesOfFiles
<1>7. Make!TypeOK'
  <2>1. Len(<<>>) = 0 /\ <<>> \in Seq(DOMAIN Size)
    OBVIOUS
  <2>2. \A i \in DOMAIN pieces' : Len(pieces'[i]) <= length'
    <3>1. PICK l \in Nat : l = length'
      BY <1>1, <1>2
    <3>2. ASSUME NEW i \in DOMAIN pieces' PROVE Len(pieces'[i]) <= l
      <4>1. IF i < Len(pieces') THEN Len(pieces'[i]) = l ELSE Len(pieces'[i]) \in 1 .. l
        BY <1>5, <3>1 DEF Whole
      <4> QED BY <3>1, <4>1
    <3> QED BY <3>1, <3>2
  <2> QED BY <1>1, <1>2, <2>1, <2>2 DEF Make!TypeOK
<1> QED BY <1>1, <1>2, <1>6, <1>7 DEF MakerInv

(* The pieces of a torrent are its files one after the other, cut at every  *)
(* piece length, and its entries their sizes and the names of their paths   *)
(* (build_hash, write_pieces, write_path_list), whatever the arguments, the *)
(* files and their sizes; a piece never outgrows its length.                *)
THEOREM PiecesHold ==
  ASSUME Make!MakerAssumption
  PROVE  Make!Spec => [](Make!TypeOK /\ Make!PiecesOfStream /\ Make!EntriesOfFiles)
<1>1. ASSUME Make!Init PROVE MakerInv
  <2>1. /\ phase = "args" /\ nargs = 0 /\ count = 0 /\ path = Make!None /\ files = <<>>
        /\ length = Default.length /\ mode = "SINGLE" /\ Idle
    BY <1>1 DEF Make!Init, Idle
  <2>2. /\ nargs \in 0 .. MaxArgs /\ length \in Nat /\ <<>> \in Seq(DOMAIN Size)
        /\ Len(<<>>) = 0 /\ \A i \in DOMAIN <<>> : FALSE
    <3>1. MaxArgs \in Nat /\ Default.length \in Nat
      BY DEF Make!MakerAssumption
    <3>2. <<>> \in Seq(DOMAIN Size) /\ Len(<<>>) = 0 /\ \A i \in DOMAIN <<>> : FALSE
      OBVIOUS
    <3> QED BY <2>1, <3>1, <3>2
  <2>3. Make!TypeOK
    BY <2>1, <2>2 DEF Make!TypeOK, Idle
  <2> QED BY <2>1, <2>3 DEF MakerInv, Make!PiecesOfStream, Make!EntriesOfFiles
<1>2. ASSUME MakerInv, [Make!Next]_Make!vars PROVE MakerInv'
  <2>1. ASSUME NEW a \in Make!Args, Make!Option(a) \/ Make!OptionSet(a) \/ Make!Refused(a)
        PROVE  MakerInv'
    BY <1>2, <2>1, ArgsKeep
  <2>2. ASSUME NEW a \in DOMAIN Size, Make!File(a)
        PROVE  MakerInv'
    BY <1>2, <2>2, ArgsKeep
  <2>3. CASE Make!EndArgs
    BY <1>2, <2>3, EndArgsKeeps
  <2>4. CASE Make!Read
    BY <1>2, <2>4, ReadKeeps
  <2>5. CASE Make!Finish
    BY <1>2, <2>5, FinishKeeps
  <2>6. CASE UNCHANGED Make!vars
    BY <1>2, <2>6 DEF MakerInv, Idle, Make!vars, Make!args, Make!TypeOK, Make!Sources,
                      Make!PiecesOfStream, Make!EntriesOfFiles
  <2> QED BY <1>2, <2>1, <2>2, <2>3, <2>4, <2>5, <2>6 DEF Make!Next
<1>3. MakerInv => Make!TypeOK /\ Make!PiecesOfStream /\ Make!EntriesOfFiles
  BY DEF MakerInv
<1> QED BY <1>1, <1>2, <1>3, PTL DEF Make!Spec
-----------------------------------------------------------------------------
(* The files of a torrent.  Where they start is a recursive function:       *)
(* `Starts` says that s is it, as far as the n-th.                          *)

CONSTANTS Lens, PieceLen, Harms, MaxHarms

VARIABLES disk, fs, running, harms

Lay == INSTANCE Fileset

Starts(s, n) == s = [g \in 1 .. n |-> IF g = 1 THEN 0 ELSE s[g - 1] + Lens[g - 1]]

LEMMA StartsExist ==
  ASSUME NEW n \in Nat
  PROVE  \E s : Starts(s, n)
<1> DEFINE A == {m \in Nat : \E s : Starts(s, m)}
<1>1. 0 \in A
  <2>1. Starts([g \in 1 .. 0 |-> 0], 0)
    BY DEF Starts
  <2> QED BY <2>1
<1>2. ASSUME NEW m \in 1 .. n, m - 1 \in A
      PROVE  m \in A
  <2>1. PICK s : Starts(s, m - 1)
    BY <1>2
  <2> DEFINE h == [g \in 1 .. m |-> IF g # m THEN s[g] ELSE IF m = 1 THEN 0 ELSE s[m - 1] + Lens[m - 1]]
  <2>2. ASSUME NEW g \in 1 .. m
        PROVE  h[g] = IF g = 1 THEN 0 ELSE h[g - 1] + Lens[g - 1]
    <3>1. CASE g = m
      <4>1. CASE m = 1
        BY <3>1, <4>1
      <4>2. CASE m # 1
        <5>1. m - 1 \in 1 .. m /\ m - 1 # m
          BY <4>2
        <5> QED BY <3>1, <4>2, <5>1
      <4> QED BY <4>1, <4>2
    <3>2. CASE g # m
      <4>1. g \in 1 .. m - 1
        BY <3>2
      <4>2. h[g] = s[g] /\ s[g] = IF g = 1 THEN 0 ELSE s[g - 1] + Lens[g - 1]
        BY <2>1, <3>2, <4>1 DEF Starts
      <4>3. g # 1 => g - 1 \in 1 .. m /\ g - 1 # m
        BY <4>1
      <4> QED BY <4>2, <4>3
    <3> QED BY <3>1, <3>2
  <2>3. h = [g \in 1 .. m |-> h[g]]
    OBVIOUS
  <2> HIDE DEF h
  <2>4. Starts(h, m)
    BY <2>2, <2>3 DEF Starts
  <2> QED BY <2>4
<1> HIDE DEF A
<1>3. n \in A
  BY <1>1, <1>2, UpTo
<1> QED BY <1>3 DEF A

LEMMA StartsAlike ==
  ASSUME NEW n \in Nat, NEW m \in 0 .. n, NEW s, NEW u, Starts(s, n), Starts(u, m)
  PROVE  \A g \in 1 .. m : s[g] = u[g]
<1> DEFINE A == {g \in Nat : g # 0 => s[g] = u[g]}
<1>1. 0 \in A
  OBVIOUS
<1>2. ASSUME NEW g \in 1 .. m, g - 1 \in A
      PROVE  g \in A
  <2>1. g \in 1 .. n /\ g \in Nat
    OBVIOUS
  <2>2. s[g] = (IF g = 1 THEN 0 ELSE s[g - 1] + Lens[g - 1]) /\ u[g] = IF g = 1 THEN 0 ELSE u[g - 1] + Lens[g - 1]
    BY <2>1 DEF Starts
  <2> QED BY <1>2, <2>1, <2>2
<1> HIDE DEF A
<1>3. ASSUME NEW g \in 1 .. m PROVE g \in A
  <2>1. g \in Nat /\ \A i \in 1 .. g : i \in 1 .. m
    OBVIOUS
  <2>2. \A i \in 1 .. g : i - 1 \in A => i \in A
    BY <1>2, <2>1
  <2> QED BY <1>1, <2>1, <2>2, UpTo
<1> QED BY <1>3 DEF A

(* Each file starts where the one before it ends.                           *)
LEMMA StartIs ==
  ASSUME Lay!FilesetAssumption
  PROVE  /\ Len(Lens) \in Nat \ {0} /\ Lay!Files = 1 .. Len(Lens) /\ Lay!StartOf(1) = 0
         /\ \A f \in 1 .. Len(Lens) : Lens[f] \in Nat /\ Lay!StartOf(f + 1) = Lay!StartOf(f) + Lens[f]
         /\ \A f \in 1 .. Len(Lens) + 1 : Lay!StartOf(f) \in Nat
<1>1. PICK k \in Nat \ {0} : k = Len(Lens)
  BY EmptySeq DEF Lay!FilesetAssumption
<1>2. Lay!Files = 1 .. k /\ \A f \in 1 .. k : Lens[f] \in Nat
  BY <1>1 DEF Lay!FilesetAssumption, Lay!Files
<1>3. PICK n \in Nat : n = k + 1
  OBVIOUS
<1>4. PICK s : Starts(s, n)
  BY StartsExist
<1>5. \A f \in 1 .. n : Lay!StartOf(f) = s[f]
  <2> TAKE f \in 1 .. n
  <2> DEFINE u == CHOOSE v : Starts(v, f)
  <2>1. Starts(u, f)
    BY StartsExist
  <2>2. Lay!StartOf(f) = u[f]
    <3>1. Lay!StartOf(f) = (CHOOSE v : Starts(v, f))[f]
      BY Zenon DEF Lay!StartOf, Starts
    <3> QED BY <3>1, Zenon
  <2> HIDE DEF u
  <2>3. f \in 0 .. n /\ f \in 1 .. f
    OBVIOUS
  <2>4. s[f] = u[f]
    BY <1>4, <2>1, <2>3, StartsAlike
  <2> QED BY <2>2, <2>4
<1>6. \A f \in 1 .. n : s[f] = IF f = 1 THEN 0 ELSE s[f - 1] + Lens[f - 1]
  BY <1>4 DEF Starts
<1>7. s[1] = 0 /\ \A f \in 1 .. k : s[f + 1] = s[f] + Lens[f]
  <2>1. 1 \in 1 .. n /\ \A f \in 1 .. k : f + 1 \in 1 .. n /\ f + 1 # 1 /\ (f + 1) - 1 = f
    BY <1>3
  <2> QED BY <1>6, <2>1
<1> DEFINE A == {m \in Nat : s[m + 1] \in Nat}
<1>8. \A f \in 1 .. n : s[f] \in Nat
  <2>1. 0 \in A
    BY <1>7
  <2>2. ASSUME NEW m \in 1 .. k, m - 1 \in A PROVE m \in A
    <3>1. s[m] \in Nat
      BY <2>2
    <3>2. Lens[m] \in Nat /\ s[m + 1] = s[m] + Lens[m]
      BY <1>2, <1>7
    <3>3. s[m + 1] \in Nat
      BY ONLY <3>1, <3>2
    <3> QED BY <3>3
  <2> HIDE DEF A
  <2>3. ASSUME NEW f \in 1 .. n PROVE f - 1 \in A
    <3>1. f - 1 \in Nat /\ \A i \in 1 .. f - 1 : i \in 1 .. k
      BY <1>3
    <3>2. \A i \in 1 .. f - 1 : i - 1 \in A => i \in A
      BY <2>2, <3>1
    <3> QED BY <2>1, <3>1, <3>2, UpTo
  <2> QED BY <2>3 DEF A
<1>9. 1 \in 1 .. n /\ \A f \in 1 .. k : f \in 1 .. n /\ f + 1 \in 1 .. n
  BY <1>3
<1> QED BY <1>1, <1>2, <1>3, <1>5, <1>7, <1>8, <1>9

(* Byte a of the torrent is in file f.                                      *)
In(f, a) == f \in Lay!Files /\ Lay!StartOf(f) <= a /\ a < Lay!StartOf(f) + Lens[f]

LEMMA FilesInOrder ==
  ASSUME Lay!FilesetAssumption
  PROVE  /\ Lay!TSize \in Nat
         /\ \A g \in Lay!Files : Lay!StartOf(g) + Lens[g] <= Lay!TSize
         /\ \A f \in Lay!Files, g \in Lay!Files : f < g => Lay!StartOf(f) + Lens[f] <= Lay!StartOf(g)
<1>1. PICK k \in Nat \ {0} : k = Len(Lens)
  BY StartIs
<1>2. PICK n \in Nat : n = k + 1
  OBVIOUS
<1>3. /\ \A f \in 1 .. k : Lens[f] \in Nat /\ Lay!StartOf(f + 1) = Lay!StartOf(f) + Lens[f]
      /\ \A f \in 1 .. n : Lay!StartOf(f) \in Nat
  BY <1>1, <1>2, StartIs
<1> DEFINE A == {m \in Nat : \A f \in 1 .. m : Lay!StartOf(f) <= Lay!StartOf(m)}
<1>4. \A m \in 1 .. n : m \in A
  <2>1. 0 \in A
    OBVIOUS
  <2>2. ASSUME NEW m \in 1 .. n, m - 1 \in A PROVE m \in A
    <3>1. CASE m = 1
      BY <1>3, <3>1
    <3>2. CASE m # 1
      <4>1. PICK l \in 1 .. k : l = m - 1
        BY <1>2, <3>2
      <4>2. Lay!StartOf(m) = Lay!StartOf(l) + Lens[l] /\ Lens[l] \in Nat /\ Lay!StartOf(l) \in Nat
        BY <1>2, <1>3, <4>1
      <4>3. Lay!StartOf(l) <= Lay!StartOf(m) /\ Lay!StartOf(m) \in Nat
        BY <4>2
      <4>4. ASSUME NEW f \in 1 .. m PROVE Lay!StartOf(f) <= Lay!StartOf(m)
        <5>1. CASE f = m
          BY <4>3, <5>1
        <5>2. CASE f # m
          <6>1. f \in 1 .. l /\ f \in 1 .. n
            BY <4>1, <5>2
          <6>2. Lay!StartOf(f) <= Lay!StartOf(l) /\ Lay!StartOf(f) \in Nat
            BY <1>3, <2>2, <4>1, <6>1
          <6> QED BY <4>2, <4>3, <6>2
        <5> QED BY <5>1, <5>2
      <4> QED BY <4>4
    <3> QED BY <3>1, <3>2
  <2> HIDE DEF A
  <2>3. n \in Nat /\ \A i \in 1 .. n : i \in 0 .. n
    OBVIOUS
  <2> QED BY <2>1, <2>2, <2>3, UpTo
<1>5. ASSUME NEW f \in 1 .. k, NEW m \in 1 .. n, f < m
      PROVE  Lay!StartOf(f) + Lens[f] <= Lay!StartOf(m)
  <2>1. f + 1 \in 1 .. m
    BY <1>5
  <2>2. Lay!StartOf(f + 1) <= Lay!StartOf(m)
    BY <1>4, <2>1
  <2> QED BY <1>3, <2>2
<1>6. Lay!Files = 1 .. k /\ Lay!TSize = Lay!StartOf(n) /\ n \in 1 .. n
      /\ \A f \in 1 .. k : f \in 1 .. n /\ f < n
  BY <1>1, <1>2, StartIs DEF Lay!TSize
<1> QED BY <1>3, <1>5, <1>6

(* A byte is in one file.                                                   *)
LEMMA InOne ==
  ASSUME Lay!FilesetAssumption, NEW a \in Int, NEW f, NEW g, In(f, a), In(g, a)
  PROVE  f = g
<1>1. f \in Lay!Files /\ g \in Lay!Files /\ f \in Nat /\ g \in Nat
  BY StartIs DEF In
<1>2. PICK s, u, v, w : s = Lay!StartOf(f) /\ u = Lay!StartOf(f) + Lens[f]
                        /\ v = Lay!StartOf(g) /\ w = Lay!StartOf(g) + Lens[g]
  OBVIOUS
<1>3. s \in Nat /\ u \in Nat /\ v \in Nat /\ w \in Nat
  <2>1. \A h \in Lay!Files : Lay!StartOf(h) \in Nat /\ Lens[h] \in Nat
    BY StartIs
  <2> QED BY <1>1, <1>2, <2>1
<1>4. s <= a /\ a < u /\ v <= a /\ a < w
  BY <1>2 DEF In
<1>5. (f < g => u <= v) /\ (g < f => w <= s)
  BY <1>1, <1>2, FilesInOrder
<1>6. ~(f < g) /\ ~(g < f)
  BY ONLY a \in Int, <1>3, <1>4, <1>5
<1> QED BY <1>1, <1>6

LEMMA InSome ==
  ASSUME Lay!FilesetAssumption, NEW a \in Nat, a < Lay!TSize
  PROVE  \E f : In(f, a)
<1>1. PICK k \in Nat \ {0} : k = Len(Lens)
  BY StartIs
<1>2. /\ Lay!Files = 1 .. k /\ Lay!StartOf(1) = 0 /\ Lay!TSize = Lay!StartOf(k + 1)
      /\ \A f \in 1 .. k : Lens[f] \in Nat /\ Lay!StartOf(f + 1) = Lay!StartOf(f) + Lens[f] /\ Lay!StartOf(f) \in Nat
  BY <1>1, StartIs DEF Lay!TSize
<1> DEFINE A == {m \in Nat : a < Lay!StartOf(m + 1) => \E f : In(f, a)}
<1>3. 0 \in A
  BY <1>2
<1>4. ASSUME NEW m \in 1 .. k, m - 1 \in A PROVE m \in A
  <2>1. m \in Nat /\ (m - 1) + 1 = m
    OBVIOUS
  <2>2. a < Lay!StartOf(m) => \E f : In(f, a)
    BY <1>4, <2>1
  <2>3. ASSUME a < Lay!StartOf(m + 1), ~(a < Lay!StartOf(m)) PROVE In(m, a)
    BY <1>2, <2>3 DEF In
  <2> QED BY <2>1, <2>2, <2>3
<1> HIDE DEF A
<1>5. k \in A
  BY <1>3, <1>4, UpTo
<1> QED BY <1>2, <1>5 DEF A

LEMMA Divided ==
  ASSUME NEW l \in Nat \ {0}, NEW b \in Nat, NEW i \in 0 .. l - 1
  PROVE  (b * l + i) \div l = b
OBVIOUS

(* The pieces one after the other.                                          *)
LEMMA PieceIs ==
  ASSUME Lay!FilesetAssumption
  PROVE  /\ Lay!NPieces \in Nat
         /\ \A n \in Lay!FilePieces :
              /\ n \in Nat /\ n < Lay!NPieces /\ Lay!Addr(n) \in Nat /\ Lay!PieceLength(n) \in Nat \ {0}
              /\ Lay!Addr(n + 1) = Lay!Addr(n) + PieceLen
              /\ IF n < Lay!NPieces - 1 THEN Lay!PieceLength(n) = PieceLen
                 ELSE Lay!Addr(n) + Lay!PieceLength(n) = Lay!TSize
              /\ Lay!Addr(n) + Lay!PieceLength(n) <= Lay!TSize
         /\ Lay!TSize = 0 <=> Lay!NPieces = 0
<1>1. PICK t \in Nat : t = Lay!TSize
  BY FilesInOrder
<1>2. PICK l \in Nat \ {0} : l = PieceLen
  BY DEF Lay!FilesetAssumption
<1>3. PICK q, r : q = t \div l /\ r = t % l
  OBVIOUS
<1>4. q \in Nat /\ r \in 0 .. l - 1 /\ t = q * l + r
  <2>1. r \in 0 .. l - 1
    BY <1>3
  <2>2. q \in Int /\ q >= 0
    BY <1>3
  <2>3. t = l * q + r
    BY <1>3
  <2>4. l * q = q * l
    BY <2>2
  <2> QED BY <2>1, <2>2, <2>3, <2>4
<1>5. PICK m \in Nat : m = q * l
  BY <1>4
<1>6. Lay!NPieces = IF r = 0 THEN q ELSE q + 1
  <2>1. Lay!NPieces = (q * l + r + l - 1) \div l
    BY <1>1, <1>2, <1>4 DEF Lay!NPieces
  <2>2. CASE r = 0
    <3>1. (q * l + (l - 1)) \div l = q
      <4>1. q \in Nat /\ l - 1 \in 0 .. l - 1
        BY <1>4
      <4> QED BY ONLY l \in Nat \ {0}, <4>1, Divided
    <3>2. q * l + r + l - 1 = q * l + (l - 1)
      BY ONLY <1>5, <2>2, l \in Nat
    <3> QED BY <2>1, <2>2, <3>1, <3>2
  <2>3. CASE r # 0
    <3>1. PICK p \in Nat : p = q + 1
      BY <1>4
    <3>2. r - 1 \in 0 .. l - 1
      BY <1>4, <2>3
    <3>3. (p * l + (r - 1)) \div l = p
      BY ONLY l \in Nat \ {0}, p \in Nat, <3>2, Divided
    <3>4. p * l = q * l + l
      BY <1>4, <3>1
    <3>5. q * l + r + l - 1 = p * l + (r - 1)
      BY ONLY <1>4, <1>5, <3>4, l \in Nat, m \in Nat
    <3> QED BY <2>1, <2>3, <3>1, <3>3, <3>5
  <2> QED BY <2>2, <2>3
<1>7. PICK N \in Nat : N = Lay!NPieces
  BY <1>4, <1>6
<1>8. /\ \A n : Lay!Addr(n) = n * l
      /\ \A n : Lay!PieceLength(n) = IF n = N - 1 /\ r # 0 THEN r ELSE l
  BY <1>1, <1>2, <1>3, <1>7 DEF Lay!Addr, Lay!PieceLength
<1>9. ASSUME NEW n \in 0 .. N - 1
      PROVE  /\ n * l \in Nat /\ (n + 1) * l = n * l + l
             /\ IF n < N - 1 THEN n * l + l <= m
                ELSE n * l = IF r = 0 THEN m - l ELSE m
  <2>1. n \in Nat /\ n * l \in Nat /\ (n + 1) * l = n * l + l
    OBVIOUS
  <2>2. CASE n < N - 1
    <3>1. n + 1 <= q /\ n + 1 \in Nat
      BY <1>4, <1>6, <1>7, <2>1, <2>2
    <3>2. (n + 1) * l <= q * l
      <4>1. PICK i \in Nat, j \in Nat : i = n + 1 /\ j = q - i
        BY <1>4, <3>1
      <4>2. q = i + j
        BY <1>4, <4>1
      <4>3. q * l = i * l + j * l /\ i * l \in Nat /\ j * l \in Nat
        BY <4>2
      <4> QED BY <4>1, <4>3
    <3> QED BY <1>5, <2>1, <2>2, <3>2
  <2>3. CASE ~(n < N - 1)
    <3>1. CASE r = 0
      <4>1. n + 1 = q
        BY <1>4, <1>6, <1>7, <2>3, <3>1
      <4>2. n * l = m - l
        BY <1>5, <2>1, <4>1
      <4> QED BY <2>1, <2>3, <3>1, <4>2
    <3>2. CASE r # 0
      <4>1. n = q
        BY <1>4, <1>6, <1>7, <2>3, <3>2
      <4> QED BY <1>5, <2>1, <2>3, <3>2, <4>1
    <3> QED BY <3>1, <3>2
  <2> QED BY <2>2, <2>3
<1>10. ASSUME NEW n \in 0 .. N - 1
       PROVE  /\ n \in Nat /\ n < N /\ Lay!Addr(n) \in Nat /\ Lay!PieceLength(n) \in Nat \ {0}
              /\ Lay!Addr(n + 1) = Lay!Addr(n) + PieceLen
              /\ IF n < N - 1 THEN Lay!PieceLength(n) = PieceLen
                 ELSE Lay!Addr(n) + Lay!PieceLength(n) = t
              /\ Lay!Addr(n) + Lay!PieceLength(n) <= t
  <2>1. PICK a \in Nat, p \in Nat : a = Lay!Addr(n) /\ a = n * l /\ p = Lay!PieceLength(n)
    BY <1>4, <1>8, <1>9
  <2>2. p = (IF n = N - 1 /\ r # 0 THEN r ELSE l) /\ t = m + r
        /\ IF n < N - 1 THEN a + l <= m ELSE a = IF r = 0 THEN m - l ELSE m
    BY <1>4, <1>5, <1>8, <1>9, <2>1
  <2>3. /\ p # 0 /\ a + p <= t
        /\ IF n < N - 1 THEN p = l ELSE a + p = t
    BY ONLY n \in 0 .. N - 1, N \in Nat, a \in Nat, p \in Nat, t \in Nat, m \in Nat, l \in Nat \ {0}, <1>4, <2>2
  <2>4. Lay!Addr(n + 1) = a + l
    BY <1>8, <1>9, <2>1
  <2> QED BY <1>2, <2>1, <2>3, <2>4
<1>11. Lay!FilePieces = 0 .. N - 1
  BY <1>7 DEF Lay!FilePieces
<1>12. t = 0 <=> N = 0
  <2>1. t = 0 => q = 0 /\ r = 0
    BY <1>2, <1>3
  <2>2. q = 0 /\ r = 0 => t = 0
    BY <1>4
  <2>3. N = 0 <=> q = 0 /\ r = 0
    BY <1>4, <1>6, <1>7
  <2> QED BY <2>1, <2>2, <2>3
<1> QED BY <1>1, <1>7, <1>10, <1>11, <1>12

(* What of len bytes from addr on is in file f: as seg_readbuf() and        *)
(* seg_write() reckon it, and byte by byte.                                 *)
Held(addr, len) == {f \in Lay!Files : Lay!Holds(f, addr, len)}

LEMMA InHeld ==
  ASSUME Lay!FilesetAssumption, NEW addr \in Nat, NEW len \in Nat, NEW a \in addr .. addr + len - 1, NEW f, In(f, a)
  PROVE  f \in Held(addr, len)
<1>1. f \in Lay!Files /\ Lay!StartOf(f) <= a /\ a < Lay!StartOf(f) + Lens[f]
  BY DEF In
<1>2. PICK s \in Nat, l \in Nat : s = Lay!StartOf(f) /\ l = Lens[f]
  BY <1>1, StartIs
<1>3. s + l >= addr /\ s < addr + len
  BY <1>1, <1>2
<1> QED BY <1>1, <1>2, <1>3 DEF Held, Lay!Holds

Part(f, addr, len, p) ==
  /\ p.fpos \in Nat /\ p.beg \in Nat /\ p.len \in Nat /\ p.fpos + p.len <= Lens[f] /\ p.beg + p.len <= len
  /\ addr + p.beg = Lay!StartOf(f) + p.fpos
  /\ \A a \in addr .. addr + len - 1 :
       In(f, a) <=> Lay!StartOf(f) + p.fpos <= a /\ a < Lay!StartOf(f) + p.fpos + p.len

LEMMA PartIs ==
  ASSUME Lay!FilesetAssumption, NEW addr \in Nat, NEW len \in Nat \ {0}, NEW f \in Held(addr, len)
  PROVE  Part(f, addr, len, Lay!PartOf(f, addr, len))
<1>1. f \in Lay!Files /\ Lay!StartOf(f) + Lens[f] >= addr /\ Lay!StartOf(f) < addr + len
  BY DEF Held, Lay!Holds
<1>2. PICK s \in Nat, l \in Nat : s = Lay!StartOf(f) /\ l = Lens[f]
  BY <1>1, StartIs
<1>3. PICK fpos, beg : fpos = (IF addr - s > 0 THEN addr - s ELSE 0) /\ beg = IF s - addr > 0 THEN s - addr ELSE 0
  OBVIOUS
<1>4. PICK n : n = IF l - fpos < len - beg THEN l - fpos ELSE len - beg
  OBVIOUS
<1>5. Lay!PartOf(f, addr, len) = [beg |-> beg, fpos |-> fpos, len |-> n]
  BY <1>2, <1>3, <1>4 DEF Lay!PartOf, Lay!Most, Lay!Least
<1>6. /\ fpos \in Nat /\ beg \in Nat /\ n \in Nat /\ fpos + n <= l /\ beg + n <= len /\ addr + beg = s + fpos
      /\ \A a \in addr .. addr + len - 1 : (s <= a /\ a < s + l) <=> (s + fpos <= a /\ a < s + fpos + n)
  BY <1>1, <1>2, <1>3, <1>4
<1>7. \A a : In(f, a) <=> s <= a /\ a < s + l
  BY <1>1, <1>2 DEF In
<1> QED BY <1>2, <1>5, <1>6, <1>7 DEF Part

(* Reading succeeds if no file is missing or too short, and byte i then is  *)
(* the one at that place of its file.                                       *)
LEMMA LargestOfOne ==
  ASSUME NEW n \in Int
  PROVE  Lay!Max({n}) = n
<1>1. \A y \in {n} : n >= y
  OBVIOUS
<1> QED BY <1>1 DEF Lay!Max

Whence(addr, len, i) ==
  {f \in Held(addr, len) : i > Lay!PartOf(f, addr, len).beg
                           /\ i <= Lay!PartOf(f, addr, len).beg + Lay!PartOf(f, addr, len).len}

Long(d, f, addr, len) ==
  ~(Len(d[f].data) < Lay!PartOf(f, addr, len).fpos + Lay!PartOf(f, addr, len).len /\ Lay!PartOf(f, addr, len).len > 0)

Bytes(d, addr, len) ==
  [i \in 1 .. len |->
     IF Whence(addr, len, i) = {} THEN Lay!Junk
     ELSE d[Lay!Max(Whence(addr, len, i))].data
            [Lay!PartOf(Lay!Max(Whence(addr, len, i)), addr, len).fpos + i
             - Lay!PartOf(Lay!Max(Whence(addr, len, i)), addr, len).beg]]

LEMMA ReadBufIs ==
  ASSUME NEW d, NEW addr, NEW len
  PROVE  /\ Lay!ReadBuf(d, addr, len).ok <=> \A f \in Held(addr, len) : d[f].there /\ Long(d, f, addr, len)
         /\ Lay!ReadBuf(d, addr, len).ok =>
              Lay!ReadBuf(d, addr, len).buf = Bytes(d, addr, len)
         /\ Lay!ReadBuf(d, addr, len).ok \in BOOLEAN
         /\ (\A f \in Held(addr, len) : d[f].there) => ~Lay!ReadBuf(d, addr, len).enoent
<1> DEFINE absent == {f \in Held(addr, len) : ~d[f].there}
           short == {f \in Held(addr, len) : ~Long(d, f, addr, len)}
<1>1. short = {f \in Held(addr, len) :
                 Len(d[f].data) < Lay!PartOf(f, addr, len).fpos + Lay!PartOf(f, addr, len).len
                 /\ Lay!PartOf(f, addr, len).len > 0}
  BY DEF Long
<1>2. Lay!ReadBuf(d, addr, len) =
        IF absent \cup short # {}
        THEN [ok |-> FALSE, buf |-> <<>>, enoent |-> Lay!Min(absent \cup short) \in absent]
        ELSE [ok |-> TRUE, enoent |-> FALSE, buf |-> Bytes(d, addr, len)]
  BY <1>1, Zenon DEF Lay!ReadBuf, Held, Whence, Bytes
<1>3. absent \cup short = {} <=> \A f \in Held(addr, len) : d[f].there /\ Long(d, f, addr, len)
  OBVIOUS
<1>4. (\A f \in Held(addr, len) : d[f].there) => absent = {}
  OBVIOUS
<1> HIDE DEF absent, short
<1>5. CASE absent \cup short # {}
  <2>1. /\ Lay!ReadBuf(d, addr, len).ok = FALSE
        /\ Lay!ReadBuf(d, addr, len).enoent = (Lay!Min(absent \cup short) \in absent)
    BY <1>2, <1>5
  <2> QED BY <1>3, <1>4, <1>5, <2>1
<1>6. CASE absent \cup short = {}
  <2>1. /\ Lay!ReadBuf(d, addr, len).ok = TRUE /\ Lay!ReadBuf(d, addr, len).enoent = FALSE
        /\ Lay!ReadBuf(d, addr, len).buf = Bytes(d, addr, len)
    BY <1>2, <1>6
  <2> QED BY <1>3, <1>6, <2>1
<1> QED BY <1>5, <1>6

Filled(d) ==
  /\ d \in [Lay!Files -> [there : BOOLEAN, data : Seq(-1 .. Lay!TSize - 1)]]
  /\ \A f \in Lay!Files : Len(d[f].data) <= Lens[f]

(* What is to be read back: the files hold these bytes in their places.     *)
Stored(d, f, a) ==
  /\ a - Lay!StartOf(f) + 1 \in 1 .. Len(d[f].data)
  /\ d[f].data[a - Lay!StartOf(f) + 1] = a

Laid(d, addr, len) ==
  /\ \A f \in Held(addr, len) : d[f].there
  /\ \A a \in addr .. addr + len - 1 : \A f \in Lay!Files : In(f, a) => Stored(d, f, a)

(* Of one byte: it is read from its file, and from there only.              *)
LEMMA WhenceIs ==
  ASSUME Lay!FilesetAssumption, NEW addr \in Nat, NEW len \in Nat \ {0}, NEW a \in addr .. addr + len - 1,
         NEW f, In(f, a), NEW i, i = a - addr + 1
  PROVE  /\ Whence(addr, len, i) = {f} /\ i \in 1 .. len /\ f \in Held(addr, len) /\ f \in Nat
         /\ Lay!PartOf(f, addr, len).fpos + i - Lay!PartOf(f, addr, len).beg = a - Lay!StartOf(f) + 1
<1>1. f \in Held(addr, len) /\ f \in Lay!Files /\ f \in Nat
  BY InHeld, StartIs DEF In
<1>2. i \in 1 .. len /\ i \in Nat
  OBVIOUS
<1>3. ASSUME NEW g \in Held(addr, len)
      PROVE  /\ (i > Lay!PartOf(g, addr, len).beg
                 /\ i <= Lay!PartOf(g, addr, len).beg + Lay!PartOf(g, addr, len).len) <=> In(g, a)
             /\ Lay!PartOf(g, addr, len).fpos + i - Lay!PartOf(g, addr, len).beg = a - Lay!StartOf(g) + 1
  <2>1. PICK p : p = Lay!PartOf(g, addr, len) /\ Part(g, addr, len, p)
    BY PartIs
  <2>2. PICK s \in Nat : s = Lay!StartOf(g)
    <3>1. g \in Lay!Files
      BY DEF Held
    <3> QED BY <3>1, StartIs
  <2>3. PICK x1 \in Nat, y1 \in Nat, z1 \in Nat : x1 = p.beg /\ y1 = p.fpos /\ z1 = p.len
    BY <2>1 DEF Part
  <2>4. addr + x1 = s + y1 /\ (In(g, a) <=> s + y1 <= a /\ a < s + y1 + z1)
    BY <2>1, <2>2, <2>3 DEF Part
  <2>5. (i > x1 /\ i <= x1 + z1) <=> (s + y1 <= a /\ a < s + y1 + z1)
    BY <2>4
  <2>6. y1 + i - x1 = a - s + 1
    BY <2>4
  <2> QED BY <2>1, <2>2, <2>3, <2>4, <2>5, <2>6
<1>4. Whence(addr, len, i) = {g \in Held(addr, len) : In(g, a)}
  BY <1>3 DEF Whence
<1>5. {g \in Held(addr, len) : In(g, a)} = {f}
  <2>1. \A g \in Held(addr, len) : In(g, a) => g = f
    BY InOne
  <2> QED BY <1>1, <2>1
<1> QED BY <1>1, <1>2, <1>3, <1>4, <1>5

LEMMA ReadByte ==
  ASSUME Lay!FilesetAssumption, NEW d, NEW addr \in Nat, NEW len \in Nat \ {0}, NEW a \in addr .. addr + len - 1,
         NEW f, In(f, a), Lay!ReadBuf(d, addr, len).ok
  PROVE  Lay!ReadBuf(d, addr, len).buf[a - addr + 1] = d[f].data[a - Lay!StartOf(f) + 1]
<1>1. PICK i : i = a - addr + 1
  OBVIOUS
<1>2. /\ Whence(addr, len, i) = {f} /\ i \in 1 .. len /\ f \in Nat
      /\ Lay!PartOf(f, addr, len).fpos + i - Lay!PartOf(f, addr, len).beg = a - Lay!StartOf(f) + 1
  BY <1>1, WhenceIs
<1>3. Lay!Max(Whence(addr, len, i)) = f
  BY <1>2, LargestOfOne
<1>4. Lay!ReadBuf(d, addr, len).buf[i] =
        IF Whence(addr, len, i) = {} THEN Lay!Junk
        ELSE d[Lay!Max(Whence(addr, len, i))].data
               [Lay!PartOf(Lay!Max(Whence(addr, len, i)), addr, len).fpos + i
                - Lay!PartOf(Lay!Max(Whence(addr, len, i)), addr, len).beg]
  <2>1. Lay!ReadBuf(d, addr, len).buf = Bytes(d, addr, len)
    BY ReadBufIs
  <2>2. Bytes(d, addr, len)[i] =
          IF Whence(addr, len, i) = {} THEN Lay!Junk
          ELSE d[Lay!Max(Whence(addr, len, i))].data
                 [Lay!PartOf(Lay!Max(Whence(addr, len, i)), addr, len).fpos + i
                  - Lay!PartOf(Lay!Max(Whence(addr, len, i)), addr, len).beg]
    BY <1>2, Zenon DEF Bytes
  <2> QED BY <2>1, <2>2, Zenon
<1> QED BY <1>1, <1>2, <1>3, <1>4

LEMMA ReadIsLaid ==
  ASSUME Lay!FilesetAssumption, NEW d, Filled(d), NEW addr \in Nat, NEW len \in Nat \ {0}, addr + len <= Lay!TSize
  PROVE  Laid(d, addr, len) <=>
           Lay!ReadBuf(d, addr, len).ok /\ Lay!ReadBuf(d, addr, len).buf = Lay!Right(addr, len)
<1>1. Lay!TSize \in Nat /\ \A a \in addr .. addr + len - 1 : a \in Nat /\ a < Lay!TSize
  BY FilesInOrder
<1>2. \A a \in addr .. addr + len - 1 : \E f : In(f, a)
  BY <1>1, InSome
<1>3. ASSUME NEW f \in Held(addr, len)
      PROVE  /\ Lay!PartOf(f, addr, len).len > 0 =>
                  \E a \in addr .. addr + len - 1 :
                     In(f, a) /\ a = Lay!StartOf(f) + Lay!PartOf(f, addr, len).fpos + Lay!PartOf(f, addr, len).len - 1
             /\ \A a \in addr .. addr + len - 1 :
                  In(f, a) => a - Lay!StartOf(f) + 1 \in Nat \ {0} /\ Lay!PartOf(f, addr, len).len > 0
                    /\ a - Lay!StartOf(f) + 1 <= Lay!PartOf(f, addr, len).fpos + Lay!PartOf(f, addr, len).len
             /\ Lay!StartOf(f) \in Nat /\ f \in Lay!Files
             /\ Lay!PartOf(f, addr, len).fpos \in Nat /\ Lay!PartOf(f, addr, len).len \in Nat
  <2>1. PICK p : p = Lay!PartOf(f, addr, len) /\ Part(f, addr, len, p)
    BY PartIs
  <2>2. f \in Lay!Files
    BY DEF Held
  <2>3. PICK s \in Nat : s = Lay!StartOf(f)
    BY <2>2, StartIs
  <2>4. PICK x1 \in Nat, y1 \in Nat, z1 \in Nat : x1 = p.beg /\ y1 = p.fpos /\ z1 = p.len
    BY <2>1 DEF Part
  <2>5. /\ addr + x1 = s + y1 /\ x1 + z1 <= len
        /\ \A a \in addr .. addr + len - 1 : In(f, a) <=> s + y1 <= a /\ a < s + y1 + z1
    BY <2>1, <2>3, <2>4 DEF Part
  <2>6. ASSUME z1 > 0
        PROVE  \E a \in addr .. addr + len - 1 : In(f, a) /\ a = s + y1 + z1 - 1
    <3>1. PICK a \in Int : a = s + y1 + z1 - 1
      OBVIOUS
    <3>2. a \in addr .. addr + len - 1 /\ s + y1 <= a /\ a < s + y1 + z1
      BY ONLY addr \in Nat, len \in Nat \ {0}, s \in Nat, x1 \in Nat, y1 \in Nat, z1 \in Nat, <2>5, <2>6, <3>1
    <3> QED BY <2>5, <3>1, <3>2
  <2>7. ASSUME NEW a \in addr .. addr + len - 1, In(f, a)
        PROVE  a - s + 1 \in Nat \ {0} /\ z1 > 0 /\ a - s + 1 <= y1 + z1
    BY <2>5, <2>7
  <2> QED BY <2>1, <2>2, <2>3, <2>4, <2>6, <2>7
<1>4. ASSUME Laid(d, addr, len)
      PROVE  Lay!ReadBuf(d, addr, len).ok /\ Lay!ReadBuf(d, addr, len).buf = Lay!Right(addr, len)
  <2>1. ASSUME NEW f \in Held(addr, len) PROVE d[f].there /\ Long(d, f, addr, len)
    <3>1. d[f].there
      BY <1>4 DEF Laid
    <3>2. ASSUME Lay!PartOf(f, addr, len).len > 0
          PROVE  ~(Len(d[f].data) < Lay!PartOf(f, addr, len).fpos + Lay!PartOf(f, addr, len).len)
      <4>1. PICK a \in addr .. addr + len - 1 :
              In(f, a) /\ a = Lay!StartOf(f) + Lay!PartOf(f, addr, len).fpos + Lay!PartOf(f, addr, len).len - 1
        BY <1>3, <3>2
      <4>2. a - Lay!StartOf(f) + 1 <= Len(d[f].data)
        BY <1>3, <1>4, <4>1 DEF Laid, Stored
      <4>3. Len(d[f].data) \in Nat
        BY <1>3 DEF Filled
      <4>4. a - Lay!StartOf(f) + 1 = Lay!PartOf(f, addr, len).fpos + Lay!PartOf(f, addr, len).len
        BY <1>3, <4>1
      <4> QED BY <1>3, <4>2, <4>3, <4>4
    <3> QED BY <3>1, <3>2 DEF Long
  <2>2. Lay!ReadBuf(d, addr, len).ok
    BY <2>1, ReadBufIs
  <2>3. PICK u : u = Lay!ReadBuf(d, addr, len).buf
    OBVIOUS
  <2>4. ASSUME NEW i \in 1 .. len PROVE u[i] = addr + i - 1
    <3>1. PICK a \in addr .. addr + len - 1 : a = addr + i - 1 /\ i = a - addr + 1
      OBVIOUS
    <3>2. PICK f : In(f, a)
      BY <1>2
    <3>3. u[i] = d[f].data[a - Lay!StartOf(f) + 1]
      BY <2>2, <2>3, <3>1, <3>2, ReadByte
    <3>4. d[f].data[a - Lay!StartOf(f) + 1] = a
      BY <1>4, <3>2 DEF Laid, Stored, In
    <3> QED BY <3>1, <3>3, <3>4
  <2>5. u = [i \in 1 .. len |-> u[i]]
    <3>1. u = Bytes(d, addr, len)
      BY <2>2, <2>3, ReadBufIs
    <3> QED BY <3>1 DEF Bytes
  <2>6. u = [i \in 1 .. len |-> addr + i - 1]
    BY <2>4, <2>5
  <2> QED BY <2>2, <2>3, <2>6 DEF Lay!Right
<1>5. ASSUME Lay!ReadBuf(d, addr, len).ok, Lay!ReadBuf(d, addr, len).buf = Lay!Right(addr, len)
      PROVE  Laid(d, addr, len)
  <2>1. \A f \in Held(addr, len) : d[f].there /\ Long(d, f, addr, len)
    BY <1>5, ReadBufIs
  <2>2. ASSUME NEW a \in addr .. addr + len - 1, NEW f \in Lay!Files, In(f, a) PROVE Stored(d, f, a)
    <3>1. f \in Held(addr, len)
      BY <2>2, InHeld
    <3>2. /\ a - Lay!StartOf(f) + 1 \in Nat \ {0}
          /\ a - Lay!StartOf(f) + 1 <= Lay!PartOf(f, addr, len).fpos + Lay!PartOf(f, addr, len).len
          /\ Lay!PartOf(f, addr, len).fpos + Lay!PartOf(f, addr, len).len <= Len(d[f].data)
      <4>1. Len(d[f].data) \in Nat
        BY DEF Filled
      <4>2. ~(Len(d[f].data) < Lay!PartOf(f, addr, len).fpos + Lay!PartOf(f, addr, len).len)
        BY <1>3, <2>1, <2>2, <3>1 DEF Long
      <4>3. PICK m \in Nat, x1 \in Nat, y1 \in Nat :
              /\ m = Len(d[f].data) /\ x1 = Lay!PartOf(f, addr, len).fpos /\ y1 = Lay!PartOf(f, addr, len).len
        BY <1>3, <3>1, <4>1
      <4>4. x1 + y1 <= m
        BY <4>2, <4>3
      <4> QED BY <1>3, <2>2, <3>1, <4>3, <4>4
    <3>3. a - Lay!StartOf(f) + 1 \in 1 .. Len(d[f].data)
      <4>1. Len(d[f].data) \in Nat
        BY DEF Filled
      <4>2. Lay!PartOf(f, addr, len).fpos \in Nat /\ Lay!PartOf(f, addr, len).len \in Nat
        BY <1>3, <3>1
      <4> QED BY <3>2, <4>1, <4>2
    <3>4. Lay!ReadBuf(d, addr, len).buf[a - addr + 1] = d[f].data[a - Lay!StartOf(f) + 1]
      BY <1>5, <2>2, ReadByte
    <3>5. Lay!Right(addr, len)[a - addr + 1] = a
      <4>1. a - addr + 1 \in 1 .. len /\ addr + (a - addr + 1) - 1 = a
        OBVIOUS
      <4> QED BY <4>1 DEF Lay!Right
    <3> QED BY <1>5, <3>3, <3>4, <3>5 DEF Stored
  <2> QED BY <2>1, <2>2 DEF Laid
<1> QED BY <1>4, <1>5

(* What is laid is laid in every part of it.                                *)
LEMMA LaidWithin ==
  ASSUME Lay!FilesetAssumption, NEW d, NEW addr \in Nat, NEW len \in Nat, Laid(d, addr, len),
         NEW start \in 0 .. len - 1, NEW l \in 1 .. len - start
  PROVE  Laid(d, addr + start, l)
<1>1. PICK n \in Nat : n = addr + start
  OBVIOUS
<1>2. \A a \in n .. n + l - 1 : a \in addr .. addr + len - 1
  BY <1>1
<1>3. Held(n, l) \subseteq Held(addr, len)
  <2>1. \A f \in Lay!Files : Lay!StartOf(f) + Lens[f] \in Nat /\ Lay!StartOf(f) \in Nat
    BY StartIs
  <2>2. \A s \in Nat, e \in Nat : e >= n /\ s < n + l => e >= addr /\ s < addr + len
    BY <1>1
  <2> QED BY <2>1, <2>2 DEF Held, Lay!Holds
<1>4. Laid(d, n, l)
  BY <1>2, <1>3 DEF Laid
<1> QED BY <1>1, <1>4

(* Writing at a place: a hole is filled up, nothing is cut off.             *)
OverPlace(S, data, fpos, new, r) ==
  /\ -1 \in S /\ data \in Seq(S) /\ fpos \in Nat /\ new \in Seq(S)
  /\ r = Lay!Overwrite(data, fpos, new)

InPlace(S, data, fpos, new, r) ==
  /\ r \in Seq(S) /\ Len(data) <= Len(r)
  /\ \A m \in Nat : Len(data) <= m /\ fpos + Len(new) <= m => Len(r) <= m
  /\ \A i \in 1 .. Len(data) : ~(i > fpos /\ i <= fpos + Len(new)) => r[i] = data[i]
  /\ \A j \in 1 .. Len(new) : fpos + j <= Len(r) /\ r[fpos + j] = new[j]

LEMMA OverwriteIs ==
  ASSUME NEW S, NEW data, NEW fpos, NEW new, NEW r, OverPlace(S, data, fpos, new, r)
  PROVE  InPlace(S, data, fpos, new, r)
<1>0. -1 \in S /\ data \in Seq(S) /\ fpos \in Nat /\ new \in Seq(S) /\ r = Lay!Overwrite(data, fpos, new)
  BY DEF OverPlace
<1> USE <1>0
<1>1. PICK k \in Nat, l \in Nat : k = Len(data) /\ l = Len(new)
  OBVIOUS
<1>2. PICK n \in Nat : n = Lay!Most(k, IF new = <<>> THEN 0 ELSE fpos + l)
                       /\ k <= n /\ (l # 0 => fpos + l <= n) /\ \A m \in Nat : k <= m /\ fpos + l <= m => n <= m
  <2>1. new = <<>> <=> l = 0
    BY <1>1, EmptySeq
  <2>2. PICK n : n = IF k > (IF l = 0 THEN 0 ELSE fpos + l) THEN k ELSE IF l = 0 THEN 0 ELSE fpos + l
    OBVIOUS
  <2>3. n = Lay!Most(k, IF new = <<>> THEN 0 ELSE fpos + l)
    BY <2>1, <2>2 DEF Lay!Most
  <2>4. n \in Nat /\ k <= n /\ (l # 0 => fpos + l <= n) /\ \A m \in Nat : k <= m /\ fpos + l <= m => n <= m
    BY <2>2
  <2> QED BY <2>3, <2>4
<1>3. r = [i \in 1 .. n |-> IF i > fpos /\ i <= fpos + l THEN new[i - fpos]
                            ELSE IF i <= k THEN data[i] ELSE -1]
  BY <1>1, <1>2 DEF Lay!Overwrite, Lay!Junk
<1>4. \A i \in 1 .. n : r[i] \in S
  <2> TAKE i \in 1 .. n
  <2>1. CASE i > fpos /\ i <= fpos + l
    <3>1. PICK j \in 1 .. l : j = i - fpos
      BY <2>1
    <3>2. new[j] \in S
      BY <1>1
    <3> QED BY <1>3, <2>1, <3>1, <3>2
  <2>2. CASE ~(i > fpos /\ i <= fpos + l) /\ i <= k
    <3>1. data[i] \in S
      BY <1>1, <2>2
    <3> QED BY <1>3, <2>2, <3>1
  <2>3. CASE ~(i > fpos /\ i <= fpos + l) /\ ~(i <= k)
    BY <1>3, <2>3
  <2> QED BY <2>1, <2>2, <2>3
<1>5. r \in Seq(S) /\ Len(r) = n
  <2>1. r = [i \in 1 .. n |-> r[i]]
    BY <1>3
  <2> QED BY <1>4, <2>1
<1>6. \A i \in 1 .. k : ~(i > fpos /\ i <= fpos + l) => r[i] = data[i]
  <2>1. \A i \in 1 .. k : i \in 1 .. n /\ i <= k
    BY <1>2
  <2> QED BY <1>3, <2>1
<1>7. \A j \in 1 .. l : fpos + j <= n /\ r[fpos + j] = new[j]
  <2> TAKE j \in 1 .. l
  <2>1. PICK i \in Nat : i = fpos + j
    OBVIOUS
  <2>2. i \in 1 .. n /\ i > fpos /\ i <= fpos + l /\ i - fpos = j
    BY <1>2, <2>1
  <2> QED BY <1>3, <2>1, <2>2
<1> QED BY <1>1, <1>2, <1>5, <1>6, <1>7 DEF InPlace

(* What seg_write() puts into a file.                                       *)
NewPart(addr, len, t, beg, n, new) ==
  addr + len <= t /\ beg + n <= len /\ new = SubSeq(Lay!Right(addr, len), beg + 1, beg + n)

PartPut(addr, t, beg, n, new) ==
  new \in Seq(-1 .. t - 1) /\ Len(new) = n /\ \A j \in 1 .. n : new[j] = addr + beg + j - 1

LEMMA NewIs ==
  ASSUME NEW addr \in Nat, NEW len \in Nat, NEW t \in Nat, NEW beg \in Nat, NEW n \in Nat, NEW new,
         NewPart(addr, len, t, beg, n, new)
  PROVE  PartPut(addr, t, beg, n, new)
<1>0. addr + len <= t /\ beg + n <= len /\ new = SubSeq(Lay!Right(addr, len), beg + 1, beg + n)
  BY DEF NewPart
<1>1. PICK S : S = -1 .. t - 1
  OBVIOUS
<1>2. PICK R : R = Lay!Right(addr, len)
  OBVIOUS
<1>3. R \in Seq(S) /\ Len(R) = len /\ \A i \in 1 .. len : R[i] = addr + i - 1 /\ R[i] \in S
  <2>1. \A i \in 1 .. len : addr + i - 1 \in S
    BY <1>0, <1>1
  <2> QED BY <1>2, <2>1 DEF Lay!Right
<1>4. PICK b \in Nat, e \in Nat : b = beg + 1 /\ e = beg + n
  OBVIOUS
<1>5. \A i \in b .. e : R[i] \in S
  <2>1. \A i \in b .. e : i \in 1 .. len
    BY <1>0, <1>4
  <2> QED BY <1>3, <2>1
<1>6. PICK u : u = SubSeq(R, b, e)
  OBVIOUS
<1>7. /\ u \in Seq(S) /\ Len(u) = (IF b <= e THEN e - b + 1 ELSE 0)
      /\ \A j \in 1 .. e - b + 1 : u[j] = R[b + j - 1]
  BY <1>5, <1>6, SubSeqProperties
<1>8. Len(u) = n
  BY <1>4, <1>7
<1>9. \A j \in 1 .. n : u[j] = addr + beg + j - 1
  <2> TAKE j \in 1 .. n
  <2>1. PICK i \in 1 .. len : i = b + j - 1 /\ i = beg + j /\ j \in 1 .. e - b + 1
    BY <1>0, <1>4
  <2>2. u[j] = R[b + j - 1]
    BY ONLY <1>7, <2>1
  <2>3. u[j] = R[i] /\ R[i] = addr + i - 1
    BY ONLY <1>3, <2>1, <2>2
  <2> QED BY <2>1, <2>3
<1>10. u = new
  BY <1>0, <1>2, <1>4, <1>6
<1> QED BY <1>1, <1>7, <1>8, <1>9, <1>10 DEF PartPut

Put(data, f, a) ==
  /\ a - Lay!StartOf(f) + 1 \in 1 .. Len(data)
  /\ data[a - Lay!StartOf(f) + 1] = a

PartOver(addr, len, f, data, p, r) ==
  /\ addr \in Nat /\ len \in Nat \ {0} /\ addr + len <= Lay!TSize /\ f \in Held(addr, len)
  /\ data \in Seq(-1 .. Lay!TSize - 1) /\ Len(data) <= Lens[f] /\ p = Lay!PartOf(f, addr, len)
  /\ r = Lay!Overwrite(data, p.fpos, SubSeq(Lay!Right(addr, len), p.beg + 1, p.beg + p.len))

PartStored(addr, len, f, data, r) ==
  /\ r \in Seq(-1 .. Lay!TSize - 1) /\ Len(r) <= Lens[f]
  /\ \A a \in addr .. addr + len - 1 : In(f, a) => Put(r, f, a)
  /\ \A a \in Nat : a \notin addr .. addr + len - 1 /\ Put(data, f, a) => Put(r, f, a)

LEMMA PutIs ==
  ASSUME Lay!FilesetAssumption, NEW addr, NEW len, NEW f, NEW data, NEW p, NEW r,
         PartOver(addr, len, f, data, p, r)
  PROVE  PartStored(addr, len, f, data, r)
<1>0. /\ addr \in Nat /\ len \in Nat \ {0} /\ addr + len <= Lay!TSize /\ f \in Held(addr, len)
      /\ data \in Seq(-1 .. Lay!TSize - 1) /\ Len(data) <= Lens[f] /\ p = Lay!PartOf(f, addr, len)
      /\ r = Lay!Overwrite(data, p.fpos, SubSeq(Lay!Right(addr, len), p.beg + 1, p.beg + p.len))
  BY DEF PartOver
<1> USE <1>0
<1>1. f \in Lay!Files
  BY DEF Held
<1>2. PICK s \in Nat, l \in Nat, t \in Nat : s = Lay!StartOf(f) /\ l = Lens[f] /\ t = Lay!TSize
  <2>1. Lay!StartOf(f) \in Nat /\ Lens[f] \in Nat
    BY <1>1, StartIs
  <2>2. Lay!TSize \in Nat
    BY FilesInOrder
  <2> QED BY ONLY <2>1, <2>2
<1>3. Part(f, addr, len, p)
  BY PartIs
<1>4. PICK x1 \in Nat, y1 \in Nat, z1 \in Nat : x1 = p.beg /\ y1 = p.fpos /\ z1 = p.len
  BY <1>3 DEF Part
<1>5. /\ y1 + z1 <= l /\ x1 + z1 <= len /\ addr + x1 = s + y1
      /\ \A a \in addr .. addr + len - 1 : In(f, a) <=> s + y1 <= a /\ a < s + y1 + z1
  BY <1>2, <1>3, <1>4 DEF Part
<1>6. PICK S : S = -1 .. t - 1
  OBVIOUS
<1>7. PICK new : new = SubSeq(Lay!Right(addr, len), x1 + 1, x1 + z1)
  OBVIOUS
<1>8. new \in Seq(S) /\ Len(new) = z1 /\ \A j \in 1 .. z1 : new[j] = addr + x1 + j - 1
  <2>1. addr + len <= t /\ x1 + z1 <= len
    BY <1>2, <1>5
  <2>2. new \in Seq(-1 .. t - 1) /\ Len(new) = z1 /\ \A j \in 1 .. z1 : new[j] = addr + x1 + j - 1
    <3>1. NewPart(addr, len, t, x1, z1, new)
      BY <1>7, <2>1 DEF NewPart
    <3>2. PartPut(addr, t, x1, z1, new)
      BY <3>1, NewIs
    <3> QED BY <3>2 DEF PartPut
  <2> QED BY <1>6, <2>2
<1>9. r = Lay!Overwrite(data, y1, new) /\ data \in Seq(S) /\ -1 \in S
  BY <1>2, <1>4, <1>6, <1>7
<1>10. PICK k \in Nat : k = Len(data)
  OBVIOUS
<1>11. /\ r \in Seq(S) /\ k <= Len(r)
       /\ \A m \in Nat : k <= m /\ y1 + z1 <= m => Len(r) <= m
       /\ \A i \in 1 .. k : ~(i > y1 /\ i <= y1 + z1) => r[i] = data[i]
       /\ \A j \in 1 .. z1 : y1 + j <= Len(r) /\ r[y1 + j] = new[j]
  <2>1. OverPlace(S, data, y1, new, r)
    BY <1>8, <1>9 DEF OverPlace
  <2>2. InPlace(S, data, y1, new, r)
    BY <2>1, OverwriteIs
  <2>3. Len(new) = z1 /\ Len(data) = k
    BY <1>8, <1>10
  <2> QED BY ONLY <2>2, <2>3 DEF InPlace
<1>12. PICK c \in Nat : c = Len(r)
  BY <1>11
<1>13. ASSUME NEW a \in addr .. addr + len - 1, In(f, a)
       PROVE  Put(r, f, a)
  <2>1. PICK j \in 1 .. z1 : j = a - s - y1 + 1
    BY <1>5, <1>13
  <2>2. y1 + j <= c /\ r[y1 + j] = addr + x1 + j - 1
    BY <1>8, <1>11, <1>12, <2>1
  <2>3. y1 + j = a - s + 1 /\ addr + x1 + j - 1 = a /\ a - s + 1 \in 1 .. c
    BY <1>5, <2>1, <2>2
  <2>4. r[a - s + 1] = a
    BY ONLY <2>2, <2>3
  <2> QED BY <1>2, <1>12, <2>3, <2>4 DEF Put
<1>14. ASSUME NEW a \in Nat, a \notin addr .. addr + len - 1, Put(data, f, a)
       PROVE  Put(r, f, a)
  <2>1. PICK i \in 1 .. k : i = a - s + 1 /\ data[i] = a
    BY <1>2, <1>10, <1>14 DEF Put
  <2>2. ~(i > y1 /\ i <= y1 + z1)
    BY <1>5, <1>14, <2>1
  <2>3. r[i] = a /\ i \in 1 .. c
    BY <1>11, <1>12, <2>1, <2>2
  <2> QED BY <1>2, <1>12, <2>1, <2>3 DEF Put
<1>15. Len(r) <= l
  BY <1>2, <1>5, <1>10, <1>11
<1> QED BY <1>2, <1>6, <1>11, <1>13, <1>14, <1>15 DEF PartStored

(* What seg_write() does to a file it writes to, and to the others.         *)
Wrote(d, w, f, addr, len) ==
  /\ w[f] \in [there : BOOLEAN, data : Seq(-1 .. Lay!TSize - 1)] /\ Len(w[f].data) <= Lens[f]
  /\ d[f].there => w[f].there
  /\ \A a \in Nat : a \notin addr .. addr + len - 1 /\ Stored(d, f, a) => Stored(w, f, a)

LEMMA SegWriteIs ==
  ASSUME Lay!FilesetAssumption, NEW d, Filled(d), NEW piece \in Lay!FilePieces, NEW upto,
         NEW addr, NEW len, addr = Lay!Addr(piece), len = Lay!PieceLength(piece),
         NEW w, w = Lay!Written(d, piece, upto)
  PROVE  /\ Filled(w)
         /\ \A f \in Lay!Files : Wrote(d, w, f, addr, len)
         /\ \A f \in Held(addr, len) : ~(f > upto) =>
              w[f].there /\ \A a \in addr .. addr + len - 1 : In(f, a) => Stored(w, f, a)
<1>1. addr \in Nat /\ len \in Nat \ {0} /\ addr + len <= Lay!TSize
  BY PieceIs
<1>2. DOMAIN w = Lay!Files
  BY DEF Lay!Written
<1>3. ASSUME NEW f \in Lay!Files
      PROVE  /\ Wrote(d, w, f, addr, len)
             /\ f \in Held(addr, len) /\ ~(f > upto) =>
                  w[f].there /\ \A a \in addr .. addr + len - 1 : In(f, a) => Stored(w, f, a)
  <2>0. d[f] \in [there : BOOLEAN, data : Seq(-1 .. Lay!TSize - 1)] /\ Len(d[f].data) <= Lens[f]
    BY DEF Filled
  <2>1. CASE f \in Held(addr, len) /\ ~(f > upto)
    <3>1. PICK p : p = Lay!PartOf(f, addr, len)
      OBVIOUS
    <3>2. PICK r : r = Lay!Overwrite(d[f].data, p.fpos, SubSeq(Lay!Right(addr, len), p.beg + 1, p.beg + p.len))
      OBVIOUS
    <3>3. w[f] = [there |-> TRUE, data |-> r]
      <4>1. Lay!Holds(f, addr, len)
        BY <2>1 DEF Held
      <4> QED BY <2>1, <3>1, <3>2, <4>1, Zenon DEF Lay!Written
    <3>4. /\ r \in Seq(-1 .. Lay!TSize - 1) /\ Len(r) <= Lens[f]
          /\ \A a \in addr .. addr + len - 1 : In(f, a) => Put(r, f, a)
          /\ \A a \in Nat : a \notin addr .. addr + len - 1 /\ Put(d[f].data, f, a) => Put(r, f, a)
      <4>1. PartOver(addr, len, f, d[f].data, p, r)
        BY <1>1, <2>0, <2>1, <3>1, <3>2 DEF PartOver
      <4>2. PartStored(addr, len, f, d[f].data, r)
        BY <4>1, PutIs
      <4> QED BY <4>2 DEF PartStored
    <3>5. w[f].there = TRUE /\ w[f].data = r
      BY <3>3
    <3>6. \A a : (Stored(w, f, a) <=> Put(r, f, a)) /\ (Stored(d, f, a) <=> Put(d[f].data, f, a))
      BY <3>5 DEF Stored, Put
    <3>7. Wrote(d, w, f, addr, len)
      BY <3>3, <3>4, <3>5, <3>6 DEF Wrote
    <3> QED BY <3>4, <3>5, <3>6, <3>7
  <2>2. CASE ~(f \in Held(addr, len) /\ ~(f > upto))
    <3>1. w[f] = d[f]
      <4>1. ~Lay!Holds(f, addr, len) \/ f > upto
        BY <2>2 DEF Held
      <4> QED BY <4>1, Zenon DEF Lay!Written
    <3>2. \A a : Stored(w, f, a) <=> Stored(d, f, a)
      BY <3>1 DEF Stored
    <3>3. Wrote(d, w, f, addr, len)
      BY <2>0, <3>1, <3>2 DEF Wrote
    <3> QED BY <2>2, <3>3
  <2> QED BY <2>1, <2>2
<1>4. Filled(w)
  <2>1. w = [f \in Lay!Files |-> w[f]]
    BY Zenon DEF Lay!Written
  <2>2. \A f \in Lay!Files : w[f] \in [there : BOOLEAN, data : Seq(-1 .. Lay!TSize - 1)] /\ Len(w[f].data) <= Lens[f]
    BY <1>3 DEF Wrote
  <2>3. w \in [Lay!Files -> [there : BOOLEAN, data : Seq(-1 .. Lay!TSize - 1)]]
    BY <2>1, <2>2, Zenon
  <2> QED BY <2>2, <2>3 DEF Filled
<1>5. Held(addr, len) \subseteq Lay!Files
  BY DEF Held
<1> QED BY <1>3, <1>4, <1>5

(* A byte is in one piece.                                                  *)
LEMMA PieceOf ==
  ASSUME Lay!FilesetAssumption, NEW n \in Lay!FilePieces,
         NEW a \in Lay!Addr(n) .. Lay!Addr(n) + Lay!PieceLength(n) - 1
  PROVE  a \div PieceLen = n /\ a \in Nat /\ a < Lay!TSize
<1>1. PICK l \in Nat \ {0}, t \in Nat : l = PieceLen /\ t = Lay!TSize
  BY FilesInOrder DEF Lay!FilesetAssumption
<1>2. PICK e \in Nat \ {0}, b \in Nat : e = Lay!PieceLength(n) /\ b = Lay!Addr(n) /\ n \in Nat /\ b + e <= t
  BY <1>1, PieceIs
<1>3. e <= l
  <2>1. e = l \/ e = t % l
    BY <1>1, <1>2 DEF Lay!PieceLength
  <2>2. t % l <= l
    BY <1>1
  <2> QED BY <2>1, <2>2
<1>4. b = n * l
  BY <1>1, <1>2 DEF Lay!Addr
<1>5. PICK i \in 0 .. l - 1 : a = b + i /\ a \in Nat /\ a < t
  <2>1. a \in b .. b + e - 1
    BY <1>2
  <2>2. a - b \in 0 .. l - 1 /\ a \in Nat /\ a < t /\ a = b + (a - b)
    BY ONLY l \in Nat \ {0}, t \in Nat, e \in Nat \ {0}, b \in Nat, <1>2, <1>3, <2>1
  <2> QED BY <2>2
<1>6. (n * l + i) \div l = n
  <2>1. n \in Nat
    BY <1>2
  <2> QED BY ONLY l \in Nat \ {0}, i \in 0 .. l - 1, Divided, <2>1
<1> QED BY <1>1, <1>4, <1>5, <1>6

(* Writing a piece leaves the others as they are; written to the last file, *)
(* it is there itself.                                                      *)
PieceLaid(d, n) == Laid(d, Lay!Addr(n), Lay!PieceLength(n))

LEMMA OthersLaid ==
  ASSUME Lay!FilesetAssumption, NEW d, Filled(d), NEW piece \in Lay!FilePieces, NEW upto,
         NEW w, w = Lay!Written(d, piece, upto), NEW n \in Lay!FilePieces, n # piece, PieceLaid(d, n)
  PROVE  PieceLaid(w, n)
<1>1. PICK addr, len : addr = Lay!Addr(piece) /\ len = Lay!PieceLength(piece)
  OBVIOUS
<1>2. \A f \in Lay!Files : Wrote(d, w, f, addr, len)
  BY <1>1, SegWriteIs
<1>3. PICK b, e : b = Lay!Addr(n) /\ e = Lay!PieceLength(n)
  OBVIOUS
<1>4. \A a \in b .. b + e - 1 : a \in Nat /\ a \notin addr .. addr + len - 1
  BY <1>1, <1>3, PieceOf
<1>5. \A f \in Held(b, e) : w[f].there
  <2>1. \A f \in Held(b, e) : d[f].there /\ f \in Lay!Files
    BY <1>3 DEF PieceLaid, Laid, Held
  <2> QED BY <1>2, <2>1 DEF Wrote
<1>6. \A a \in b .. b + e - 1 : \A f \in Lay!Files : In(f, a) => Stored(w, f, a)
  <2> SUFFICES ASSUME NEW a \in b .. b + e - 1, NEW f \in Lay!Files, In(f, a) PROVE Stored(w, f, a)
    OBVIOUS
  <2>1. Stored(d, f, a)
    BY <1>3 DEF PieceLaid, Laid
  <2> QED BY <1>2, <1>4, <2>1 DEF Wrote
<1> QED BY <1>3, <1>5, <1>6 DEF PieceLaid, Laid

LEMMA WrittenLaid ==
  ASSUME Lay!FilesetAssumption, NEW d, Filled(d), NEW piece \in Lay!FilePieces,
         NEW w, w = Lay!Written(d, piece, Len(Lens))
  PROVE  PieceLaid(w, piece)
<1>1. PICK addr, len : addr = Lay!Addr(piece) /\ len = Lay!PieceLength(piece)
  OBVIOUS
<1>2. \A f \in Held(addr, len) : ~(f > Len(Lens)) =>
        w[f].there /\ \A a \in addr .. addr + len - 1 : In(f, a) => Stored(w, f, a)
  BY <1>1, SegWriteIs
<1>3. \A f \in Held(addr, len) : ~(f > Len(Lens))
  BY StartIs DEF Held
<1>4. addr \in Nat /\ len \in Nat
  BY <1>1, PieceIs
<1>5. \A a \in addr .. addr + len - 1 : \A f \in Lay!Files : In(f, a) => f \in Held(addr, len)
  BY <1>4, InHeld
<1> QED BY <1>1, <1>2, <1>3, <1>5 DEF PieceLaid, Laid

(* What is left is a sum over the pieces.                                   *)
Lefts(s, C, n) ==
  s = [m \in 0 .. n |-> IF m = 0 THEN 0 ELSE s[m - 1] + IF m - 1 \in C THEN 0 ELSE Lay!PieceLength(m - 1)]

LEMMA LeftsExist ==
  ASSUME NEW n \in Nat, NEW C
  PROVE  \E s : Lefts(s, C, n)
<1> DEFINE A == {m \in Nat : \E s : Lefts(s, C, m)}
<1>1. 0 \in A
  <2>1. Lefts([m \in 0 .. 0 |-> 0], C, 0)
    BY DEF Lefts
  <2> QED BY <2>1
<1>2. ASSUME NEW m \in 1 .. n, m - 1 \in A
      PROVE  m \in A
  <2>1. PICK s : Lefts(s, C, m - 1)
    BY <1>2
  <2> DEFINE h == [i \in 0 .. m |-> IF i # m THEN s[i]
                                    ELSE s[m - 1] + IF m - 1 \in C THEN 0 ELSE Lay!PieceLength(m - 1)]
  <2>2. ASSUME NEW i \in 0 .. m
        PROVE  h[i] = IF i = 0 THEN 0 ELSE h[i - 1] + IF i - 1 \in C THEN 0 ELSE Lay!PieceLength(i - 1)
    <3>1. CASE i = m
      <4>1. m - 1 \in 0 .. m /\ m - 1 # m /\ m # 0 /\ m \in 0 .. m
        OBVIOUS
      <4> QED BY <3>1, <4>1
    <3>2. CASE i # m
      <4>1. i \in 0 .. m - 1
        BY <3>2
      <4>2. h[i] = s[i] /\ s[i] = IF i = 0 THEN 0 ELSE s[i - 1] + IF i - 1 \in C THEN 0 ELSE Lay!PieceLength(i - 1)
        BY <2>1, <3>2, <4>1 DEF Lefts
      <4>3. i # 0 => i - 1 \in 0 .. m /\ i - 1 # m
        BY <4>1
      <4> QED BY <4>2, <4>3
    <3> QED BY <3>1, <3>2
  <2>3. h = [i \in 0 .. m |-> h[i]]
    OBVIOUS
  <2> HIDE DEF h
  <2>4. Lefts(h, C, m)
    BY <2>2, <2>3 DEF Lefts
  <2> QED BY <2>4
<1> HIDE DEF A
<1>3. n \in A
  BY <1>1, <1>2, UpTo
<1> QED BY <1>3 DEF A

LeftBy(C) == CHOOSE s : Lefts(s, C, Lay!NPieces)
LeftOf(C) == LeftBy(C)[Lay!NPieces]

LEMMA LeftByIs ==
  ASSUME Lay!FilesetAssumption, NEW C
  PROVE  /\ LeftBy(C)[0] = 0
         /\ \A m \in 1 .. Lay!NPieces :
              /\ m - 1 \in Lay!FilePieces
              /\ LeftBy(C)[m] = LeftBy(C)[m - 1] + IF m - 1 \in C THEN 0 ELSE Lay!PieceLength(m - 1)
         /\ \A m \in 0 .. Lay!NPieces : LeftBy(C)[m] \in Nat
<1>1. PICK N \in Nat : N = Lay!NPieces
  BY PieceIs
<1>2. PICK s : s = LeftBy(C)
  OBVIOUS
<1>3. Lefts(s, C, N)
  BY <1>1, <1>2, LeftsExist DEF LeftBy
<1>4. \A m \in 0 .. N : s[m] = IF m = 0 THEN 0 ELSE s[m - 1] + IF m - 1 \in C THEN 0 ELSE Lay!PieceLength(m - 1)
  BY <1>3 DEF Lefts
<1>5. s[0] = 0 /\ \A m \in 1 .. N : s[m] = s[m - 1] + IF m - 1 \in C THEN 0 ELSE Lay!PieceLength(m - 1)
  <2>1. 0 \in 0 .. N /\ \A m \in 1 .. N : m \in 0 .. N /\ m # 0
    OBVIOUS
  <2> QED BY <1>4, <2>1
<1>6. \A m \in 1 .. N : m - 1 \in Lay!FilePieces
  BY <1>1 DEF Lay!FilePieces
<1> DEFINE A == {m \in Nat : s[m] \in Nat}
<1>7. 0 \in A
  BY <1>5
<1>8. ASSUME NEW m \in 1 .. N, m - 1 \in A PROVE m \in A
  <2>1. Lay!PieceLength(m - 1) \in Nat /\ s[m - 1] \in Nat
    BY <1>6, <1>8, PieceIs
  <2> QED BY <1>5, <2>1
<1> HIDE DEF A
<1>9. \A m \in 0 .. N : m \in A
  <2> TAKE m \in 0 .. N
  <2>1. m \in Nat /\ \A i \in 1 .. m : i \in 1 .. N
    OBVIOUS
  <2>2. \A i \in 1 .. m : i - 1 \in A => i \in A
    BY <1>8, <2>1
  <2> QED BY <1>7, <2>1, <2>2, UpTo
<1> QED BY <1>1, <1>2, <1>5, <1>6, <1>9 DEF A

(* Nothing complete, all is left; one more complete, its bytes less.        *)
LEMMA LeftOfNone ==
  ASSUME Lay!FilesetAssumption
  PROVE  LeftOf({}) = Lay!TSize
<1>1. PICK N \in Nat, t \in Nat : N = Lay!NPieces /\ t = Lay!TSize
  BY PieceIs, FilesInOrder
<1>2. PICK s : s = LeftBy({})
  OBVIOUS
<1>3. s[0] = 0 /\ \A m \in 1 .. N : m - 1 \in Lay!FilePieces /\ s[m] = s[m - 1] + Lay!PieceLength(m - 1)
  BY <1>1, <1>2, LeftByIs
<1>4. Lay!Addr(0) = 0
  <2>1. PieceLen \in Nat
    BY DEF Lay!FilesetAssumption
  <2> QED BY <2>1 DEF Lay!Addr
<1> DEFINE A == {m \in Nat : s[m] = IF m < N THEN Lay!Addr(m) ELSE t}
<1>5. 0 \in A
  <2>1. N = 0 => t = 0
    BY <1>1, PieceIs
  <2> QED BY <1>3, <1>4, <2>1
<1>6. ASSUME NEW m \in 1 .. N, m - 1 \in A PROVE m \in A
  <2>1. PICK n \in Nat : n = m - 1 /\ n < N /\ m = n + 1
    OBVIOUS
  <2>2. n \in Lay!FilePieces /\ s[m] = s[n] + Lay!PieceLength(n)
    BY <1>3, <2>1
  <2>3. s[n] = Lay!Addr(n)
    BY <1>6, <2>1
  <2>4. /\ Lay!Addr(n + 1) = Lay!Addr(n) + PieceLen
        /\ IF n < N - 1 THEN Lay!PieceLength(n) = PieceLen ELSE Lay!Addr(n) + Lay!PieceLength(n) = t
    BY <1>1, <2>2, PieceIs
  <2>5. n < N - 1 <=> m < N
    BY <2>1
  <2>6. s[m] = IF m < N THEN Lay!Addr(m) ELSE t
    BY ONLY <2>1, <2>2, <2>3, <2>4, <2>5
  <2> QED BY <2>6
<1> HIDE DEF A
<1>7. N \in A
  BY <1>5, <1>6, UpTo
<1> QED BY <1>1, <1>2, <1>7 DEF A, LeftOf

LEMMA LeftOfMore ==
  ASSUME Lay!FilesetAssumption, NEW C, NEW p \in Lay!FilePieces, p \notin C
  PROVE  LeftOf(C \cup {p}) = LeftOf(C) - Lay!PieceLength(p)
<1>1. PICK N \in Nat : N = Lay!NPieces
  BY PieceIs
<1>2. PICK s, u : s = LeftBy(C) /\ u = LeftBy(C \cup {p})
  OBVIOUS
<1>3. p \in Nat /\ p < N
  BY <1>1, PieceIs
<1>4. PICK l \in Nat : l = Lay!PieceLength(p)
  BY PieceIs
<1>5. /\ s[0] = 0 /\ \A m \in 1 .. N : s[m] = s[m - 1] + IF m - 1 \in C THEN 0 ELSE Lay!PieceLength(m - 1)
      /\ u[0] = 0 /\ \A m \in 1 .. N : u[m] = u[m - 1] + IF m - 1 \in C \cup {p} THEN 0 ELSE Lay!PieceLength(m - 1)
      /\ \A m \in 0 .. N : s[m] \in Nat
      /\ \A m \in 1 .. N : m - 1 \in Lay!FilePieces
  BY <1>1, <1>2, LeftByIs
<1> DEFINE A == {m \in Nat : u[m] = s[m] - IF p < m THEN l ELSE 0}
<1>6. 0 \in A
  <2>1. ~(p < 0)
    BY <1>3
  <2> QED BY <1>5, <2>1
<1>7. ASSUME NEW m \in 1 .. N, m - 1 \in A PROVE m \in A
  <2>1. PICK n \in Nat : n = m - 1 /\ m = n + 1
    OBVIOUS
  <2>2. PICK e \in Nat : e = Lay!PieceLength(n)
    BY <1>5, <2>1, PieceIs
  <2>3. PICK a \in Nat, c \in Int : a = s[n] /\ c = u[n]
    <3>1. n \in 0 .. N /\ s[n] \in Nat
      BY <1>5, <2>1
    <3>2. u[n] = s[n] - IF p < n THEN l ELSE 0
      BY <1>7, <2>1
    <3> QED BY <3>1, <3>2
  <2>4. c = a - IF p < n THEN l ELSE 0
    BY <1>7, <2>1, <2>3
  <2>5. s[m] = a + IF n \in C THEN 0 ELSE e
    BY <1>5, <2>1, <2>2, <2>3
  <2>6. u[m] = c + IF n \in C \cup {p} THEN 0 ELSE e
    BY <1>5, <2>1, <2>2, <2>3
  <2>7. u[m] = s[m] - IF p < m THEN l ELSE 0
    <3>1. CASE n = p
      <4>1. e = l /\ n \notin C /\ n \in C \cup {p} /\ ~(p < n) /\ p < m
        BY <1>3, <1>4, <2>1, <2>2, <3>1
      <4> QED BY <2>4, <2>5, <2>6, <4>1
    <3>2. CASE n # p
      <4>1. (n \in C \cup {p} <=> n \in C) /\ (p < n <=> p < m)
        BY <1>3, <2>1, <3>2
      <4>2. CASE n \in C
        BY <2>4, <2>5, <2>6, <4>1, <4>2
      <4>3. CASE n \notin C
        BY <2>4, <2>5, <2>6, <4>1, <4>3
      <4> QED BY <4>2, <4>3
    <3> QED BY <3>1, <3>2
  <2> QED BY <2>7
<1> HIDE DEF A
<1>8. N \in A
  BY <1>6, <1>7, UpTo
<1> QED BY <1>1, <1>2, <1>3, <1>4, <1>8 DEF A, LeftOf

LEMMA LeftOfRange ==
  ASSUME Lay!FilesetAssumption, NEW C
  PROVE  LeftOf(C) \in 0 .. Lay!TSize
<1>1. PICK N \in Nat, t \in Nat : N = Lay!NPieces /\ t = Lay!TSize
  BY PieceIs, FilesInOrder
<1>2. PICK s, u : s = LeftBy(C) /\ u = LeftBy({})
  OBVIOUS
<1>3. /\ s[0] = 0 /\ \A m \in 1 .. N : s[m] = s[m - 1] + IF m - 1 \in C THEN 0 ELSE Lay!PieceLength(m - 1)
      /\ u[0] = 0 /\ \A m \in 1 .. N : u[m] = u[m - 1] + Lay!PieceLength(m - 1)
      /\ \A m \in 0 .. N : s[m] \in Nat /\ u[m] \in Nat
      /\ \A m \in 1 .. N : m - 1 \in Lay!FilePieces
  BY <1>1, <1>2, LeftByIs
<1> DEFINE A == {m \in Nat : s[m] <= u[m]}
<1>4. 0 \in A
  BY <1>3
<1>5. ASSUME NEW m \in 1 .. N, m - 1 \in A PROVE m \in A
  <2>1. PICK n \in Nat : n = m - 1 /\ n \in 0 .. N
    OBVIOUS
  <2>2. PICK e \in Nat, a \in Nat, c \in Nat : e = Lay!PieceLength(n) /\ a = s[n] /\ c = u[n]
    BY <1>3, <2>1, PieceIs
  <2>3. a <= c
    BY <1>5, <2>1, <2>2
  <2>4. s[m] = (a + IF n \in C THEN 0 ELSE e) /\ u[m] = c + e
    BY <1>3, <2>1, <2>2
  <2>5. s[m] <= u[m]
    BY <2>3, <2>4
  <2> QED BY <2>5
<1> HIDE DEF A
<1>6. N \in A
  BY <1>4, <1>5, UpTo
<1>7. s[N] <= u[N] /\ s[N] \in Nat /\ N \in 0 .. N
  BY <1>3, <1>6 DEF A
<1>8. u[N] = t
  BY <1>1, <1>2, LeftOfNone DEF LeftOf
<1> QED BY <1>1, <1>2, <1>7, <1>8 DEF LeftOf

(* What ctx_loadfile() has found after n pieces: those it takes for         *)
(* complete are, and of files that are all there it has missed none.        *)
Found(S, n) ==
  /\ DOMAIN S = {"completed", "requested", "interested", "left", "errno", "next"}
  /\ S.completed \subseteq S.requested /\ S.requested \subseteq Lay!FilePieces
  /\ S.interested \subseteq Lay!FilePieces
  /\ \A p \in S.completed : p < n /\ PieceLaid(disk, p)
  /\ S.left = LeftOf(S.completed)
  /\ S.errno # "ENOENT" =>
       S.next = 0 /\ \A p \in Lay!FilePieces : p < n /\ PieceLaid(disk, p) => p \in S.completed

LEMMA PieceRead ==
  ASSUME Lay!FilesetAssumption, NEW d, Filled(d), NEW n \in Lay!FilePieces,
         NEW r, r = Lay!ReadBuf(d, Lay!Addr(n), Lay!PieceLength(n))
  PROVE  PieceLaid(d, n) <=> r.ok /\ r.buf = Lay!Right(Lay!Addr(n), Lay!PieceLength(n))
<1>1. PICK a \in Nat, l \in Nat \ {0} : a = Lay!Addr(n) /\ l = Lay!PieceLength(n) /\ a + l <= Lay!TSize
  BY PieceIs
<1>2. Laid(d, a, l) <=> Lay!ReadBuf(d, a, l).ok /\ Lay!ReadBuf(d, a, l).buf = Lay!Right(a, l)
  BY <1>1, ReadIsLaid
<1> QED BY <1>1, <1>2 DEF PieceLaid

LEMMA ReviewFinds ==
  ASSUME Lay!FilesetAssumption, Filled(disk), NEW n \in Lay!FilePieces, NEW S, Found(S, n)
  PROVE  Found(Lay!Review(S, n), n + 1)
<1>1. PICK r : r = Lay!ReadBuf(disk, Lay!Addr(n), Lay!PieceLength(n))
  OBVIOUS
<1>2. PieceLaid(disk, n) <=> r.ok /\ r.buf = Lay!Right(Lay!Addr(n), Lay!PieceLength(n))
  BY <1>1, PieceRead
<1>3. PICK e, i, T : /\ e = (IF r.enoent THEN "ENOENT" ELSE S.errno)
                     /\ i = (IF e = "ENOENT" /\ (Lay!StartOf(Lay!FindFile(n)) + Lens[Lay!FindFile(n)]) \div PieceLen > n
                             THEN (Lay!StartOf(Lay!FindFile(n)) + Lens[Lay!FindFile(n)]) \div PieceLen + 1 ELSE S.next)
                     /\ T = Lay!Review(S, n)
  OBVIOUS
<1>4. T = IF n < S.next THEN S
          ELSE IF ~r.ok THEN [S EXCEPT !.errno = e, !.next = i]
          ELSE IF r.buf # Lay!Right(Lay!Addr(n), Lay!PieceLength(n)) THEN S
          ELSE [S EXCEPT !.completed = @ \cup {n}, !.requested = @ \cup {n},
                         !.interested = @ \ {n}, !.left = @ - Lay!PieceLength(n)]
  BY <1>1, <1>3, Zenon DEF Lay!Review
<1>5. n \in Nat /\ \A p \in Lay!FilePieces : p \in Nat /\ (p < n + 1 <=> p < n \/ p = n)
  <2>1. \A p \in Lay!FilePieces : p \in Nat
    BY PieceIs
  <2> QED BY <2>1
<1>6. \A p \in S.completed : p < n + 1 /\ PieceLaid(disk, p)
  BY <1>5 DEF Found
<1>7. n \notin S.completed
  <2>1. ~(n < n)
    BY <1>5
  <2> QED BY <2>1 DEF Found
<1>8. CASE n < S.next
  <2>1. T = S
    BY <1>4, <1>8
  <2>2. S.errno = "ENOENT"
    BY <1>5, <1>8 DEF Found
  <2>3. Found(S, n + 1)
    BY <1>6, <2>2 DEF Found
  <2> QED BY <1>3, <2>1, <2>3
<1>9. CASE ~(n < S.next) /\ ~r.ok
  <2>1. T = [S EXCEPT !.errno = e, !.next = i]
    BY <1>4, <1>9
  <2>2. /\ DOMAIN T = DOMAIN S /\ T.completed = S.completed /\ T.requested = S.requested
        /\ T.interested = S.interested /\ T.left = S.left /\ T.errno = e /\ T.next = i
    BY <2>1 DEF Found
  <2>3. e # "ENOENT" => i = S.next /\ S.errno # "ENOENT"
    BY <1>3
  <2>4. e # "ENOENT" => i = 0 /\ \A p \in Lay!FilePieces : p < n + 1 /\ PieceLaid(disk, p) => p \in S.completed
    BY <1>2, <1>5, <1>9, <2>3 DEF Found
  <2>5. Found(T, n + 1)
    BY <1>6, <2>2, <2>4 DEF Found
  <2> QED BY <1>3, <2>5
<1>10. CASE ~(n < S.next) /\ r.ok /\ r.buf # Lay!Right(Lay!Addr(n), Lay!PieceLength(n))
  <2>1. T = S
    BY <1>4, <1>10
  <2>2. S.errno # "ENOENT" =>
          S.next = 0 /\ \A p \in Lay!FilePieces : p < n + 1 /\ PieceLaid(disk, p) => p \in S.completed
    BY <1>2, <1>5, <1>10 DEF Found
  <2>3. Found(S, n + 1)
    BY <1>6, <2>2 DEF Found
  <2> QED BY <1>3, <2>1, <2>3
<1>11. CASE ~(n < S.next) /\ r.ok /\ r.buf = Lay!Right(Lay!Addr(n), Lay!PieceLength(n))
  <2>1. T = [S EXCEPT !.completed = @ \cup {n}, !.requested = @ \cup {n},
                      !.interested = @ \ {n}, !.left = @ - Lay!PieceLength(n)]
    BY <1>4, <1>11
  <2>2. /\ DOMAIN T = DOMAIN S /\ T.completed = S.completed \cup {n} /\ T.requested = S.requested \cup {n}
        /\ T.interested = S.interested \ {n} /\ T.left = S.left - Lay!PieceLength(n)
        /\ T.errno = S.errno /\ T.next = S.next
    BY <2>1 DEF Found
  <2>3. T.left = LeftOf(T.completed)
    BY <1>7, <2>2, LeftOfMore DEF Found
  <2>4. S.errno # "ENOENT" =>
          S.next = 0 /\ \A p \in Lay!FilePieces : p < n + 1 /\ PieceLaid(disk, p) => p \in T.completed
    BY <1>5, <2>2 DEF Found
  <2>5. \A p \in T.completed : p < n + 1 /\ PieceLaid(disk, p)
    BY <1>2, <1>5, <1>6, <1>11, <2>2
  <2>6. T.completed \subseteq T.requested /\ T.requested \subseteq Lay!FilePieces /\ T.interested \subseteq Lay!FilePieces
    BY <2>2 DEF Found
  <2>7. DOMAIN T = {"completed", "requested", "interested", "left", "errno", "next"}
    BY <2>2 DEF Found
  <2>8. Found(T, n + 1)
    BY <2>2, <2>3, <2>4, <2>5, <2>6, <2>7 DEF Found
  <2> QED BY <1>3, <2>8
<1> QED BY <1>8, <1>9, <1>10, <1>11

(* All its turns.                                                           *)
Begin(e) == [completed |-> {}, requested |-> {}, interested |-> Lay!FilePieces,
             left |-> Lay!TSize, errno |-> e, next |-> 0]

Turns(s, e, n) == s = [m \in 0 .. n |-> IF m = 0 THEN Begin(e) ELSE Lay!Review(s[m - 1], m - 1)]

LEMMA TurnsExist ==
  ASSUME NEW n \in Nat, NEW e
  PROVE  \E s : Turns(s, e, n)
<1> DEFINE A == {m \in Nat : \E s : Turns(s, e, m)}
<1>1. 0 \in A
  <2>1. Turns([m \in 0 .. 0 |-> Begin(e)], e, 0)
    BY DEF Turns
  <2> QED BY <2>1
<1>2. ASSUME NEW m \in 1 .. n, m - 1 \in A
      PROVE  m \in A
  <2>1. PICK s : Turns(s, e, m - 1)
    BY <1>2
  <2> DEFINE h == [i \in 0 .. m |-> IF i # m THEN s[i] ELSE Lay!Review(s[m - 1], m - 1)]
  <2>2. ASSUME NEW i \in 0 .. m
        PROVE  h[i] = IF i = 0 THEN Begin(e) ELSE Lay!Review(h[i - 1], i - 1)
    <3>1. CASE i = m
      <4>1. m - 1 \in 0 .. m /\ m - 1 # m /\ m # 0 /\ m \in 0 .. m
        OBVIOUS
      <4> QED BY <3>1, <4>1
    <3>2. CASE i # m
      <4>1. i \in 0 .. m - 1
        BY <3>2
      <4>2. h[i] = s[i] /\ s[i] = IF i = 0 THEN Begin(e) ELSE Lay!Review(s[i - 1], i - 1)
        BY <2>1, <3>2, <4>1 DEF Turns
      <4>3. i # 0 => i - 1 \in 0 .. m /\ i - 1 # m
        BY <4>1
      <4> QED BY <4>2, <4>3
    <3> QED BY <3>1, <3>2
  <2>3. h = [i \in 0 .. m |-> h[i]]
    OBVIOUS
  <2> HIDE DEF h
  <2>4. Turns(h, e, m)
    BY <2>2, <2>3 DEF Turns
  <2> QED BY <2>4
<1> HIDE DEF A
<1>3. n \in A
  BY <1>1, <1>2, UpTo
<1> QED BY <1>3 DEF A

TurnsOf(e) == CHOOSE t : Turns(t, e, Lay!NPieces)

LEMMA LoadFinds ==
  ASSUME Lay!FilesetAssumption, Filled(disk), NEW e, Lay!Load(e)
  PROVE  \E S : /\ Found(S, Lay!NPieces) /\ fs' = [n \in DOMAIN fs |-> S[n]]
                /\ ~running /\ running' = TRUE /\ disk' = disk
<1>1. PICK N \in Nat : N = Lay!NPieces
  BY PieceIs
<1>2. PICK s : s = TurnsOf(e)
  OBVIOUS
<1>3. Turns(s, e, N)
  <2>1. Turns(s, e, Lay!NPieces)
    BY <1>2, TurnsExist, PieceIs DEF TurnsOf
  <2> QED BY <1>1, <2>1
<1>4. fs' = [n \in DOMAIN fs |-> s[N][n]] /\ ~running /\ running' = TRUE /\ disk' = disk
  <2>1. fs' = [n \in DOMAIN fs |-> TurnsOf(e)[Lay!NPieces][n]]
    BY Zenon DEF Lay!Load, TurnsOf, Turns, Begin
  <2>2. ~running /\ running' = TRUE /\ disk' = disk
    BY DEF Lay!Load
  <2>3. fs' = [n \in DOMAIN fs |-> s[Lay!NPieces][n]]
    BY <1>2, <2>1
  <2> QED BY <1>1, <2>2, <2>3
<1>5. s[0] = Begin(e) /\ \A m \in 1 .. N : s[m] = Lay!Review(s[m - 1], m - 1)
  <2>1. \A m \in 0 .. N : s[m] = IF m = 0 THEN Begin(e) ELSE Lay!Review(s[m - 1], m - 1)
    BY <1>3 DEF Turns
  <2>2. 0 \in 0 .. N /\ \A m \in 1 .. N : m \in 0 .. N /\ m # 0
    OBVIOUS
  <2> QED BY <2>1, <2>2
<1> DEFINE A == {m \in Nat : Found(s[m], m)}
<1>6. 0 \in A
  <2>1. PICK T : T = Begin(e)
    OBVIOUS
  <2>2. /\ DOMAIN T = {"completed", "requested", "interested", "left", "errno", "next"}
        /\ T.completed = {} /\ T.requested = {} /\ T.interested = Lay!FilePieces /\ T.left = Lay!TSize /\ T.next = 0
    BY <2>1 DEF Begin
  <2>3. T.left = LeftOf(T.completed)
    BY <2>2, LeftOfNone
  <2>4. \A p \in Lay!FilePieces : ~(p < 0)
    BY PieceIs
  <2>5. Found(T, 0)
    BY <2>2, <2>3, <2>4 DEF Found
  <2> QED BY <1>5, <2>1, <2>5
<1>7. ASSUME NEW m \in 1 .. N, m - 1 \in A PROVE m \in A
  <2>1. PICK n \in Nat : n = m - 1 /\ m = n + 1 /\ n \in Lay!FilePieces
    BY <1>1 DEF Lay!FilePieces
  <2>2. Found(s[n], n)
    BY <1>7, <2>1
  <2>3. Found(Lay!Review(s[n], n), n + 1)
    BY <2>1, <2>2, ReviewFinds
  <2>4. s[m] = Lay!Review(s[n], n)
    BY <1>5, <2>1
  <2> QED BY <2>1, <2>3, <2>4
<1> HIDE DEF A
<1>8. N \in A
  BY <1>6, <1>7, UpTo
<1>9. Found(s[N], N)
  BY <1>8 DEF A
<1> QED BY <1>1, <1>4, <1>9

(* seg_markFile() marks pieces of the torrent only.                         *)
LEMMA BelowDiv ==
  ASSUME NEW l \in Nat \ {0}, NEW u \in Nat, NEW p \in Nat
  PROVE  p <= u \div l <=> p * l <= u
<1>1. PICK q \in Nat, r \in 0 .. l - 1 : q = u \div l /\ u = q * l + r
  <2>1. u \div l \in Nat /\ u % l \in 0 .. l - 1 /\ u = l * (u \div l) + (u % l)
    OBVIOUS
  <2>2. l * (u \div l) = (u \div l) * l
    BY <2>1
  <2> QED BY <2>1, <2>2
<1>2. CASE p <= q
  <2>1. PICK j \in Nat : q = p + j
    <3>1. q - p \in Nat /\ q = p + (q - p)
      BY <1>2
    <3> QED BY <3>1
  <2>2. q * l = p * l + j * l /\ p * l \in Nat /\ j * l \in Nat
    BY <2>1
  <2> QED BY <1>1, <1>2, <2>2
<1>3. CASE ~(p <= q)
  <2>1. PICK j \in Nat : p = q + 1 + j
    <3>1. p - q - 1 \in Nat /\ p = q + 1 + (p - q - 1)
      BY <1>3
    <3> QED BY <3>1
  <2>2. p * l = q * l + l + j * l /\ q * l \in Nat /\ j * l \in Nat
    BY <2>1
  <2>3. ~(p * l <= u)
    BY <1>1, <2>2
  <2> QED BY <1>1, <1>3, <2>3
<1> QED BY <1>2, <1>3

LEMMA TouchedIs ==
  ASSUME Lay!FilesetAssumption, NEW f \in Lay!Files
  PROVE  Lay!Touched(f) \subseteq Lay!FilePieces
<1>1. PICK l \in Nat \ {0}, t \in Nat, N \in Nat : l = PieceLen /\ t = Lay!TSize /\ N = Lay!NPieces
  BY FilesInOrder, PieceIs DEF Lay!FilesetAssumption
<1>2. PICK s \in Nat, e \in Nat : s = Lay!StartOf(f) /\ e = Lay!StartOf(f) + Lens[f] /\ e <= t
  <2>1. Lay!StartOf(f) \in Nat /\ Lens[f] \in Nat /\ Lay!StartOf(f) + Lens[f] <= Lay!TSize
    BY StartIs, FilesInOrder
  <2> QED BY <1>1, <2>1
<1>3. SUFFICES ASSUME NEW p \in (s \div l) .. ((e - 1) \div l) PROVE p \in 0 .. N - 1
  <2>1. Lay!Touched(f) = (s \div l) .. ((e - 1) \div l)
    <3>1. Lay!Touched(f) = (Lay!StartOf(f) \div PieceLen) .. ((Lay!StartOf(f) + Lens[f] - 1) \div PieceLen)
      BY Zenon DEF Lay!Touched
    <3>2. Lay!StartOf(f) + Lens[f] - 1 = e - 1
      <4>1. Lay!StartOf(f) \in Nat /\ Lens[f] \in Nat
        BY StartIs
      <4> QED BY <1>2, <4>1
    <3> QED BY <1>1, <1>2, <3>1, <3>2, Zenon
  <2>2. Lay!FilePieces = 0 .. N - 1
    BY <1>1 DEF Lay!FilePieces
  <2> QED BY <1>3, <2>1, <2>2
<1>4. s \div l \in Nat
  OBVIOUS
<1>5. p \in Nat
  BY <1>4
<1>6. e # 0
  <2>1. SUFFICES ASSUME e = 0 PROVE FALSE
    OBVIOUS
  <2>2. (0 - 1) \div l < 0
    OBVIOUS
  <2> QED BY <1>5, <2>1, <2>2
<1>7. PICK u \in Nat : u = e - 1
  BY <1>6
<1>8. p <= u \div l
  BY <1>7
<1>9. p * l <= u
  BY <1>5, <1>8, BelowDiv
<1>10. PICK m \in Nat, i \in Nat : m = p * l /\ i = p + 1 /\ (p + 1) * l = p * l + l
  BY <1>5
<1>11. PICK v \in Nat : v = t + l - 1
  OBVIOUS
<1>12. i * l <= v
  BY <1>2, <1>7, <1>9, <1>10, <1>11
<1>13. i <= v \div l
  BY <1>12, BelowDiv
<1>14. N = v \div l
  BY <1>1, <1>11 DEF Lay!NPieces
<1> QED BY <1>5, <1>10, <1>13, <1>14

LEMMA LeftRightIs ==
  Lay!LeftRight <=> (running => fs.left = LeftOf(fs.completed))
BY Zenon DEF Lay!LeftRight, LeftOf, LeftBy, Lefts

(* The files and the sets of pieces: while btget runs, what it takes for    *)
(* complete is laid in the files.                                           *)
Sorted(S) ==
  /\ DOMAIN S = {"completed", "requested", "interested", "left", "errno"}
  /\ S.completed \subseteq S.requested /\ S.requested \subseteq Lay!FilePieces
  /\ S.interested \subseteq Lay!FilePieces
  /\ S.left \in 0 .. Lay!TSize

Kept(d, S) == S.left = LeftOf(S.completed) /\ \A p \in S.completed : PieceLaid(d, p)

FilesInv ==
  /\ Filled(disk) /\ Sorted(fs)
  /\ running => Kept(disk, fs)

LEMMA FilesInit ==
  ASSUME Lay!FilesetAssumption, Lay!Init
  PROVE  FilesInv
<1>1. Filled(disk)
  <2>1. disk = [f \in Lay!Files |-> [there |-> FALSE, data |-> <<>>]]
    BY DEF Lay!Init
  <2>2. \A f \in Lay!Files : Lens[f] \in Nat
    BY StartIs
  <2> QED BY <2>1, <2>2 DEF Filled
<1>2. Sorted(fs)
  <2>1. fs = [completed |-> {}, requested |-> {}, interested |-> {}, left |-> 0, errno |-> "none"]
    BY DEF Lay!Init
  <2>2. Lay!TSize \in Nat
    BY FilesInOrder
  <2> QED BY <2>1, <2>2 DEF Sorted
<1> QED BY <1>1, <1>2 DEF FilesInv, Lay!Init

LEMMA FinishLaid ==
  ASSUME Lay!FilesetAssumption, FilesInv, NEW piece \in Lay!FilePieces, Lay!Finish(piece)
  PROVE  FilesInv'
<1>1. /\ running /\ running' = running /\ piece \notin fs.completed
      /\ disk' = Lay!Written(disk, piece, Len(Lens))
  BY DEF Lay!Finish
<1>2. /\ DOMAIN fs' = DOMAIN fs /\ fs'.completed = fs.completed \cup {piece}
      /\ fs'.requested = fs.requested \cup {piece} /\ fs'.interested = fs.interested \ {piece}
      /\ fs'.left = fs.left - Lay!PieceLength(piece)
  <2>1. fs' = [fs EXCEPT !.completed = @ \cup {piece}, !.requested = @ \cup {piece},
                         !.interested = @ \ {piece}, !.left = @ - Lay!PieceLength(piece)]
    BY DEF Lay!Finish
  <2> QED BY <2>1 DEF FilesInv, Sorted
<1>3. fs'.left = LeftOf(fs'.completed)
  BY <1>1, <1>2, LeftOfMore DEF FilesInv, Kept
<1>4. Sorted(fs')
  <2>1. fs'.left \in 0 .. Lay!TSize
    BY <1>3, LeftOfRange
  <2> QED BY <1>2, <2>1 DEF FilesInv, Sorted
<1>5. \A p \in fs'.completed : PieceLaid(disk', p)
  <2>1. PieceLaid(disk', piece)
    BY <1>1, WrittenLaid DEF FilesInv
  <2>2. ASSUME NEW p \in fs.completed PROVE PieceLaid(disk', p)
    <3>1. p \in Lay!FilePieces /\ p # piece /\ PieceLaid(disk, p)
      BY <1>1 DEF FilesInv, Sorted, Kept
    <3> QED BY <1>1, <3>1, OthersLaid DEF FilesInv
  <2> QED BY <1>2, <2>1, <2>2
<1>6. Filled(disk')
  BY <1>1, SegWriteIs DEF FilesInv
<1> QED BY <1>3, <1>4, <1>5, <1>6 DEF FilesInv, Kept

LEMMA StopKeeps ==
  ASSUME Lay!FilesetAssumption, FilesInv, Lay!Stop
  PROVE  FilesInv'
<1>1. running' = FALSE /\ fs' = fs
  BY DEF Lay!Stop
<1>2. Filled(disk')
  <2>1. CASE disk' = disk
    BY <2>1 DEF FilesInv
  <2>2. CASE \E piece \in fs.interested \ fs.completed, f \in Lay!Files : disk' = Lay!Written(disk, piece, f)
    <3>1. PICK piece \in fs.interested, f \in Lay!Files : disk' = Lay!Written(disk, piece, f)
      BY <2>2
    <3>2. piece \in Lay!FilePieces
      BY DEF FilesInv, Sorted
    <3> QED BY <3>1, <3>2, SegWriteIs DEF FilesInv
  <2> QED BY <2>1, <2>2 DEF Lay!Stop
<1> QED BY <1>1, <1>2 DEF FilesInv

LEMMA HarmKeeps ==
  ASSUME Lay!FilesetAssumption, FilesInv, NEW f \in Lay!Files, Lay!Harm(f)
  PROVE  FilesInv'
<1>2. ~running' /\ fs' = fs
  BY DEF Lay!Harm
<1>3. PICK D : D = -1 .. Lay!TSize - 1
  OBVIOUS
<1>4. PICK data \in Seq(D), there \in BOOLEAN : data = disk[f].data /\ there = disk[f].there /\ Len(data) <= Lens[f]
                                               /\ disk[f] = [there |-> there, data |-> data]
  BY <1>3 DEF FilesInv, Filled
<1>5. Lens[f] \in Nat
  BY StartIs
<1>6. SUFFICES \E r \in [there : BOOLEAN, data : Seq(D)] : Len(r.data) <= Lens[f] /\ disk' = [disk EXCEPT ![f] = r]
  <2>1. PICK r \in [there : BOOLEAN, data : Seq(D)] : Len(r.data) <= Lens[f] /\ disk' = [disk EXCEPT ![f] = r]
    BY <1>6
  <2>2. Filled(disk')
    BY <1>3, <2>1 DEF FilesInv, Filled
  <2> QED BY <1>2, <2>2 DEF FilesInv
<1>7. CASE disk' = [disk EXCEPT ![f] = [there |-> FALSE, data |-> <<>>]]
  <2>1. [there |-> FALSE, data |-> <<>>] \in [there : BOOLEAN, data : Seq(D)] /\ Len(<<>>) <= Lens[f]
    BY <1>5
  <2> QED BY <1>7, <2>1
<1>8. CASE disk[f].data # <<>> /\ disk' = [disk EXCEPT ![f].data = Lay!Front(@)]
  <2>1. PICK k \in Nat : k = Len(data) - 1
    BY <1>4, <1>8, EmptySeq
  <2>2. PICK u : u = SubSeq(data, 1, k)
    OBVIOUS
  <2>3. u \in Seq(D) /\ Len(u) = k
    BY <1>4, <2>1, <2>2
  <2>4. Lay!Front(data) = u
    BY <2>1, <2>2 DEF Lay!Front
  <2>5. disk' = [disk EXCEPT ![f] = [there |-> there, data |-> u]]
    <3>1. disk' = [disk EXCEPT ![f] = [disk[f] EXCEPT !.data = Lay!Front(disk[f].data)]]
      BY <1>8
    <3>2. [disk[f] EXCEPT !.data = Lay!Front(disk[f].data)] = [there |-> there, data |-> u]
      BY <1>4, <2>4
    <3> QED BY <3>1, <3>2
  <2>6. [there |-> there, data |-> u] \in [there : BOOLEAN, data : Seq(D)] /\ Len(u) <= Lens[f]
    BY <1>4, <1>5, <2>1, <2>3
  <2> QED BY <2>5, <2>6
<1>9. CASE \E i \in DOMAIN disk[f].data : disk' = [disk EXCEPT ![f].data[i] = Lay!Junk]
  <2>1. PICK i \in DOMAIN data : disk' = [disk EXCEPT ![f].data[i] = Lay!Junk]
    BY <1>4, <1>9
  <2>2. PICK u : u = [data EXCEPT ![i] = -1]
    OBVIOUS
  <2>3. -1 \in D
    BY <1>3, FilesInOrder
  <2>4. u \in Seq(D) /\ Len(u) = Len(data)
    BY <2>1, <2>2, <2>3
  <2>5. disk' = [disk EXCEPT ![f] = [there |-> there, data |-> u]]
    <3>1. disk' = [disk EXCEPT ![f] = [disk[f] EXCEPT !.data = [disk[f].data EXCEPT ![i] = -1]]]
      BY <2>1 DEF Lay!Junk
    <3>0. [disk[f].data EXCEPT ![i] = -1] = u
      BY <1>4, <2>2
    <3>2. [disk[f] EXCEPT !.data = [disk[f].data EXCEPT ![i] = -1]] = [there |-> there, data |-> u]
      <4>1. \A v : [disk[f] EXCEPT !.data = v] = [there |-> there, data |-> v]
        BY <1>4
      <4> QED BY <3>0, <4>1, Zenon
    <3> QED BY <3>1, <3>2
  <2>6. [there |-> there, data |-> u] \in [there : BOOLEAN, data : Seq(D)] /\ Len(u) <= Lens[f]
    BY <1>4, <2>4
  <2> QED BY <2>5, <2>6
<1> QED BY <1>7, <1>8, <1>9 DEF Lay!Harm

LEMMA LoadKeeps ==
  ASSUME Lay!FilesetAssumption, FilesInv, NEW e, Lay!Load(e)
  PROVE  /\ FilesInv'
         /\ fs'.errno # "ENOENT" => \A p \in Lay!FilePieces : PieceLaid(disk, p) => p \in fs'.completed
<1>1. PICK S : /\ Found(S, Lay!NPieces) /\ fs' = [n \in DOMAIN fs |-> S[n]] /\ disk' = disk
  BY LoadFinds DEF FilesInv
<1>2. /\ DOMAIN fs' = DOMAIN fs
      /\ fs'.completed = S.completed /\ fs'.requested = S.requested /\ fs'.interested = S.interested
      /\ fs'.left = S.left /\ fs'.errno = S.errno
  BY <1>1 DEF FilesInv, Sorted
<1>3. fs'.left \in 0 .. Lay!TSize
  BY <1>1, <1>2, LeftOfRange DEF Found
<1>4. Sorted(fs')
  BY <1>1, <1>2, <1>3 DEF FilesInv, Sorted, Found
<1>5. Kept(disk', fs')
  BY <1>1, <1>2 DEF Kept, Found
<1>6. \A p \in Lay!FilePieces : p < Lay!NPieces
  BY PieceIs
<1>7. fs'.errno # "ENOENT" => \A p \in Lay!FilePieces : PieceLaid(disk, p) => p \in fs'.completed
  BY <1>1, <1>2, <1>6 DEF Found
<1> QED BY <1>1, <1>4, <1>5, <1>7 DEF FilesInv

LEMMA MarkFileKeeps ==
  ASSUME Lay!FilesetAssumption, FilesInv, NEW wanted \in SUBSET Lay!Files, Lay!MarkFile(wanted)
  PROVE  FilesInv'
<1>1. disk' = disk /\ running' = running
  BY DEF Lay!MarkFile
<1>2. PICK I : I = UNION {Lay!Touched(f) : f \in wanted}
  OBVIOUS
<1>3. I \subseteq Lay!FilePieces
  BY <1>2, TouchedIs
<1>4. fs' = [fs EXCEPT !.interested = I]
  BY <1>2 DEF Lay!MarkFile
<1>5. /\ DOMAIN fs' = DOMAIN fs /\ fs'.completed = fs.completed /\ fs'.requested = fs.requested
      /\ fs'.interested = I /\ fs'.left = fs.left
  BY <1>4 DEF FilesInv, Sorted
<1> QED BY <1>1, <1>3, <1>5 DEF FilesInv, Sorted, Kept

LEMMA FilesNext ==
  ASSUME Lay!FilesetAssumption, FilesInv, [Lay!Next]_(Lay!vars)
  PROVE  FilesInv'
<1>1. CASE UNCHANGED Lay!vars
  BY <1>1 DEF FilesInv, Lay!vars, Filled, Sorted, Kept, PieceLaid, Laid, Stored
<1>2. CASE Lay!Next
  <2>1. CASE \E piece \in Lay!FilePieces : Lay!Finish(piece)
    <3>1. PICK piece \in Lay!FilePieces : Lay!Finish(piece)
      BY <2>1
    <3> QED BY <3>1, FinishLaid
  <2>2. CASE Lay!Stop
    BY <2>2, StopKeeps
  <2>3. CASE \E f \in Lay!Files : Lay!Harm(f)
    BY <2>3, HarmKeeps
  <2>4. CASE \E errno \in {"none", "ENOENT"} : Lay!Load(errno)
    BY <2>4, LoadKeeps
  <2>5. CASE \E wanted \in SUBSET Lay!Files : wanted # {} /\ Lay!MarkFile(wanted)
    BY <2>5, MarkFileKeeps
  <2> QED BY <1>2, <2>1, <2>2, <2>3, <2>4, <2>5 DEF Lay!Next
<1> QED BY <1>1, <1>2

LEMMA FilesSound ==
  ASSUME Lay!FilesetAssumption, FilesInv
  PROVE  Lay!TypeOK /\ Lay!ReadsBack /\ Lay!LeftRight
<1>1. Lay!TypeOK
  BY DEF FilesInv, Filled, Sorted, Lay!TypeOK
<1>2. Lay!LeftRight
  BY LeftRightIs DEF FilesInv, Kept
<1>3. Lay!ReadsBack
  <2> SUFFICES ASSUME running, NEW piece \in fs.completed,
                      NEW start \in 0 .. Lay!PieceLength(piece) - 1, NEW len \in 1 .. Lay!PieceLength(piece) - start
               PROVE  /\ Lay!ReadBuf(disk, Lay!Addr(piece) + start, len).ok
                      /\ Lay!ReadBuf(disk, Lay!Addr(piece) + start, len).buf = Lay!Right(Lay!Addr(piece) + start, len)
    BY Zenon DEF Lay!ReadsBack
  <2>1. piece \in Lay!FilePieces /\ PieceLaid(disk, piece)
    BY DEF FilesInv, Sorted, Kept
  <2>2. PICK b \in Nat, l \in Nat \ {0}, t \in Nat : b = Lay!Addr(piece) /\ l = Lay!PieceLength(piece) /\ t = Lay!TSize /\ b + l <= t
    BY <2>1, PieceIs, FilesInOrder
  <2>3. start \in 0 .. l - 1 /\ len \in 1 .. l - start
    BY <2>2
  <2>4. Laid(disk, b, l)
    BY <2>1, <2>2 DEF PieceLaid
  <2>5. Laid(disk, b + start, len)
    BY <2>2, <2>3, <2>4, LaidWithin
  <2>6. PICK a \in Nat : a = b + start /\ a + len <= Lay!TSize /\ len \in Nat \ {0}
    BY <2>2, <2>3
  <2>7. Lay!ReadBuf(disk, a, len).ok /\ Lay!ReadBuf(disk, a, len).buf = Lay!Right(a, len)
    BY <2>5, <2>6, ReadIsLaid DEF FilesInv
  <2> QED BY <2>2, <2>6, <2>7
<1> QED BY <1>1, <1>2, <1>3

LEMMA RightKeeps ==
  ASSUME Lay!FilesetAssumption, FilesInv, [Lay!Next]_(Lay!vars)
  PROVE  Lay!RightKept
<1> SUFFICES ASSUME ~running, running', fs'.errno # "ENOENT", NEW n \in Lay!FilePieces,
                    Lay!ReadBuf(disk, Lay!Addr(n), Lay!PieceLength(n)).ok,
                    Lay!ReadBuf(disk, Lay!Addr(n), Lay!PieceLength(n)).buf = Lay!Right(Lay!Addr(n), Lay!PieceLength(n))
             PROVE  n \in fs'.completed
  BY Zenon DEF Lay!RightKept
<1>1. PieceLaid(disk, n)
  BY PieceRead DEF FilesInv
<1>2. PICK e : Lay!Load(e)
  BY Zenon DEF Lay!Next, Lay!vars, Lay!Finish, Lay!Stop, Lay!Harm, Lay!MarkFile
<1> QED BY <1>1, <1>2, LoadKeeps

(* Whatever the lengths of the files and of a piece, however often btget    *)
(* starts and dies between two files of a piece, and whatever happens to    *)
(* its files meanwhile: any block of a piece it takes for complete is read  *)
(* back as it was sent, what it says is left is what is not complete, and a *)
(* start without an error left from before keeps every piece that is right. *)
THEOREM FilesHold ==
  ASSUME Lay!FilesetAssumption
  PROVE  Lay!Spec => /\ [](Lay!TypeOK /\ Lay!ReadsBack /\ Lay!LeftRight)
                     /\ [][Lay!RightKept]_(Lay!vars)
<1>1. Lay!Init => FilesInv
  BY FilesInit
<1>2. FilesInv /\ [Lay!Next]_(Lay!vars) => FilesInv'
  BY FilesNext
<1>3. FilesInv => Lay!TypeOK /\ Lay!ReadsBack /\ Lay!LeftRight
  BY FilesSound
<1>4. FilesInv /\ [Lay!Next]_(Lay!vars) => [Lay!RightKept]_(Lay!vars)
  BY RightKeeps
<1> QED BY <1>1, <1>2, <1>3, <1>4, PTL DEF Lay!Spec
=============================================================================
