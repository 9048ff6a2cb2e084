----------------------------- MODULE PartsProofs -----------------------------
(***************************************************************************)
(* Proofs about six parts: a bucket under any calls, for any ids, any K    *)
(* and any times; libbt's table of sockets (StatusMap), for any number of  *)
(* sockets and connections; libbt's ring of requests (ReqQueue), of any    *)
(* size; the answers to queries over a bucket (Kquery); pingd's pings over *)
(* a bucket (Kpingd), for any window and any answers; and the start of the *)
(* node with its daemons (Kboot), for any session and any answers.         *)
(***************************************************************************)
EXTENDS KbucketSpec, KbucketProofs

-----------------------------------------------------------------------------
(* A bucket. *)

(* What every call leaves: a sound bucket, and of who failed no backup.     *)
BucketInv ==
  /\ SoundBucket(bucket, Ids, Hosts) /\ clock \in Nat
  /\ call \in [op : {"none", "update", "failed", "ping"}, id : Ids \cup {NullId}]
  /\ call.op = "failed" => WithoutId(bucket.backups, call.id)

LEMMA BucketInit == KbucketAssumption /\ Init => BucketInv
<1> SUFFICES ASSUME KbucketAssumption, Init PROVE BucketInv
  OBVIOUS
<1>1. SoundBucket(bucket, Ids, Hosts)
  BY EmptyBucketSound DEF KbucketAssumption, Init
<1> QED BY <1>1 DEF KbucketAssumption, Init, BucketInv

LEMMA UpdateStep ==
  ASSUME KbucketAssumption, BucketInv, NEW item \in Items, NEW contacted \in BOOLEAN, Update(item, contacted)
  PROVE  BucketInv' /\ UpdateKeeps(bucket, bucket', clock) /\ call'.op = "update"
<1>1. /\ bucket' = UpdateContact(bucket, item, contacted, clock) /\ clock' = clock
      /\ call' = [op |-> "update", id |-> item.id]
  BY DEF Update
<1>2. item \in [id : Ids, host : Hosts] /\ item.id \in Ids
  BY DEF Items
<1>3. SoundBucket(bucket', Ids, Hosts) /\ UpdateKeeps(bucket, bucket', clock)
  BY <1>1, <1>2, UpdateContactSound DEF BucketInv, KbucketAssumption
<1> QED BY <1>1, <1>2, <1>3 DEF BucketInv

LEMMA FailStep ==
  ASSUME KbucketAssumption, BucketInv, NEW item \in Items, Fail(item)
  PROVE  /\ BucketInv' /\ FailedKeeps(bucket, bucket', item, clock)
         /\ call' = [op |-> "failed", id |-> item.id]
<1>1. /\ bucket' = FailedContact(bucket, item, clock) /\ clock' = clock
      /\ call' = [op |-> "failed", id |-> item.id]
  BY DEF Fail
<1>2. item \in [id : Ids, host : Hosts] /\ item.id \in Ids
  BY DEF Items
<1>3. SoundBucket(bucket', Ids, Hosts) /\ FailedKeeps(bucket, bucket', item, clock)
  BY <1>1, <1>2, FailedContactSound DEF BucketInv, KbucketAssumption
<1>4. WithoutId(bucket'.backups, item.id)
  BY <1>3 DEF FailedKeeps
<1> QED BY <1>1, <1>2, <1>3, <1>4 DEF BucketInv

LEMMA PingStep ==
  ASSUME KbucketAssumption, BucketInv, NEW size \in 1 .. K, Ping(size)
  PROVE  /\ BucketInv' /\ call'.op = "ping"
         /\ bucket'.nodes = bucket.nodes /\ bucket'.backups = bucket.backups
<1>1. /\ bucket' = GetPing(bucket, size, clock) /\ clock' = clock
      /\ call' = [op |-> "ping", id |-> NullId]
  BY DEF Ping
<1>2. size \in Nat \ {0}
  BY DEF KbucketAssumption
<1>3. /\ SoundBucket(bucket', Ids, Hosts)
      /\ bucket'.nodes = bucket.nodes /\ bucket'.backups = bucket.backups
  BY <1>1, <1>2, GetPingSound DEF BucketInv
<1> QED BY <1>1, <1>3 DEF BucketInv

(* A node leaves only when it is bad or failed after a long silence.        *)
LEMMA BucketStep ==
  ASSUME KbucketAssumption, BucketInv, Next
  PROVE  BucketInv' /\ DropsForCause /\ ClearsWhenAllGood
<1>1. ASSUME NEW item \in Items, NEW contacted \in BOOLEAN, Update(item, contacted)
      PROVE  BucketInv' /\ DropsForCause /\ ClearsWhenAllGood
  <2>1. BucketInv' /\ UpdateKeeps(bucket, bucket', clock)
    BY <1>1, UpdateStep
  <2>2. DropsForCause
    BY <2>1 DEF UpdateKeeps, DropsForCause, Has
  <2>3. ASSUME bucket.backups # <<>>, bucket'.backups = <<>>, NEW i \in DOMAIN bucket.nodes
        PROVE  bucket.nodes[i].seen # 0 /\ bucket.nodes[i].seen + DoubtAge >= clock
    <3>1. ~IsBad(bucket.nodes[i]) /\ ~IsDoubt(bucket.nodes[i], clock)
      BY <2>1, <2>3 DEF UpdateKeeps
    <3>2. bucket.nodes[i] \in Nodes(Ids, Hosts)
      BY SeqProperties DEF BucketInv, SoundBucket
    <3>3. bucket.nodes[i].seen \in Nat /\ clock \in Nat
      BY <3>2 DEF Nodes, BucketInv
    <3> QED BY <3>1, <3>3, KnodeAssumption DEF IsDoubt
  <2> QED BY <2>1, <2>2, <2>3 DEF ClearsWhenAllGood
<1>2. ASSUME NEW item \in Items, Fail(item)
      PROVE  BucketInv' /\ DropsForCause /\ ClearsWhenAllGood
  <2>1. /\ BucketInv' /\ FailedKeeps(bucket, bucket', item, clock)
        /\ call' = [op |-> "failed", id |-> item.id]
    BY <1>2, FailStep
  <2> QED BY <2>1 DEF FailedKeeps, DropsForCause, ClearsWhenAllGood, Has
<1>3. ASSUME NEW size \in 1 .. K, Ping(size)
      PROVE  BucketInv' /\ DropsForCause /\ ClearsWhenAllGood
  <2>1. /\ BucketInv' /\ call'.op = "ping"
        /\ bucket'.nodes = bucket.nodes /\ bucket'.backups = bucket.backups
    BY <1>3, PingStep
  <2> QED BY <2>1 DEF DropsForCause, ClearsWhenAllGood, Has
<1>4. CASE Tick
  <2>1. bucket' = bucket /\ clock' = clock + 1 /\ call' = [op |-> "none", id |-> NullId]
    BY <1>4 DEF Tick
  <2>2. BucketInv'
    BY <2>1 DEF BucketInv
  <2> QED BY <2>1, <2>2 DEF DropsForCause, ClearsWhenAllGood, Has
<1> QED BY <1>1, <1>2, <1>3, <1>4 DEF Next

LEMMA BucketGives == BucketInv => BucketSound
<1> SUFFICES ASSUME BucketInv PROVE BucketSound
  OBVIOUS
<1>1. TypeOK
  BY DEF BucketInv, SoundBucket, TypeOK, Nodes, Node
<1>2. BackupsDistinct /\ NoEmptyNode /\ NotItsOwnBackup
  BY DEF BucketInv, SoundBucket, Distinct, WithoutId, BackupsDistinct, NoEmptyNode, NotItsOwnBackup, Has
<1> QED BY <1>1, <1>2 DEF BucketSound

(* Whatever contacts, failures and pings come: no empty node, no id twice   *)
(* among the backups, nobody who failed left as a backup (kbucket.cc).      *)
THEOREM BucketSoundHolds ==
  ASSUME KbucketAssumption
  PROVE  Spec => []BucketSound
<1>1. Init => BucketInv
  BY BucketInit
<1>2. BucketInv /\ [Next]_vars => BucketInv'
  BY BucketStep DEF vars, BucketInv
<1>3. BucketInv => BucketSound
  BY BucketGives
<1> QED BY <1>1, <1>2, <1>3, PTL DEF Spec

(* A node leaves its bucket only when it is bad or failed after a long      *)
(* silence, and the backups are dropped only when every node of the bucket  *)
(* answered recently (kbucket.cc, update_contact, failed_contact).          *)
THEOREM BucketKeepsHolds ==
  ASSUME KbucketAssumption
  PROVE  Spec => BucketKeeps
<1>1. Init => BucketInv
  BY BucketInit
<1>2. BucketInv /\ [Next]_vars => BucketInv' /\ [DropsForCause /\ ClearsWhenAllGood]_vars
  BY BucketStep DEF vars, BucketInv
<1> QED BY <1>1, <1>2, PTL DEF Spec, BucketKeeps

-----------------------------------------------------------------------------
(* The table of poll(). *)

CONSTANTS SOCKID_MAX, MAXCONN, Refused

VARIABLES status, statmap, sockpeer, xset, fds, at, died

Table == INSTANCE StatusMap

SockIds == 0 .. SOCKID_MAX - 1
PollEntry == [fd : SockIds, events : SUBSET {"IN", "OUT"}, revents : SUBSET {"IN", "OUT", "HUP"}]

(* The map leads from every entry's socket back to it.                      *)
InStep(T) ==
  /\ T = [status |-> T.status, statmap |-> T.statmap]
  /\ T.status \in Seq(PollEntry)
  /\ T.statmap = [f \in SockIds \cup {SOCKID_MAX} |-> T.statmap[f]]
  /\ \A i \in DOMAIN T.status : T.statmap[T.status[i].fd] = i - 1

Polled(T) == {T.status[i].fd : i \in DOMAIN T.status}
Peered(sp) == {fd \in SockIds : sp[fd] # "none"}

(* An entry waits for what its connection needs, and reports no more input. *)
Waits(e, sp) ==
  /\ IF e.fd # 0 /\ sp[e.fd] = "init" THEN e.events = {"OUT"} ELSE "IN" \in e.events
  /\ "IN" \in e.revents => "IN" \in e.events

(* The table, whom it is for, who has work to do and the sockets open;      *)
(* the entries of the sockets in C are being changed.                       *)
Tidy(T, sp, x, f, C) ==
  /\ InStep(T) /\ Len(T.status) <= MAXCONN
  /\ sp \in [SockIds -> {"none", "init", "live", "error"}] /\ sp[0] = "none"
  /\ Polled(T) = {0} \cup Peered(sp) /\ f = {0} \cup Peered(sp) /\ x \subseteq Peered(sp)
  /\ \A i \in DOMAIN T.status : T.status[i].fd \notin C => Waits(T.status[i], sp)

LEMMA EntryOf ==
  ASSUME NEW T, NEW sp, NEW x, NEW f, NEW C, Tidy(T, sp, x, f, C), NEW cs \in {0} \cup Peered(sp)
  PROVE  \E i \in DOMAIN T.status : T.status[i].fd = cs /\ T.statmap[cs] + 1 = i /\ T.statmap[cs] # -1
<1>1. PICK i \in DOMAIN T.status : T.status[i].fd = cs
  BY DEF Tidy, Polled
<1>2. T.status \in Seq(PollEntry) /\ T.statmap[cs] = i - 1
  BY <1>1 DEF Tidy, InStep
<1>3. i \in 1 .. Len(T.status)
  BY <1>2
<1> QED BY <1>1, <1>2, <1>3

(* An entry gets other events.                                              *)
Waiting(T, i, E, n, U) ==
  /\ InStep(T) /\ i \in DOMAIN T.status /\ E \in SUBSET {"IN", "OUT"}
  /\ n = [T.status EXCEPT ![i].events = E] /\ U = [T EXCEPT !.status = n]

LEMMA Changed ==
  ASSUME NEW T, NEW i, NEW E, NEW n, NEW U, Waiting(T, i, E, n, U)
  PROVE  /\ InStep(U) /\ Len(U.status) = Len(T.status) /\ DOMAIN U.status = DOMAIN T.status
         /\ Polled(U) = Polled(T) /\ U.statmap = T.statmap
         /\ \A j \in DOMAIN T.status : j # i => U.status[j] = T.status[j]
         /\ U.status[i].fd = T.status[i].fd /\ U.status[i].events = E
         /\ U.status[i].revents = T.status[i].revents
<1>0. InStep(T) /\ i \in DOMAIN T.status /\ E \in SUBSET {"IN", "OUT"}
    /\ n = [T.status EXCEPT ![i].events = E] /\ U = [T EXCEPT !.status = n]
  BY DEF Waiting
<1>1. /\ T.status \in Seq(PollEntry) /\ T.status[i] \in PollEntry
      /\ T = [status |-> T.status, statmap |-> T.statmap]
  BY <1>0 DEF InStep
<1>2. PICK e : e = [T.status[i] EXCEPT !.events = E]
  OBVIOUS
<1>3. /\ e \in PollEntry /\ e.fd = T.status[i].fd /\ e.events = E
      /\ e.revents = T.status[i].revents
  BY <1>0, <1>1, <1>2 DEF PollEntry
<1>4. n = [T.status EXCEPT ![i] = e]
  BY <1>0, <1>1, <1>2
<1>5. /\ n \in Seq(PollEntry) /\ Len(n) = Len(T.status) /\ DOMAIN n = DOMAIN T.status
      /\ n[i] = e /\ \A j \in DOMAIN T.status : j # i => n[j] = T.status[j]
  <2>1. i \in DOMAIN T.status
    BY <1>0
  <2> QED BY <1>1, <1>3, <1>4, <2>1, ExceptProperties
<1>6. U = [status |-> n, statmap |-> T.statmap] /\ U.status = n /\ U.statmap = T.statmap
  BY <1>0, <1>1
<1>7. \A j \in DOMAIN T.status : n[j].fd = T.status[j].fd
  BY <1>3, <1>5
<1>8. InStep(U)
  BY <1>0, <1>5, <1>6, <1>7 DEF InStep
<1>9. Polled(U) = Polled(T)
  BY <1>5, <1>6, <1>7 DEF Polled
<1> QED BY <1>0, <1>3, <1>5, <1>6, <1>8, <1>9

LEMMA Stepped ==
  ASSUME NEW T, InStep(T)
  PROVE  /\ T.status \in Seq(PollEntry) /\ Len(T.status) \in Nat /\ DOMAIN T.status = 1 .. Len(T.status)
         /\ \A i \in DOMAIN T.status : T.statmap[T.status[i].fd] = i - 1 /\ T.status[i] \in PollEntry
         /\ \A i \in DOMAIN T.status : T.status[i].fd \in SockIds /\ T.status[i].fd # SOCKID_MAX
         /\ T.statmap = [f \in SockIds \cup {SOCKID_MAX} |-> T.statmap[f]]
         /\ T = [status |-> T.status, statmap |-> T.statmap]
<1>1. \A e \in PollEntry : e.fd \in SockIds /\ e.fd # SOCKID_MAX
  BY DEF PollEntry, SockIds
<1> QED BY <1>1, SeqProperties DEF InStep

LEMMA Joined ==
  ASSUME NEW S, NEW a \in Seq(S), NEW b \in Seq(S)
  PROVE  /\ a \o b \in Seq(S) /\ Len(a \o b) = Len(a) + Len(b)
         /\ \A i \in 1 .. Len(a) : (a \o b)[i] = a[i]
         /\ \A i \in 1 .. Len(b) : (a \o b)[Len(a) + i] = b[i]
OBVIOUS

LEMMA RemoveAtIs ==
  ASSUME NEW S, NEW s \in Seq(S), NEW k \in 1 .. Len(s)
  PROVE  /\ Table!RemoveAt(s, k) \in Seq(S) /\ Len(Table!RemoveAt(s, k)) = Len(s) - 1
         /\ \A i \in 1 .. k-1 : Table!RemoveAt(s, k)[i] = s[i]
         /\ \A i \in k .. Len(s)-1 : Table!RemoveAt(s, k)[i] = s[i + 1]
<1> DEFINE a == SubSeq(s, 1, k - 1)
           b == SubSeq(s, k + 1, Len(s))
<1>1. a \in Seq(S) /\ Len(a) = k - 1 /\ \A i \in 1 .. k-1 : a[i] = s[i]
  OBVIOUS
<1>2. b \in Seq(S) /\ Len(b) = Len(s) - k /\ \A i \in 1 .. Len(s)-k : b[i] = s[k + i]
  OBVIOUS
<1>3. Table!RemoveAt(s, k) = a \o b
  BY DEF Table!RemoveAt
<1> HIDE DEF a, b
<1>4. ASSUME NEW i \in k .. Len(s)-1
      PROVE  (a \o b)[i] = s[i + 1]
  <2>1. PICK j : j = i - (k - 1)
    OBVIOUS
  <2>2. j \in 1 .. Len(b) /\ j \in 1 .. Len(s)-k /\ Len(a) + j = i /\ k + j = i + 1
    BY <1>1, <1>2, <2>1
  <2>3. (a \o b)[Len(a) + j] = b[j]
    BY <1>1, <1>2, <2>2, Joined
  <2> QED BY <1>2, <2>2, <2>3
<1>5. a \o b \in Seq(S) /\ Len(a \o b) = Len(s) - 1 /\ \A i \in 1 .. k-1 : (a \o b)[i] = a[i]
  <2>1. a \o b \in Seq(S) /\ Len(a \o b) = Len(a) + Len(b) /\ \A i \in 1 .. Len(a) : (a \o b)[i] = a[i]
    BY ZenonT(60), <1>1, <1>2, Joined
  <2>2. Len(a) + Len(b) = Len(s) - 1
    BY <1>1, <1>2
  <2> QED BY <1>1, <2>1, <2>2
<1> QED BY <1>1, <1>3, <1>4, <1>5

(* In U the k-th entry of T is set to, or cleared of, the events ev: E.    *)
Tuned(T, k, cs, ev, U, E) ==
  /\ InStep(T) /\ k \in DOMAIN T.status /\ cs = T.status[k].fd /\ E \in SUBSET {"IN", "OUT"}
  /\ \/ U = Table!SetEvents(T, cs, ev) /\ E = T.status[k].events \cup ev
     \/ U = Table!ClrEvents(T, cs, ev) /\ E = T.status[k].events \ ev

LEMMA TunedIs ==
  ASSUME NEW T, NEW i, NEW cs, NEW ev, NEW U, NEW E, Tuned(T, i, cs, ev, U, E)
  PROVE  /\ InStep(U) /\ Len(U.status) = Len(T.status) /\ DOMAIN U.status = DOMAIN T.status
         /\ Polled(U) = Polled(T) /\ U.statmap = T.statmap
         /\ \A j \in DOMAIN T.status : j # i => U.status[j] = T.status[j]
         /\ U.status[i].fd = cs /\ U.status[i].events = E
         /\ U.status[i].revents = T.status[i].revents
<1>1. /\ InStep(T) /\ i \in DOMAIN T.status /\ cs = T.status[i].fd /\ E \in SUBSET {"IN", "OUT"}
      /\ \/ U = Table!SetEvents(T, cs, ev) /\ E = T.status[i].events \cup ev
         \/ U = Table!ClrEvents(T, cs, ev) /\ E = T.status[i].events \ ev
  BY DEF Tuned
<1>0. T.statmap[cs] + 1 = i
  <2>1. i \in 1 .. Len(T.status) /\ T.statmap[cs] = i - 1 /\ Len(T.status) \in Nat
    BY <1>1, Stepped
  <2> QED BY <2>1
<1>2. PICK n : Waiting(T, i, E, n, U)
  <2>2. T = [status |-> T.status, statmap |-> T.statmap] /\ T.status \in Seq(PollEntry)
    BY <1>1 DEF InStep
  <2>3. PICK n : n = [T.status EXCEPT ![i].events = E]
    OBVIOUS
  <2>4. U = [T EXCEPT !.status = n]
    BY <1>0, <1>1, <2>2, <2>3 DEF Table!SetEvents, Table!ClrEvents
  <2> QED BY <1>1, <2>3, <2>4 DEF Waiting
<1>3. /\ InStep(U) /\ Len(U.status) = Len(T.status) /\ DOMAIN U.status = DOMAIN T.status
      /\ Polled(U) = Polled(T) /\ U.statmap = T.statmap
      /\ \A j \in DOMAIN T.status : j # i => U.status[j] = T.status[j]
      /\ U.status[i].fd = T.status[i].fd /\ U.status[i].events = E
      /\ U.status[i].revents = T.status[i].revents
  BY <1>2, Changed
<1> QED BY <1>1, <1>3

(* The k-th entry of T, that of cs, is gone in U.                           *)
Dropped(T, k, cs, U) ==
  InStep(T) /\ k \in DOMAIN T.status /\ cs = T.status[k].fd /\ U = Table!DelStatus(T, cs)

LEMMA Removed ==
  ASSUME NEW T, NEW k, NEW cs, NEW U, Dropped(T, k, cs, U)
  PROVE  /\ InStep(U) /\ Len(U.status) = Len(T.status) - 1
         /\ Polled(U) = Polled(T) \ {cs}
         /\ \A j \in DOMAIN U.status : \E i \in DOMAIN T.status : i # k /\ U.status[j] = T.status[i]
<1>0. InStep(T) /\ k \in DOMAIN T.status /\ cs = T.status[k].fd /\ U = Table!DelStatus(T, cs)
  BY DEF Dropped
<1>1. /\ T.status \in Seq(PollEntry) /\ T.statmap[cs] = k - 1 /\ k \in 1 .. Len(T.status)
      /\ Len(T.status) \in Nat /\ DOMAIN T.status = 1 .. Len(T.status)
      /\ \A i \in DOMAIN T.status : T.statmap[T.status[i].fd] = i - 1
      /\ T.statmap = [f \in SockIds \cup {SOCKID_MAX} |-> T.statmap[f]]
  BY <1>0, Stepped
<1>2. PICK s : s = Table!RemoveAt(T.status, k)
  OBVIOUS
<1>3. /\ s \in Seq(PollEntry) /\ Len(s) = Len(T.status) - 1 /\ DOMAIN s = 1 .. Len(T.status) - 1
      /\ \A i \in 1 .. k-1 : s[i] = T.status[i]
      /\ \A i \in k .. Len(T.status) - 1 : s[i] = T.status[i + 1]
  <2>1. /\ s \in Seq(PollEntry) /\ Len(s) = Len(T.status) - 1
        /\ \A i \in 1 .. k-1 : s[i] = T.status[i]
        /\ \A i \in k .. Len(T.status) - 1 : s[i] = T.status[i + 1]
    BY <1>1, <1>2, RemoveAtIs
  <2>2. DOMAIN s = 1 .. Len(s)
    BY <2>1
  <2> QED BY <2>1, <2>2
<1>4. PICK m : m = [f \in SockIds \cup {SOCKID_MAX} |->
                      IF f # SOCKID_MAX /\ T.statmap[f] > k - 1 THEN T.statmap[f] - 1 ELSE T.statmap[f]]
  OBVIOUS
<1>5. U = [status |-> s, statmap |-> m] /\ U.status = s /\ U.statmap = m
  <2>1. T.statmap[cs] + 1 = k /\ DOMAIN T.statmap = SockIds \cup {SOCKID_MAX}
    BY <1>1
  <2> QED BY <1>1, <1>0, <1>2, <1>4, <2>1 DEF Table!DelStatus, Table!TMPLOC
<1>6. \A i \in DOMAIN T.status : T.status[i].fd \in SockIds /\ T.status[i].fd # SOCKID_MAX
  BY <1>0, Stepped
<1>7. \A j \in 1 .. Len(T.status) - 1 : \E i \in DOMAIN T.status :
        i # k /\ s[j] = T.status[i] /\ i = (IF j < k THEN j ELSE j + 1)
  <2> TAKE j \in 1 .. Len(T.status) - 1
  <2>1. CASE j < k
    <3>1. j \in 1 .. k-1 /\ j \in DOMAIN T.status /\ j # k
      BY <1>1, <2>1
    <3> QED BY <1>3, <2>1, <3>1
  <2>2. CASE ~(j < k)
    <3>1. j \in k .. Len(T.status) - 1 /\ j + 1 \in DOMAIN T.status /\ j + 1 # k
      BY <1>1, <2>2
    <3> QED BY <1>3, <2>2, <3>1
  <2> QED BY <2>1, <2>2
<1>8. \A j \in DOMAIN s : m[s[j].fd] = j - 1
  <2> TAKE j \in DOMAIN s
  <2>1. PICK i \in DOMAIN T.status : i # k /\ s[j] = T.status[i] /\ i = (IF j < k THEN j ELSE j + 1)
    BY <1>3, <1>7
  <2>2. T.status[i].fd \in SockIds /\ T.status[i].fd # SOCKID_MAX /\ T.statmap[T.status[i].fd] = i - 1
    BY <1>1, <1>6
  <2>3. m[T.status[i].fd] = IF i - 1 > k - 1 THEN i - 2 ELSE i - 1
    BY SMTT(30), <1>1, <1>4, <2>2
  <2> QED BY <1>1, <1>3, <2>1, <2>3
<1>9. InStep(U)
  BY <1>3, <1>4, <1>5, <1>8 DEF InStep
<1>10. Polled(U) = Polled(T) \ {cs}
  <2>1. ASSUME NEW j \in DOMAIN s
        PROVE  s[j].fd \in Polled(T) \ {cs}
    <3>1. PICK i \in DOMAIN T.status : i # k /\ s[j] = T.status[i]
      BY <1>3, <1>7
    <3>2. T.status[i].fd # cs
      <4>1. T.statmap[T.status[i].fd] = i - 1
        BY <1>1
      <4>2. i \in Nat /\ k \in Nat
        BY <1>1
      <4>3. i - 1 # k - 1
        BY <3>1, <4>2
      <4> QED BY <1>1, <4>1, <4>3
    <3> QED BY <3>1, <3>2 DEF Polled
  <2>2. ASSUME NEW i \in DOMAIN T.status, T.status[i].fd # cs
        PROVE  \E j \in DOMAIN s : s[j] = T.status[i]
    <3>1. i # k
      BY <1>0, <2>2
    <3>2. CASE i < k
      <4>1. i \in 1 .. k-1 /\ i \in 1 .. Len(T.status) - 1
        BY <1>1, <3>2
      <4> QED BY <1>3, <4>1
    <3>3. CASE i > k
      <4>1. i - 1 \in k .. Len(T.status) - 1 /\ i - 1 \in 1 .. Len(T.status) - 1 /\ (i - 1) + 1 = i
        BY <1>1, <3>3
      <4> QED BY <1>3, <4>1
    <3> QED BY <1>1, <3>1, <3>2, <3>3
  <2> QED BY <1>5, <2>1, <2>2 DEF Polled
<1> QED BY <1>3, <1>5, <1>7, <1>9, <1>10

LEMMA SeqEqual ==
  ASSUME NEW S, NEW a \in Seq(S), NEW b \in Seq(S), Len(a) = Len(b),
         \A i \in 1 .. Len(a) : a[i] = b[i]
  PROVE  a = b
<1>1. /\ Len(a) \in Nat /\ a = [i \in 1 .. Len(a) |-> a[i]]
      /\ b = [i \in 1 .. Len(a) |-> b[i]]
  OBVIOUS
<1> QED BY <1>1

(* In c the last entry of s with t behind it is e instead.                  *)
Instead(c, s, t, e) ==
  \E a, n : a = Append(s, t) /\ n = Len(s) + 1 /\ c = [a EXCEPT ![n] = e]

LEMMA LastReplaced ==
  ASSUME NEW S, NEW s \in Seq(S), NEW t \in S, NEW e \in S, NEW c, Instead(c, s, t, e)
  PROVE  c = Append(s, e)
<1>1. PICK a, b, n : /\ a = Append(s, t) /\ n = Len(s) + 1 /\ c = [a EXCEPT ![n] = e]
                     /\ b = Append(s, e)
  BY DEF Instead
<1>2. /\ a \in Seq(S) /\ b \in Seq(S) /\ Len(a) = n /\ Len(b) = n /\ n \in DOMAIN a
      /\ b[n] = e /\ \A i \in 1 .. Len(s) : a[i] = s[i] /\ b[i] = s[i]
  BY <1>1, AppendProperties
<1>3. c = [a EXCEPT ![n] = e]
  BY <1>1
<1>4. c \in Seq(S) /\ Len(c) = n /\ c[n] = e /\ \A i \in DOMAIN a : i # n => c[i] = a[i]
  BY <1>2, <1>3, ExceptProperties
<1>5. DOMAIN a = 1 .. n /\ \A i \in 1 .. n : i # n => i \in 1 .. Len(s)
  BY <1>1, <1>2
<1>6. \A i \in 1 .. n : c[i] = b[i]
  BY <1>2, <1>4, <1>5
<1>7. c = b
  BY <1>2, <1>4, <1>6, SeqEqual
<1> QED BY <1>1, <1>7

(* A new entry, and one that was under TMPLOC.                              *)
LEMMA Added ==
  ASSUME NEW T, InStep(T), NEW cs \in SockIds, cs \notin Polled(T),
         NEW U, U = Table!AddStatus(T, cs) \/ U = Table!FixTmp(Table!AddStatus(T, SOCKID_MAX), cs)
  PROVE  /\ InStep(U) /\ Len(U.status) = Len(T.status) + 1
         /\ Polled(U) = Polled(T) \cup {cs}
         /\ \A i \in DOMAIN T.status : i \in DOMAIN U.status /\ U.status[i] = T.status[i]
         /\ \A i \in DOMAIN U.status : i \in DOMAIN T.status \/ i = Len(T.status) + 1
         /\ Len(T.status) + 1 \in DOMAIN U.status
         /\ U.status[Len(T.status) + 1] = [fd |-> cs, events |-> {}, revents |-> {}]
<1>1. /\ T.status \in Seq(PollEntry) /\ Len(T.status) \in Nat /\ DOMAIN T.status = 1 .. Len(T.status)
      /\ \A i \in DOMAIN T.status : T.statmap[T.status[i].fd] = i - 1 /\ T.status[i].fd \in SockIds
      /\ T.statmap = [f \in SockIds \cup {SOCKID_MAX} |-> T.statmap[f]]
      /\ T = [status |-> T.status, statmap |-> T.statmap]
  BY Stepped
<1>2. PICK n, e, s, m : n = Len(T.status) /\ e = [fd |-> cs, events |-> {}, revents |-> {}]
                     /\ s = U.status /\ m = U.statmap
  OBVIOUS
<1>3. e \in PollEntry /\ cs # SOCKID_MAX
  BY <1>2 DEF PollEntry, SockIds
<1>4. /\ U = [status |-> s, statmap |-> m] /\ s = Append(T.status, e)
      /\ m = [f \in SockIds \cup {SOCKID_MAX} |-> m[f]] /\ m[cs] = n
      /\ \A f \in SockIds : f # cs => m[f] = T.statmap[f]
  <2>1. CASE U = Table!AddStatus(T, cs)
    BY <1>1, <1>2, <2>1 DEF Table!AddStatus, Table!Entry
  <2>2. CASE U = Table!FixTmp(Table!AddStatus(T, SOCKID_MAX), cs)
    <3>1. PICK V, t : V = Table!AddStatus(T, SOCKID_MAX) /\ t = [fd |-> SOCKID_MAX, events |-> {}, revents |-> {}]
      OBVIOUS
    <3>2. PICK l : l = [T.statmap EXCEPT ![SOCKID_MAX] = n]
      OBVIOUS
    <3>3. V.status = Append(T.status, t) /\ V.statmap = l
      BY <1>2, <3>1, <3>2 DEF Table!AddStatus, Table!Entry
    <3>4. l[SOCKID_MAX] = n /\ \A f \in SockIds : f # SOCKID_MAX => l[f] = T.statmap[f]
      BY <1>1, <3>2
    <3>5. /\ DOMAIN V.status = 1 .. n + 1 /\ V.status[n + 1] = t
          /\ \A i \in 1 .. n : V.status[i] = T.status[i]
      BY <1>1, <1>2, <3>3
    <3>6. [V.status EXCEPT ![n + 1].fd = cs] = Append(T.status, e)
      <4>1. [t EXCEPT !.fd = cs] = e
        <5>1. t = [fd |-> SOCKID_MAX, events |-> {}, revents |-> {}]
          BY <3>1
        <5>2. e = [fd |-> cs, events |-> {}, revents |-> {}]
          BY <1>2
        <5> QED BY <5>1, <5>2
      <4>2. [V.status EXCEPT ![n + 1].fd = cs] = [V.status EXCEPT ![n + 1] = e]
        BY <3>5, <4>1
      <4>3. [V.status EXCEPT ![n + 1] = e] = Append(T.status, e)
        <5>1. PICK S : S = PollEntry \cup {t}
          OBVIOUS
        <5>2. T.status \in Seq(S) /\ t \in S /\ e \in S
          BY <1>1, <1>3, <5>1
        <5>3. PICK a, k : a = V.status /\ k = n + 1
          OBVIOUS
        <5>4. PICK c : c = [a EXCEPT ![k] = e]
          OBVIOUS
        <5>5. Instead(c, T.status, t, e)
          BY <1>2, <3>3, <5>3, <5>4 DEF Instead
        <5>6. c = Append(T.status, e)
          BY <5>2, <5>5, LastReplaced
        <5> QED BY <5>3, <5>4, <5>6
      <4> QED BY <4>2, <4>3
    <3>7. U = [status |-> [V.status EXCEPT ![n + 1].fd = cs],
               statmap |-> [V.statmap EXCEPT ![cs] = n, ![SOCKID_MAX] = -1]]
      BY <2>2, <3>1, <3>3, <3>4 DEF Table!FixTmp, Table!TMPLOC
    <3> QED BY <1>1, <1>2, <1>3, <3>2, <3>3, <3>4, <3>6, <3>7
  <2> QED BY <2>1, <2>2
<1>5. /\ s \in Seq(PollEntry) /\ Len(s) = n + 1 /\ DOMAIN s = 1 .. n + 1 /\ s[n + 1] = e
      /\ \A i \in 1 .. n : s[i] = T.status[i]
  BY <1>1, <1>2, <1>3, <1>4, AppendProperties
<1>6. \A i \in 1 .. n : T.status[i].fd # cs /\ T.status[i].fd \in SockIds
  BY <1>1, <1>2 DEF Polled
<1>7. InStep(U)
  <2>1. ASSUME NEW i \in DOMAIN s
        PROVE  m[s[i].fd] = i - 1
    <3>1. CASE i = n + 1
      BY <1>2, <1>4, <1>5, <3>1
    <3>2. CASE i # n + 1
      <4>1. i \in 1 .. n /\ i \in DOMAIN T.status
        BY <1>1, <1>2, <1>5, <3>2
      <4> QED BY ZenonT(60), <1>1, <1>4, <1>5, <1>6, <4>1
    <3> QED BY <3>1, <3>2
  <2> QED BY <1>2, <1>4, <1>5, <2>1 DEF InStep
<1>8. Polled(U) = Polled(T) \cup {cs}
  BY SMTT(30), <1>1, <1>2, <1>5 DEF Polled
<1> QED BY <1>1, <1>2, <1>5, <1>7, <1>8

(* The events of one that is being changed: ev set or cleared, if any.      *)
Tuning(T, i, cs, ev, U, E) ==
  /\ i \in DOMAIN T.status /\ cs = T.status[i].fd /\ ev \in SUBSET {"IN", "OUT"}
  /\ \/ U = T /\ E = T.status[i].events
     \/ U = Table!SetEvents(T, cs, ev) /\ E = T.status[i].events \cup ev
     \/ U = Table!ClrEvents(T, cs, ev) /\ E = T.status[i].events \ ev

LEMMA Retuned ==
  ASSUME NEW T, NEW sp, NEW x, NEW f, NEW C, Tidy(T, sp, x, f, C),
         NEW i, NEW cs \in C, NEW ev, NEW U, NEW E, Tuning(T, i, cs, ev, U, E)
  PROVE  /\ Tidy(U, sp, x, f, C) /\ i \in DOMAIN U.status /\ U.status[i].fd = cs
         /\ U.status[i].events = E /\ U.status[i].revents = T.status[i].revents
<1>0. i \in DOMAIN T.status /\ cs = T.status[i].fd /\ ev \in SUBSET {"IN", "OUT"}
  BY DEF Tuning
<1>1. CASE U = T /\ E = T.status[i].events
  BY <1>0, <1>1
<1>2. CASE ~(U = T /\ E = T.status[i].events)
  <2>1. InStep(T)
    BY DEF Tidy
  <2>2. T.status[i].events \in SUBSET {"IN", "OUT"}
    BY <1>0, <2>1, Stepped DEF PollEntry
  <2>3. E \in SUBSET {"IN", "OUT"}
    BY <1>0, <1>2, <2>2 DEF Tuning
  <2>4. Tuned(T, i, cs, ev, U, E)
    BY <1>0, <1>2, <2>1, <2>3 DEF Tuned, Tuning
  <2>5. /\ InStep(U) /\ Len(U.status) = Len(T.status) /\ DOMAIN U.status = DOMAIN T.status
        /\ Polled(U) = Polled(T)
        /\ \A j \in DOMAIN T.status : j # i => U.status[j] = T.status[j]
        /\ U.status[i].fd = cs /\ U.status[i].events = E
        /\ U.status[i].revents = T.status[i].revents
    BY <2>4, TunedIs
  <2>6. \A j \in DOMAIN U.status : U.status[j].fd \notin C => j # i /\ U.status[j] = T.status[j]
    BY <1>0, <2>5
  <2> QED BY <1>0, <2>5, <2>6, <2>4 DEF Tidy
<1> QED BY <1>1, <1>2

(* A changed connection is in order again.                                  *)
IsNow(T, i, cs, sp, v, tp) ==
  /\ i \in DOMAIN T.status /\ cs = T.status[i].fd /\ cs # 0
  /\ v \in {"init", "live", "error"} /\ tp = [sp EXCEPT ![cs] = v] /\ Waits(T.status[i], tp)

LEMMA Settled ==
  ASSUME NEW T, NEW sp, NEW x, NEW f, NEW C, Tidy(T, sp, x, f, C),
         NEW i, NEW cs, NEW v, NEW tp, IsNow(T, i, cs, sp, v, tp), \A c \in C : c = cs,
         NEW y, \A c \in y : c \in x \/ c = cs,
         NEW D
  PROVE  Tidy(T, tp, y, f, D)
<1> USE DEF IsNow
<1>1. /\ InStep(T) /\ Len(T.status) <= MAXCONN
      /\ sp \in [SockIds -> {"none", "init", "live", "error"}] /\ sp[0] = "none"
      /\ Polled(T) = {0} \cup Peered(sp) /\ f = {0} \cup Peered(sp) /\ x \subseteq Peered(sp)
      /\ \A j \in DOMAIN T.status : T.status[j].fd \notin C => Waits(T.status[j], sp)
  BY DEF Tidy
<1>2. cs \in Peered(sp) /\ cs \in SockIds
  BY <1>1 DEF Polled, Peered
<1>3. /\ tp \in [SockIds -> {"none", "init", "live", "error"}] /\ tp[cs] = v
      /\ \A c \in SockIds : c # cs => tp[c] = sp[c]
  BY <1>1, <1>2
<1>4. Peered(tp) = Peered(sp) /\ tp[0] = "none"
  <2>1. \A c \in SockIds : tp[c] # "none" <=> sp[c] # "none"
    BY <1>2, <1>3 DEF Peered
  <2>2. tp[0] = "none"
    BY <1>1, <1>3
  <2> QED BY <2>1, <2>2 DEF Peered
<1>5. ASSUME NEW j \in DOMAIN T.status
      PROVE  Waits(T.status[j], tp)
  <2>1. T.status[j].fd \in SockIds /\ T.statmap[T.status[j].fd] = j - 1 /\ j \in Nat /\ i \in Nat
        /\ T.statmap[cs] = i - 1
    <3>1. /\ DOMAIN T.status = 1 .. Len(T.status) /\ Len(T.status) \in Nat
          /\ \A k \in DOMAIN T.status : T.statmap[T.status[k].fd] = k - 1 /\ T.status[k].fd \in SockIds
      BY <1>1, Stepped
    <3>2. i \in 1 .. Len(T.status) /\ j \in 1 .. Len(T.status)
      BY <3>1
    <3> QED BY <3>1, <3>2
  <2>2. CASE T.status[j].fd = cs
    <3>1. i = j
      BY <2>1, <2>2
    <3> QED BY <3>1
  <2>3. CASE T.status[j].fd # cs
    <3>1. Waits(T.status[j], sp)
      BY <1>1, <2>3
    <3> QED BY <1>3, <2>1, <2>3, <3>1 DEF Waits
  <2> QED BY <2>2, <2>3
<1>6. y \subseteq Peered(tp)
  BY <1>1, <1>2, <1>4
<1> QED BY <1>1, <1>3, <1>4, <1>5, <1>6 DEF Tidy

(* A connection ends.                                                       *)
Gone(T, sp, f, cs, U, tp, g) ==
  /\ U = (IF T.statmap[cs] # -1 THEN Table!DelStatus(T, cs) ELSE T)
  /\ tp = [sp EXCEPT ![cs] = "none"] /\ g = f \ {cs}

LEMMA Ended ==
  ASSUME MAXCONN \in Nat, NEW T, NEW sp, NEW x, NEW f, NEW C, Tidy(T, sp, x, f, C),
         NEW cs \in Peered(sp), \A c \in C : c = cs,
         NEW U, NEW tp, NEW g, Gone(T, sp, f, cs, U, tp, g),
         NEW y, \A c \in y : c \in x /\ c # cs, NEW D
  PROVE  Tidy(U, tp, y, g, D)
<1>1. /\ InStep(T) /\ Len(T.status) <= MAXCONN
      /\ sp \in [SockIds -> {"none", "init", "live", "error"}] /\ sp[0] = "none"
      /\ Polled(T) = {0} \cup Peered(sp) /\ f = {0} \cup Peered(sp) /\ x \subseteq Peered(sp)
      /\ \A j \in DOMAIN T.status : T.status[j].fd \notin C => Waits(T.status[j], sp)
  BY DEF Tidy
<1>2. cs \in SockIds /\ cs # 0
  BY <1>1 DEF Peered
<1>3. PICK k \in DOMAIN T.status : T.status[k].fd = cs /\ T.statmap[cs] # -1
  BY ZenonT(60), EntryOf
<1>4. U = Table!DelStatus(T, cs)
  BY <1>3 DEF Gone
<1>5. /\ InStep(U) /\ Len(U.status) = Len(T.status) - 1
      /\ Polled(U) = Polled(T) \ {cs}
      /\ \A j \in DOMAIN U.status : \E i \in DOMAIN T.status : i # k /\ U.status[j] = T.status[i]
  <2>1. Dropped(T, k, cs, U)
    BY <1>1, <1>3, <1>4 DEF Dropped
  <2> QED BY <2>1, Removed
<1>6. /\ tp \in [SockIds -> {"none", "init", "live", "error"}] /\ tp[cs] = "none" /\ tp[0] = "none"
      /\ \A c \in SockIds : c # cs => tp[c] = sp[c]
  BY <1>1, <1>2 DEF Gone
<1>7. Peered(tp) = Peered(sp) \ {cs}
  BY <1>2, <1>6 DEF Peered
<1>8. ASSUME NEW j \in DOMAIN U.status
      PROVE  Waits(U.status[j], tp)
  <2>1. PICK i \in DOMAIN T.status : U.status[j] = T.status[i]
    BY <1>5
  <2>2. T.status[i].fd \in SockIds /\ T.status[i].fd # cs
    <3>1. U.status[j].fd \in Polled(U)
      BY DEF Polled
    <3> QED BY <1>1, <1>5, <2>1, <3>1, Stepped
  <2>3. Waits(T.status[i], sp)
    BY <1>1, <2>2
  <2> QED BY <1>6, <2>1, <2>2, <2>3 DEF Waits
<1>9. Len(U.status) <= MAXCONN
  <2>1. Len(T.status) \in Nat
    BY <1>1, Stepped
  <2> QED BY <1>1, <1>5, <2>1
<1> QED BY ZenonT(60), <1>1, <1>2, <1>5, <1>6, <1>7, <1>8, <1>9 DEF Tidy, Gone

(* A connection comes.                                                      *)
New(T, sp, f, cs, v, V, tp, g) ==
  /\ \E U : /\ (U = Table!AddStatus(T, cs) \/ U = Table!FixTmp(Table!AddStatus(T, SOCKID_MAX), cs))
             /\ V = Table!SetEvents(U, cs, IF v = "init" THEN {"OUT"} ELSE {"IN"})
  /\ tp = [sp EXCEPT ![cs] = v] /\ g = f \cup {cs}

LEMMA Came ==
  ASSUME MAXCONN \in Nat, NEW T, NEW sp, NEW x, NEW f, NEW C, Tidy(T, sp, x, f, C), C = {},
         NEW cs \in SockIds, cs \notin f, Len(T.status) < MAXCONN,
         NEW v \in {"init", "live"}, NEW V, NEW tp, NEW g, New(T, sp, f, cs, v, V, tp, g)
  PROVE  Tidy(V, tp, x, g, C)
<1>1. /\ InStep(T) /\ Len(T.status) <= MAXCONN
      /\ sp \in [SockIds -> {"none", "init", "live", "error"}] /\ sp[0] = "none"
      /\ Polled(T) = {0} \cup Peered(sp) /\ f = {0} \cup Peered(sp) /\ x \subseteq Peered(sp)
      /\ \A j \in DOMAIN T.status : Waits(T.status[j], sp)
  BY DEF Tidy
<1>2. PICK n : n = Len(T.status) + 1
  OBVIOUS
<1>11. PICK U, ev :
         /\ U = Table!AddStatus(T, cs) \/ U = Table!FixTmp(Table!AddStatus(T, SOCKID_MAX), cs)
         /\ ev = (IF v = "init" THEN {"OUT"} ELSE {"IN"}) /\ V = Table!SetEvents(U, cs, ev)
  BY DEF New
<1>12. tp = [sp EXCEPT ![cs] = v] /\ g = f \cup {cs}
  BY DEF New
<1>3. /\ InStep(U) /\ Len(U.status) = n
      /\ Polled(U) = Polled(T) \cup {cs}
      /\ \A i \in DOMAIN T.status : i \in DOMAIN U.status /\ U.status[i] = T.status[i]
      /\ \A i \in DOMAIN U.status : i \in DOMAIN T.status \/ i = n
      /\ n \in DOMAIN U.status
      /\ U.status[n] = [fd |-> cs, events |-> {}, revents |-> {}]
  BY <1>1, <1>2, <1>11, Added
<1>4. ev \in SUBSET {"IN", "OUT"} /\ ev = U.status[n].events \cup ev /\ U.status[n].fd = cs
  BY <1>3, <1>11
<1>5. Tuned(U, n, cs, ev, V, ev)
  BY <1>3, <1>4, <1>11 DEF Tuned
<1>6. /\ InStep(V) /\ Len(V.status) = n /\ DOMAIN V.status = DOMAIN U.status
      /\ Polled(V) = Polled(U)
      /\ \A j \in DOMAIN U.status : j # n => V.status[j] = U.status[j]
      /\ V.status[n].fd = cs /\ V.status[n].events = ev /\ V.status[n].revents = {}
  BY <1>3, <1>5, TunedIs
<1>7. /\ tp \in [SockIds -> {"none", "init", "live", "error"}] /\ tp[cs] = v
      /\ \A c \in SockIds : c # cs => tp[c] = sp[c]
  BY <1>1, <1>12
<1>8. Peered(tp) = Peered(sp) \cup {cs} /\ tp[0] = "none"
  <2>1. cs # 0 /\ v # "none"
    BY <1>1
  <2>2. \A c \in SockIds : tp[c] # "none" <=> c = cs \/ sp[c] # "none"
    BY <1>7, <2>1
  <2>3. Peered(tp) = Peered(sp) \cup {cs}
    BY <2>2 DEF Peered
  <2>4. tp[0] = "none"
    BY <1>1, <1>7, <1>12, <2>1
  <2> QED BY <2>3, <2>4
<1>9. ASSUME NEW j \in DOMAIN V.status
      PROVE  Waits(V.status[j], tp)
  <2>1. CASE j = n
    BY <1>1, <1>6, <1>7, <1>11, <2>1 DEF Waits
  <2>2. CASE j # n
    <3>1. j \in DOMAIN T.status /\ V.status[j] = T.status[j]
      BY <1>3, <1>6, <2>2
    <3>2. T.status[j].fd \in Polled(T) /\ T.status[j].fd \in SockIds
      BY <1>1, <3>1, Stepped DEF Polled
    <3>3. T.status[j].fd # cs
      BY <1>1, <3>2
    <3> QED BY <1>1, <1>7, <3>1, <3>2, <3>3 DEF Waits
  <2> QED BY <2>1, <2>2
<1>10. Len(V.status) <= MAXCONN
  <2>1. Len(T.status) \in Nat
    BY <1>1, Stepped
  <2> QED BY <1>2, <1>6, <2>1
<1> QED BY <1>1, <1>3, <1>6, <1>7, <1>8, <1>9, <1>10, <1>12 DEF Tidy

-----------------------------------------------------------------------------
(* The steps of the loop. *)

Phases == {"poll", "execute", "events", "after"}

(* Until an assertion has failed, and only a refused connect makes one      *)
(* fail, the table and all that goes with it are in order.                  *)
MapInv ==
  /\ at \in [phase : Phases, i : Nat] /\ died \in BOOLEAN
  /\ died => Refused /\ at.phase = "after"
  /\ Table!TypeOK
  /\ ~died => Tidy(Table!Table, sockpeer, xset, fds, {})

LEMMA Typed ==
  ASSUME NEW T, NEW sp, NEW x, NEW f, NEW C, Tidy(T, sp, x, f, C), 0 \in SockIds
  PROVE  /\ T.status \in Seq([fd : SockIds \cup {SOCKID_MAX}, events : SUBSET {"IN", "OUT"},
                              revents : SUBSET {"IN", "OUT", "HUP"}])
         /\ Len(T.status) <= MAXCONN /\ x \subseteq SockIds /\ f \subseteq SockIds
<1>1. T.status \in Seq(PollEntry)
  BY DEF Tidy, InStep
<1>2. PICK S : S = [fd : SockIds \cup {SOCKID_MAX}, events : SUBSET {"IN", "OUT"},
                    revents : SUBSET {"IN", "OUT", "HUP"}]
  OBVIOUS
<1>3. \A e \in PollEntry : e \in S
  BY <1>2 DEF PollEntry
<1>4. /\ Len(T.status) \in Nat /\ T.status = [i \in 1 .. Len(T.status) |-> T.status[i]]
      /\ \A i \in 1 .. Len(T.status) : T.status[i] \in PollEntry
  BY <1>1
<1>5. T.status \in Seq(S)
  BY <1>3, <1>4
<1>6. Len(T.status) <= MAXCONN /\ x \subseteq SockIds /\ f \subseteq SockIds
  BY DEF Tidy, Peered
<1> QED BY <1>2, <1>5, <1>6

(* What a step that ends in order leaves.                                   *)
LEMMA StaysInOrder ==
  ASSUME 0 \in SockIds, NEW T, Tidy(T, sockpeer', xset', fds', {}), Table!UseTable(T),
         at' \in [phase : Phases, i : Nat], died' = FALSE
  PROVE  MapInv'
<1>1. Table!Table' = T
  BY DEF Table!Table, Table!UseTable, Tidy, InStep
<1>2. Tidy(Table!Table', sockpeer', xset', fds', {})
  BY <1>1
<1>3. /\ T.status \in Seq([fd : SockIds \cup {SOCKID_MAX}, events : SUBSET {"IN", "OUT"},
                           revents : SUBSET {"IN", "OUT", "HUP"}])
      /\ Len(T.status) <= MAXCONN /\ xset' \subseteq SockIds /\ fds' \subseteq SockIds
  BY Typed
<1>4. Table!TypeOK'
  BY <1>3 DEF Table!TypeOK, Table!UseTable, Table!Sockets, Table!TMPLOC, SockIds
<1> QED BY <1>2, <1>4 DEF MapInv

LEMMA MapInit ==
  ASSUME Table!StatusMapAssumption, Table!Init
  PROVE  MapInv
<1>1. /\ SOCKID_MAX \in Nat /\ SOCKID_MAX > 0 /\ MAXCONN \in Nat /\ MAXCONN > 0 /\ 0 \in SockIds
      /\ 0 # SOCKID_MAX
  BY DEF Table!StatusMapAssumption, SockIds
<1>2. PICK e : e = [fd |-> 0, events |-> {"IN"}, revents |-> {}]
  OBVIOUS
<1>3. status = <<e>> /\ e \in PollEntry
  BY <1>1, <1>2 DEF Table!Init, Table!Entry, Table!ss, PollEntry
<1>4. status \in Seq(PollEntry) /\ Len(status) = 1 /\ status[1] = e /\ DOMAIN status = {1}
  BY <1>3
<1>5. PICK T : T = Table!Table
  OBVIOUS
<1>6. T = [status |-> status, statmap |-> statmap] /\ T.status = status /\ T.statmap = statmap
  BY <1>5 DEF Table!Table
<1>7. /\ statmap = [fd \in SockIds \cup {SOCKID_MAX} |-> IF fd = 0 THEN 0 ELSE -1]
      /\ sockpeer = [fd \in SockIds |-> "none"] /\ xset = {} /\ fds = {0}
      /\ at = [phase |-> "poll", i |-> 0] /\ died = FALSE
  BY DEF Table!Init, Table!Sockets, Table!TMPLOC, Table!ss, SockIds
<1>8. InStep(T)
  BY <1>1, <1>2, <1>4, <1>6, <1>7 DEF InStep
<1>9. Polled(T) = {0} /\ Peered(sockpeer) = {}
  BY <1>2, <1>4, <1>6, <1>7 DEF Polled, Peered
<1>10. Tidy(T, sockpeer, xset, fds, {})
  <2>1. Len(T.status) <= MAXCONN
    <3>1. Len(T.status) = 1
      BY <1>4, <1>6, Zenon
    <3>2. 1 <= MAXCONN
      BY <1>1
    <3> QED BY <3>1, <3>2
  <2>2. sockpeer \in [SockIds -> {"none", "init", "live", "error"}] /\ sockpeer[0] = "none"
    BY <1>1, <1>7
  <2>3. Polled(T) = {0} \cup Peered(sockpeer) /\ fds = {0} \cup Peered(sockpeer) /\ xset \subseteq Peered(sockpeer)
    BY <1>7, <1>9
  <2>4. \A i \in DOMAIN T.status : Waits(T.status[i], sockpeer)
    BY <1>2, <1>4, <1>6, <2>2 DEF Waits
  <2> QED BY <1>8, <2>1, <2>2, <2>3, <2>4 DEF Tidy
<1>11. /\ T.status \in Seq([fd : SockIds \cup {SOCKID_MAX}, events : SUBSET {"IN", "OUT"},
                            revents : SUBSET {"IN", "OUT", "HUP"}])
       /\ Len(T.status) <= MAXCONN /\ xset \subseteq SockIds /\ fds \subseteq SockIds
  BY <1>1, <1>10, Typed
<1>12. Table!TypeOK
  BY <1>6, <1>11 DEF Table!TypeOK, Table!Sockets, Table!TMPLOC, SockIds
<1> QED BY <1>5, <1>7, <1>10, <1>12 DEF MapInv, Phases

LEMMA PollStep ==
  ASSUME Table!StatusMapAssumption, MapInv, Table!Poll
  PROVE  MapInv'
<1>0. 0 \in SockIds /\ ~died /\ died' = FALSE
  BY DEF Table!StatusMapAssumption, SockIds, Table!Poll, MapInv
<1>1. PICK T : T = Table!Table
  OBVIOUS
<1>2. T.status = status /\ T.statmap = statmap /\ Tidy(T, sockpeer, xset, fds, {})
  <2>1. Tidy(T, sockpeer, xset, fds, {})
    BY <1>0, <1>1 DEF MapInv
  <2> QED BY <1>1, <2>1 DEF Table!Table
<1>3. PICK rev \in [DOMAIN status -> SUBSET {"IN", "OUT", "HUP"}] :
        /\ \A i \in DOMAIN status : rev[i] \ {"HUP"} \subseteq status[i].events
        /\ status' = [i \in DOMAIN status |-> [status[i] EXCEPT !.revents = rev[i]]]
  BY DEF Table!Poll
<1>4. /\ status \in Seq(PollEntry) /\ Len(status) \in Nat /\ DOMAIN status = 1 .. Len(status)
      /\ \A i \in DOMAIN status : statmap[status[i].fd] = i - 1 /\ status[i] \in PollEntry
      /\ statmap = [f \in SockIds \cup {SOCKID_MAX} |-> statmap[f]]
  <2>1. InStep(T)
    BY <1>2 DEF Tidy
  <2>2. /\ T.status \in Seq(PollEntry) /\ Len(T.status) \in Nat /\ DOMAIN T.status = 1 .. Len(T.status)
        /\ \A i \in DOMAIN T.status : T.statmap[T.status[i].fd] = i - 1 /\ T.status[i] \in PollEntry
        /\ T.statmap = [f \in SockIds \cup {SOCKID_MAX} |-> T.statmap[f]]
    BY <2>1, Stepped
  <2> QED BY <1>2, <2>2
<1>5. \A i \in DOMAIN status : /\ status'[i] \in PollEntry /\ status'[i].fd = status[i].fd
                               /\ status'[i].events = status[i].events /\ status'[i].revents = rev[i]
  <2> TAKE i \in DOMAIN status
  <2>1. PICK r : r = rev[i] /\ r \in SUBSET {"IN", "OUT", "HUP"}
    BY <1>3
  <2>2. status'[i] = [status[i] EXCEPT !.revents = r]
    BY <1>3, <2>1
  <2>3. status[i] = [fd |-> status[i].fd, events |-> status[i].events, revents |-> status[i].revents]
        /\ status[i].fd \in SockIds /\ status[i].events \in SUBSET {"IN", "OUT"}
    BY <1>4 DEF PollEntry
  <2> QED BY <2>1, <2>2, <2>3 DEF PollEntry
<1>6. /\ status' \in Seq(PollEntry) /\ Len(status') = Len(status) /\ DOMAIN status' = DOMAIN status
  BY <1>3, <1>4, <1>5
<1>7. PICK U : U = [status |-> status', statmap |-> statmap]
  OBVIOUS
<1>8. U.status = status' /\ U.statmap = statmap
  BY <1>7
<1>9. InStep(U)
  <2>1. \A i \in DOMAIN status' : statmap[status'[i].fd] = i - 1
    BY <1>4, <1>5, <1>6
  <2>2. U = [status |-> U.status, statmap |-> U.statmap]
    BY <1>7
  <2>3. U.statmap = [f \in SockIds \cup {SOCKID_MAX} |-> U.statmap[f]]
    BY <1>4, <1>8
  <2> QED BY <1>6, <1>8, <2>1, <2>2, <2>3 DEF InStep
<1>10. Polled(U) = Polled(T)
  BY <1>2, <1>5, <1>6, <1>8 DEF Polled
<1>11. \A i \in DOMAIN status' : Waits(status'[i], sockpeer)
  <2> TAKE i \in DOMAIN status'
  <2>1. i \in DOMAIN status /\ Waits(status[i], sockpeer)
    BY <1>2, <1>6 DEF Tidy
  <2>2. "IN" \in rev[i] => "IN" \in status[i].events
    BY <1>3, <2>1
  <2> QED BY <1>5, <2>1, <2>2 DEF Waits
<1>12. Tidy(U, sockpeer, xset, fds, {})
  BY <1>2, <1>6, <1>8, <1>9, <1>10, <1>11 DEF Tidy
<1>13. /\ sockpeer' = sockpeer /\ xset' = xset /\ fds' = fds /\ statmap' = statmap
       /\ at' \in [phase : Phases, i : Nat]
  BY DEF Table!Poll, Table!GoTo, Phases
<1>14. Table!UseTable(U)
  BY <1>8, <1>13 DEF Table!UseTable
<1> QED BY <1>0, <1>12, <1>13, <1>14, StaysInOrder

LEMMA ExecuteStep ==
  ASSUME Table!StatusMapAssumption, MapInv, Table!Execute
  PROVE  MapInv'
<1>0. /\ 0 \in SockIds /\ MAXCONN \in Nat /\ ~died /\ died' = FALSE /\ at.i \in Nat
      /\ at \in [phase : Phases, i : Nat]
  <2>1. 0 \in SockIds /\ MAXCONN \in Nat /\ at \in [phase : Phases, i : Nat]
    BY DEF Table!StatusMapAssumption, SockIds, MapInv
  <2>2. ~died
    BY DEF Table!Execute, MapInv
  <2>3. died' = died
    BY DEF Table!Execute
  <2> QED BY <2>1, <2>2, <2>3
<1>1. PICK T, todo : T = Table!Table /\ todo = {cs \in xset : cs >= at.i}
  OBVIOUS
<1>2. Tidy(T, sockpeer, xset, fds, {})
  BY <1>0, <1>1 DEF MapInv
<1>3. T = [status |-> status, statmap |-> statmap]
  BY <1>1 DEF Table!Table
<1>4. CASE todo = {}
  <2>1. Table!UseTable(T) /\ sockpeer' = sockpeer /\ xset' = xset /\ fds' = fds
    BY <1>1, <1>3, <1>4 DEF Table!Execute, Table!UseTable
  <2>2. at' \in [phase : Phases, i : Nat]
    BY <1>1, <1>4 DEF Table!Execute, Table!GoTo, Phases
  <2> QED BY <1>0, <1>2, <2>1, <2>2, StaysInOrder
<1>5. CASE todo # {}
  <2>1. PICK cs : cs = Table!Min(todo)
    OBVIOUS
  <2>2. cs \in xset /\ cs \in Nat
    <3>1. xset \subseteq Nat
      BY <1>2 DEF Tidy, Peered, SockIds
    <3>2. todo \in SUBSET Nat
      BY <1>1, <3>1
    <3>3. \E m \in todo : \A y \in todo : m <= y
      BY <1>5, <3>2, LeastExists
    <3>4. cs \in todo
      BY <2>1, <3>3 DEF Table!Min
    <3> QED BY <1>1, <3>2, <3>4
  <2>3. PICK queued, more, err \in BOOLEAN :
          /\ at' = [phase |-> "execute", i |-> cs + 1]
          /\ LET U == IF queued THEN Table!SetEvents(T, cs, {"OUT"}) ELSE T IN
             IF err THEN Table!ClientError(U, cs, xset)
             ELSE /\ Table!UseTable(U) /\ xset' = (IF more THEN xset ELSE xset \ {cs})
                  /\ sockpeer' = sockpeer /\ fds' = fds
    BY <1>1, <1>5, <2>1 DEF Table!Execute, Table!GoTo
  <2>4. cs \in Peered(sockpeer) /\ cs # 0
    BY <1>2, <2>2 DEF Tidy, Peered
  <2>5. PICK i \in DOMAIN T.status : T.status[i].fd = cs
    BY <1>2, <2>4, EntryOf
  <2>6. PICK C : C = {cs}
    OBVIOUS
  <2>7. Tidy(T, sockpeer, xset, fds, C)
    BY <1>2 DEF Tidy
  <2>8. PICK U, E : /\ U = (IF queued THEN Table!SetEvents(T, cs, {"OUT"}) ELSE T)
                    /\ E = (IF queued THEN T.status[i].events \cup {"OUT"} ELSE T.status[i].events)
    OBVIOUS
  <2>9. /\ Tidy(U, sockpeer, xset, fds, C) /\ i \in DOMAIN U.status /\ U.status[i].fd = cs
        /\ U.status[i].events = E /\ U.status[i].revents = T.status[i].revents
    <3>1. PICK ev : ev = {"OUT"} /\ ev \in SUBSET {"IN", "OUT"}
      OBVIOUS
    <3>2. Tuning(T, i, cs, ev, U, E) /\ cs \in C
      BY <2>5, <2>6, <2>8, <3>1 DEF Tuning
    <3> QED BY <2>7, <3>2, Retuned
  <2>10. at' \in [phase : Phases, i : Nat]
    BY <2>2, <2>3 DEF Phases
  <2>11. CASE err
    <3>1. /\ Table!UseTable(IF U.statmap[cs] # -1 THEN Table!DelStatus(U, cs) ELSE U)
          /\ sockpeer' = [sockpeer EXCEPT ![cs] = "none"]
          /\ fds' = fds \ {cs} /\ xset' = xset \ {cs}
      BY <2>3, <2>8, <2>11 DEF Table!ClientError
    <3>2. PICK V : V = (IF U.statmap[cs] # -1 THEN Table!DelStatus(U, cs) ELSE U)
      OBVIOUS
    <3>3. Tidy(V, sockpeer', xset', fds', {})
      <4>1. Gone(U, sockpeer, fds, cs, V, sockpeer', fds')
        BY <3>1, <3>2 DEF Gone
      <4>2. (\A c \in C : c = cs) /\ \A c \in xset' : c \in xset /\ c # cs
        BY <2>6, <3>1
      <4> QED BY <1>0, <2>4, <2>9, <4>1, <4>2, Ended
    <3> QED BY <1>0, <2>10, <3>1, <3>2, <3>3, StaysInOrder
  <2>12. CASE ~err
    <3>1. Table!UseTable(U) /\ \A c \in xset' : c \in xset
      BY <2>3, <2>8, <2>12
    <3>2. sockpeer' = sockpeer /\ fds' = fds
      BY <2>3, <2>12
    <3>3. Waits(T.status[i], sockpeer)
      BY <1>2, <2>5 DEF Tidy
    <3>4. Waits(U.status[i], sockpeer)
      BY <2>5, <2>8, <2>9, <3>3 DEF Waits
    <3>5. PICK v : v = sockpeer[cs] /\ v \in {"init", "live", "error"} /\ sockpeer = [sockpeer EXCEPT ![cs] = v]
      BY <1>2, <2>4 DEF Tidy, Peered
    <3>6. Tidy(U, sockpeer, xset', fds, {})
      <4>1. IsNow(U, i, cs, sockpeer, v, sockpeer) /\ \A c \in C : c = cs
        BY <2>4, <2>6, <2>9, <3>4, <3>5 DEF IsNow
      <4>2. \A c \in xset' : c \in xset \/ c = cs
        BY <3>1
      <4> QED BY <2>9, <4>1, <4>2, Settled
    <3> QED BY <1>0, <2>10, <3>1, <3>2, <3>6, StaysInOrder
  <2> QED BY <2>11, <2>12
<1> QED BY <1>4, <1>5

(* The events of one connection, its entry the i-th.                        *)
LEMMA ClientStep ==
  ASSUME Table!StatusMapAssumption, NEW T, T = Table!Table, Tidy(T, sockpeer, xset, fds, {}),
         NEW i \in DOMAIN T.status, NEW cs, cs = T.status[i].fd, cs # 0,
         Table!ClientEvents(cs, T.status[i].revents)
  PROVE  \E V : Table!UseTable(V) /\ Tidy(V, sockpeer', xset', fds', {})
<1>1. PICK rev, old : rev = T.status[i].revents /\ old = T.status[i].events
  OBVIOUS
<1>2. PICK queued, drained, readerr, writeerr \in BOOLEAN :
        LET T1 == IF "IN" \in rev /\ queued THEN Table!SetEvents(T, cs, {"OUT"}) ELSE T
            T2 == IF "OUT" \in rev /\ sockpeer[cs] = "init" THEN Table!SetEvents(T1, cs, {"IN"}) ELSE T1
            T3 == IF "OUT" \in rev /\ drained THEN Table!ClrEvents(T2, cs, {"OUT"}) ELSE T2
            x == IF "OUT" \in rev /\ drained THEN xset \cup {cs} ELSE xset
        IN /\ (queued => "IN" \in rev) /\ (drained => "OUT" \in rev)
           /\ IF readerr \/ writeerr \/ "HUP" \in rev THEN Table!ClientError(T3, cs, x)
              ELSE /\ Table!UseTable(T3) /\ xset' = x /\ fds' = fds
                   /\ sockpeer' = [sockpeer EXCEPT ![cs] = IF "OUT" \in rev /\ @ = "init" THEN "live" ELSE @]
  BY <1>1 DEF Table!ClientEvents
<1>3. PICK T1, T2, T3, x :
        /\ T1 = (IF "IN" \in rev /\ queued THEN Table!SetEvents(T, cs, {"OUT"}) ELSE T)
        /\ T2 = (IF "OUT" \in rev /\ sockpeer[cs] = "init" THEN Table!SetEvents(T1, cs, {"IN"}) ELSE T1)
        /\ T3 = (IF "OUT" \in rev /\ drained THEN Table!ClrEvents(T2, cs, {"OUT"}) ELSE T2)
        /\ x = (IF "OUT" \in rev /\ drained THEN xset \cup {cs} ELSE xset)
  OBVIOUS
<1>4. PICK C, O, I : C = {cs} /\ O = {"OUT"} /\ I = {"IN"}
  OBVIOUS
<1>5. Tidy(T, sockpeer, xset, fds, C) /\ cs \in C /\ \A c \in C : c = cs
  BY <1>4 DEF Tidy
<1>6. PICK E1, E2, E3 :
        /\ E1 = (IF "IN" \in rev /\ queued THEN old \cup {"OUT"} ELSE old)
        /\ E2 = (IF "OUT" \in rev /\ sockpeer[cs] = "init" THEN E1 \cup {"IN"} ELSE E1)
        /\ E3 = (IF "OUT" \in rev /\ drained THEN E2 \ {"OUT"} ELSE E2)
  OBVIOUS
<1>7. /\ Tidy(T1, sockpeer, xset, fds, C) /\ i \in DOMAIN T1.status /\ T1.status[i].fd = cs
      /\ T1.status[i].events = E1 /\ T1.status[i].revents = rev
  <2>1. Tuning(T, i, cs, O, T1, E1)
    BY <1>1, <1>3, <1>4, <1>6 DEF Tuning
  <2> QED BY <1>1, <1>5, <2>1, Retuned
<1>8. /\ Tidy(T2, sockpeer, xset, fds, C) /\ i \in DOMAIN T2.status /\ T2.status[i].fd = cs
      /\ T2.status[i].events = E2 /\ T2.status[i].revents = rev
  <2>1. Tuning(T1, i, cs, I, T2, E2)
    <3>1. CASE "OUT" \in rev /\ sockpeer[cs] = "init"
      <4>1. T2 = Table!SetEvents(T1, cs, I) /\ E2 = T1.status[i].events \cup I
        BY <1>3, <1>4, <1>6, <1>7, <3>1
      <4> QED BY <1>4, <1>7, <4>1 DEF Tuning
    <3>2. CASE ~("OUT" \in rev /\ sockpeer[cs] = "init")
      <4>1. T2 = T1 /\ E2 = T1.status[i].events
        BY <1>3, <1>6, <1>7, <3>2
      <4> QED BY <1>4, <1>7, <4>1 DEF Tuning
    <3> QED BY <3>1, <3>2
  <2> QED BY SMTT(30), <1>5, <1>7, <2>1, Retuned
<1>9. /\ Tidy(T3, sockpeer, xset, fds, C) /\ i \in DOMAIN T3.status /\ T3.status[i].fd = cs
      /\ T3.status[i].events = E3 /\ T3.status[i].revents = rev
  <2>1. Tuning(T2, i, cs, O, T3, E3)
    BY <1>3, <1>4, <1>6, <1>8 DEF Tuning
  <2> QED BY <1>5, <1>8, <2>1, Retuned
<1>10. cs \in Peered(sockpeer)
  BY DEF Tidy, Polled
<1>11. CASE readerr \/ writeerr \/ "HUP" \in rev
  <2>1. Table!ClientError(T3, cs, x)
    BY <1>2, <1>3, <1>11
  <2>2. PICK V : V = (IF T3.statmap[cs] # -1 THEN Table!DelStatus(T3, cs) ELSE T3)
    OBVIOUS
  <2>3. /\ Table!UseTable(V) /\ sockpeer' = [sockpeer EXCEPT ![cs] = "none"]
        /\ fds' = fds \ {cs} /\ xset' = x \ {cs}
    BY <2>1, <2>2 DEF Table!ClientError
  <2>4. Gone(T3, sockpeer, fds, cs, V, sockpeer', fds')
    BY <2>2, <2>3 DEF Gone
  <2>5. \A c \in xset' : c \in xset /\ c # cs
    BY <1>3, <2>3
  <2>6. MAXCONN \in Nat
    BY DEF Table!StatusMapAssumption
  <2>7. Tidy(V, sockpeer', xset', fds', {})
    BY <1>5, <1>9, <1>10, <2>4, <2>5, <2>6, Ended
  <2> QED BY <2>3, <2>7
<1>12. CASE ~(readerr \/ writeerr \/ "HUP" \in rev)
  <2>1. /\ Table!UseTable(T3) /\ xset' = x /\ fds' = fds
        /\ sockpeer' = [sockpeer EXCEPT ![cs] = IF "OUT" \in rev /\ sockpeer[cs] = "init" THEN "live" ELSE sockpeer[cs]]
    BY <1>1, <1>2, <1>3, <1>12
  <2>2. PICK v : v = (IF "OUT" \in rev /\ sockpeer[cs] = "init" THEN "live" ELSE sockpeer[cs])
    OBVIOUS
  <2>3. v \in {"init", "live", "error"} /\ cs \in SockIds /\ sockpeer'[cs] = v
    BY <1>10, <2>1, <2>2 DEF Tidy, Peered
  <2>4. Waits(T.status[i], sockpeer)
    BY DEF Tidy
  <2>5. /\ IF sockpeer[cs] = "init" THEN old = {"OUT"} ELSE "IN" \in old
        /\ "IN" \in rev => "IN" \in old
    BY <1>1, <2>4 DEF Waits
  <2>6. /\ IF v = "init" THEN E3 = {"OUT"} ELSE "IN" \in E3
        /\ "IN" \in rev => "IN" \in E3
    <3>1. CASE sockpeer[cs] = "init" /\ "OUT" \in rev
      BY <1>6, <2>2, <2>5, <3>1
    <3>2. CASE sockpeer[cs] = "init" /\ "OUT" \notin rev
      <4>1. "IN" \notin rev /\ v = "init"
        BY <1>1, <2>2, <2>5, <3>2
      <4> QED BY <1>6, <2>5, <3>2, <4>1
    <3>3. CASE sockpeer[cs] # "init"
      <4>1. v # "init"
        BY <1>1, <2>2, <3>3
      <4> QED BY <1>6, <2>5, <3>3, <4>1
    <3> QED BY <3>1, <3>2, <3>3
  <2>7. Waits(T3.status[i], sockpeer')
    BY <1>1, <1>9, <2>3, <2>6 DEF Waits
  <2>8. sockpeer' = [sockpeer EXCEPT ![cs] = v] /\ \A c \in xset' : c \in xset \/ c = cs
    BY <1>3, <2>1, <2>2
  <2>9. Tidy(T3, sockpeer', xset', fds, {})
    <3>1. IsNow(T3, i, cs, sockpeer, v, sockpeer')
      BY <1>9, <2>3, <2>7, <2>8 DEF IsNow
    <3> QED BY <1>5, <1>9, <2>8, <3>1, Settled
  <2> QED BY SMTT(30), <2>1, <2>9
<1> QED BY <1>11, <1>12

LEMMA FreeIs ==
  ASSUME Table!FreeFds # {}
  PROVE  Table!Min(Table!FreeFds) \in SockIds \ fds
<1>1. Table!FreeFds = SockIds \ fds /\ Table!FreeFds \in SUBSET Nat
  BY DEF Table!FreeFds, Table!Sockets, SockIds
<1>2. \E m \in Table!FreeFds : \A y \in Table!FreeFds : m <= y
  BY <1>1, LeastExists
<1>3. Table!Min(Table!FreeFds) \in Table!FreeFds
  BY <1>2 DEF Table!Min
<1> QED BY <1>1, <1>3

LEMMA AcceptStep ==
  ASSUME Table!StatusMapAssumption, NEW T, T = Table!Table, Tidy(T, sockpeer, xset, fds, {}), Table!Accept
  PROVE  \E V : Table!UseTable(V) /\ Tidy(V, sockpeer', xset', fds', {})
<1>1. T.status = status /\ T.statmap = statmap
  BY DEF Table!Table
<1>2. CASE UNCHANGED <<status, statmap, sockpeer, xset, fds>>
  BY <1>1, <1>2 DEF Table!UseTable
<1>3. CASE ~UNCHANGED <<status, statmap, sockpeer, xset, fds>>
  <2>1. PICK cs : cs = Table!Min(Table!FreeFds)
    OBVIOUS
  <2>2. /\ Table!FreeFds # {} /\ Len(T.status) < MAXCONN
        /\ Table!UseTable(Table!SetEvents(Table!AddStatus(T, cs), cs, {"IN"}))
        /\ sockpeer' = [sockpeer EXCEPT ![cs] = "live"] /\ fds' = fds \cup {cs} /\ xset' = xset
    BY <1>1, <1>3, <2>1 DEF Table!Accept
  <2>3. cs \in SockIds /\ cs \notin fds
    BY <2>1, <2>2, FreeIs
  <2>4. PICK U, V : U = Table!AddStatus(T, cs) /\ V = Table!SetEvents(U, cs, {"IN"})
    OBVIOUS
  <2>5. PICK v : v = "live"
    OBVIOUS
  <2>6. New(T, sockpeer, fds, cs, v, V, sockpeer', fds') /\ v \in {"init", "live"}
    BY <2>2, <2>4, <2>5 DEF New
  <2>7. PICK C : C = {}
    OBVIOUS
  <2>8. MAXCONN \in Nat
    BY DEF Table!StatusMapAssumption
  <2>9. Tidy(V, sockpeer', xset, fds', C)
    <3>1. Tidy(T, sockpeer, xset, fds, C)
      BY <2>7
    <3> QED BY <2>2, <2>3, <2>6, <2>7, <2>8, <3>1, Came
  <2> QED BY <2>2, <2>4, <2>7, <2>9
<1> QED BY <1>2, <1>3

LEMMA EventsStep ==
  ASSUME Table!StatusMapAssumption, MapInv, ~died, Table!Events
  PROVE  MapInv'
<1>0. 0 \in SockIds /\ at \in [phase : Phases, i : Nat] /\ at.i \in Nat
  BY DEF Table!StatusMapAssumption, SockIds, MapInv
<1>1. PICK T : T = Table!Table
  OBVIOUS
<1>2. Tidy(T, sockpeer, xset, fds, {}) /\ T.status = status /\ T.statmap = statmap
  <2>1. Tidy(T, sockpeer, xset, fds, {})
    BY <1>1 DEF MapInv
  <2> QED BY <1>1, <2>1 DEF Table!Table
<1>3. /\ DOMAIN status = 1 .. Len(status) /\ Len(status) \in Nat
      /\ \A i \in DOMAIN status : statmap[status[i].fd] = i - 1
  <2>1. InStep(T)
    BY <1>2 DEF Tidy
  <2>2. /\ DOMAIN T.status = 1 .. Len(T.status) /\ Len(T.status) \in Nat
        /\ \A i \in DOMAIN T.status : T.statmap[T.status[i].fd] = i - 1
    BY <2>1, Stepped
  <2> QED BY <1>2, <2>2
<1>4. CASE at.i >= Len(status)
  <2>1. /\ Table!UseTable(T) /\ sockpeer' = sockpeer /\ xset' = xset /\ fds' = fds
        /\ died' = FALSE
    BY <1>2, <1>4 DEF Table!Events, Table!UseTable
  <2>2. at' \in [phase : Phases, i : Nat]
    BY <1>4 DEF Table!Events, Table!GoTo, Phases
  <2> QED BY <1>0, <1>2, <2>1, <2>2, StaysInOrder
<1>5. CASE ~(at.i >= Len(status))
  <2>1. PICK i : i = at.i + 1
    OBVIOUS
  <2>2. i \in DOMAIN status /\ at.i = i - 1 /\ i \in Nat
    BY <1>0, <1>3, <1>5, <2>1
  <2>3. at' \in [phase : Phases, i : Nat]
    BY <1>0, <1>5 DEF Table!Events, Table!GoTo, Phases
  <2>4. Waits(status[i], sockpeer)
    BY <1>2, <2>2 DEF Tidy
  <2>5. died' = FALSE
    <3>1. died' = (statmap[status[i].fd] # at.i \/ ("IN" \in status[i].revents /\ "IN" \notin status[i].events))
      BY <1>5, <2>1 DEF Table!Events
    <3> QED BY <1>3, <2>2, <2>4, <3>1 DEF Waits
  <2>6. \E V : Table!UseTable(V) /\ Tidy(V, sockpeer', xset', fds', {})
    <3>1. CASE status[i].fd # 0
      <4>1. Table!ClientEvents(status[i].fd, status[i].revents)
        BY <1>5, <2>1, <2>5, <3>1 DEF Table!Events, Table!ss
      <4>2. PICK cs : cs = T.status[i].fd
        OBVIOUS
      <4>3. Table!ClientEvents(cs, T.status[i].revents) /\ i \in DOMAIN T.status /\ cs # 0
        BY <1>2, <2>2, <3>1, <4>1, <4>2
      <4> QED BY <1>1, <1>2, <4>2, <4>3, ClientStep
    <3>2. CASE status[i].fd = 0 /\ "IN" \in status[i].revents
      <4>1. Table!Accept
        BY <1>5, <2>1, <2>5, <3>2 DEF Table!Events, Table!ss
      <4> QED BY <1>1, <1>2, <4>1, AcceptStep
    <3>3. CASE status[i].fd = 0 /\ "IN" \notin status[i].revents
      <4>1. UNCHANGED <<status, statmap, sockpeer, xset, fds>>
        BY <1>5, <2>1, <2>5, <3>3 DEF Table!Events, Table!ss
      <4> QED BY <1>2, <4>1 DEF Table!UseTable
    <3> QED BY <3>1, <3>2, <3>3
  <2> QED BY <1>0, <2>3, <2>5, <2>6, StaysInOrder
<1> QED BY <1>4, <1>5

LEMMA PeerFailStep ==
  ASSUME Table!StatusMapAssumption, MapInv, NEW cs \in Table!Sockets, Table!Fail(cs)
  PROVE  MapInv'
<1>0. 0 \in SockIds /\ at \in [phase : Phases, i : Nat] /\ ~died /\ died' = FALSE /\ at' = at
  BY DEF Table!StatusMapAssumption, SockIds, MapInv, Table!Fail
<1>1. PICK T : T = Table!Table
  OBVIOUS
<1>2. Tidy(T, sockpeer, xset, fds, {})
  BY <1>0, <1>1 DEF MapInv
<1>3. Table!UseTable(T) /\ xset' = xset /\ fds' = fds
  BY <1>1 DEF Table!Fail, Table!Table, Table!UseTable
<1>4. cs \in Peered(sockpeer) /\ sockpeer[cs] = "live" /\ cs \in SockIds /\ cs # 0
  BY <1>2 DEF Table!Fail, Peered, Table!Sockets, SockIds, Tidy
<1>5. PICK i \in DOMAIN T.status : T.status[i].fd = cs
  BY <1>2, <1>4, EntryOf
<1>6. PICK v, C : v = "error" /\ C = {}
  OBVIOUS
<1>7. sockpeer' = [sockpeer EXCEPT ![cs] = v] /\ sockpeer'[cs] = v
  BY <1>2, <1>4, <1>6 DEF Table!Fail, Tidy
<1>8. Waits(T.status[i], sockpeer)
  BY <1>2, <1>5 DEF Tidy
<1>9. IsNow(T, i, cs, sockpeer, v, sockpeer')
  BY <1>4, <1>5, <1>6, <1>7, <1>8 DEF IsNow, Waits
<1>10. Tidy(T, sockpeer', xset', fds', {})
  <2>1. Tidy(T, sockpeer, xset, fds, C) /\ (\A c \in C : c = cs) /\ \A c \in xset : c \in xset \/ c = cs
    BY <1>2, <1>6
  <2>2. Tidy(T, sockpeer', xset, fds, {})
    BY <1>9, <2>1, Settled
  <2> QED BY <1>3, <2>2
<1> QED BY <1>0, <1>3, <1>10, StaysInOrder

(* A refused connect: the entry that has no socket stays behind.            *)
LEMMA RefusedStep ==
  ASSUME Table!StatusMapAssumption, MapInv, Refused, Table!PeerAdd("fails")
  PROVE  MapInv'
<1>1. PICK T : T = Table!Table
  OBVIOUS
<1>2. /\ at \in [phase : Phases, i : Nat] /\ at' = at /\ at.phase = "after" /\ ~died /\ died' = TRUE
      /\ xset' = xset /\ fds' = fds /\ Len(status) < MAXCONN
      /\ status' = Append(status, [fd |-> SOCKID_MAX, events |-> {}, revents |-> {}])
  BY DEF Table!PeerAdd, Table!UseTable, Table!AddStatus, Table!Table, Table!Entry, Table!TMPLOC, MapInv
<1>3. PICK S, e : /\ S = [fd : SockIds \cup {SOCKID_MAX}, events : SUBSET {"IN", "OUT"},
                          revents : SUBSET {"IN", "OUT", "HUP"}]
                  /\ e = [fd |-> SOCKID_MAX, events |-> {}, revents |-> {}]
  OBVIOUS
<1>4. status \in Seq(S) /\ xset \subseteq SockIds /\ fds \subseteq SockIds
  BY <1>3 DEF MapInv, Table!TypeOK, Table!Sockets, Table!TMPLOC, SockIds
<1>5. status' \in Seq(S) /\ Len(status') = Len(status) + 1 /\ Len(status) \in Nat
  <2>1. e \in S
    BY <1>3
  <2> QED BY <1>2, <1>3, <1>4, <2>1, AppendProperties
<1>6. Len(status') <= MAXCONN
  BY <1>2, <1>5 DEF Table!StatusMapAssumption
<1>7. Table!TypeOK'
  BY <1>2, <1>3, <1>4, <1>5, <1>6 DEF Table!TypeOK, Table!Sockets, Table!TMPLOC, SockIds
<1> QED BY <1>2, <1>7 DEF MapInv

LEMMA PeerAddStep ==
  ASSUME Table!StatusMapAssumption, MapInv, NEW how \in {"later", "now"}, Table!PeerAdd(how)
  PROVE  MapInv'
<1>0. 0 \in SockIds /\ at' \in [phase : Phases, i : Nat] /\ ~died /\ MAXCONN \in Nat
  BY DEF Table!StatusMapAssumption, SockIds, MapInv, Table!PeerAdd
<1>1. PICK T, cs, C : T = Table!Table /\ cs = Table!Min(Table!FreeFds) /\ C = {}
  OBVIOUS
<1>2. Tidy(T, sockpeer, xset, fds, C) /\ C = {}
  BY <1>0, <1>1 DEF MapInv
<1>3. T.status = status
  BY <1>1 DEF Table!Table
<1>4. cs \in SockIds /\ cs \notin fds /\ Len(T.status) < MAXCONN
  <2>1. Table!FreeFds # {} /\ Len(T.status) < MAXCONN
    BY <1>3 DEF Table!PeerAdd
  <2> QED BY <1>1, <2>1, FreeIs
<1>5. PICK U, v, V : /\ U = Table!FixTmp(Table!AddStatus(T, SOCKID_MAX), cs)
                     /\ v = (IF how = "later" THEN "init" ELSE "live")
                     /\ V = Table!SetEvents(U, cs, IF v = "init" THEN {"OUT"} ELSE {"IN"})
  OBVIOUS
<1>6. /\ Table!UseTable(V) /\ sockpeer' = [sockpeer EXCEPT ![cs] = v] /\ fds' = fds \cup {cs}
      /\ xset' = xset /\ died' = FALSE
  <2>1. CASE how = "later"
    BY <1>0, <1>1, <1>5, <2>1 DEF Table!PeerAdd, Table!TMPLOC
  <2>2. CASE how = "now"
    BY <1>0, <1>1, <1>5, <2>2 DEF Table!PeerAdd, Table!TMPLOC
  <2> QED BY <2>1, <2>2
<1>7. New(T, sockpeer, fds, cs, v, V, sockpeer', fds') /\ v \in {"init", "live"}
  BY <1>5, <1>6 DEF New
<1>8. Tidy(V, sockpeer', xset, fds', C)
  BY <1>0, <1>2, <1>4, <1>7, Came
<1>9. Tidy(V, sockpeer', xset', fds', {})
  BY <1>2, <1>6, <1>8
<1> QED BY <1>0, <1>6, <1>9, StaysInOrder

LEMMA MapKept ==
  ASSUME Table!StatusMapAssumption
  PROVE  MapInv /\ [Table!Next]_(Table!vars) => MapInv'
<1> SUFFICES ASSUME MapInv, [Table!Next]_(Table!vars) PROVE MapInv'
  OBVIOUS
<1>1. CASE UNCHANGED Table!vars
  BY <1>1 DEF Table!vars, MapInv, Table!TypeOK, Table!Table
<1>2. CASE Table!Poll
  BY <1>2, PollStep
<1>3. CASE Table!Execute
  BY <1>3, ExecuteStep
<1>4. CASE ~died /\ Table!Events
  BY <1>4, EventsStep
<1>5. CASE Table!Again
  <2>1. MapInv /\ at' \in [phase : Phases, i : Nat] /\ ~died /\ UNCHANGED <<status, statmap, sockpeer, xset, fds, died>>
    BY <1>5 DEF Table!Again, Table!GoTo, Phases
  <2> QED BY <2>1 DEF MapInv, Table!TypeOK, Table!Table
<1>6. CASE \E how \in {"later", "now"} \cup (IF Refused THEN {"fails"} ELSE {}) : Table!PeerAdd(how)
  BY <1>6, PeerAddStep, RefusedStep
<1>7. CASE \E fd \in Table!Sockets : Table!Fail(fd)
  BY <1>7, PeerFailStep
<1> QED BY <1>1, <1>2, <1>3, <1>4, <1>5, <1>6, <1>7 DEF Table!Next

LEMMA MapGives ==
  ASSUME MapInv
  PROVE  Table!TypeOK /\ Table!MapSync /\ Table!PolledOnce /\ Table!Listens /\ (~Refused => ~died)
<1>1. CASE died
  BY <1>1 DEF MapInv, Table!MapSync, Table!PolledOnce, Table!Listens
<1>2. CASE ~died
  <2>1. PICK T : T = Table!Table
    OBVIOUS
  <2>2. Tidy(T, sockpeer, xset, fds, {}) /\ T.status = status /\ T.statmap = statmap
    <3>1. Tidy(T, sockpeer, xset, fds, {})
      BY <1>2, <2>1 DEF MapInv
    <3> QED BY <2>1, <3>1 DEF Table!Table
  <2>3. /\ DOMAIN status = 1 .. Len(status) /\ Len(status) \in Nat
        /\ \A i \in DOMAIN status : statmap[status[i].fd] = i - 1
    <3>1. InStep(T)
      BY <2>2 DEF Tidy
    <3>2. /\ DOMAIN T.status = 1 .. Len(T.status) /\ Len(T.status) \in Nat
          /\ \A i \in DOMAIN T.status : T.statmap[T.status[i].fd] = i - 1
      BY <3>1, Stepped
    <3> QED BY <2>2, <3>2
  <2>4. \A i, j \in DOMAIN status : status[i].fd = status[j].fd => i = j
    <3> SUFFICES ASSUME NEW i \in DOMAIN status, NEW j \in DOMAIN status, status[i].fd = status[j].fd
                 PROVE  i = j
      OBVIOUS
    <3>1. i - 1 = j - 1 /\ i \in Nat /\ j \in Nat
      BY <2>3
    <3> QED BY <3>1
  <2>5. Table!MapSync
    BY <2>3 DEF Table!MapSync
  <2>6. Table!PolledOnce
    BY <2>2, <2>4 DEF Table!PolledOnce, Tidy, Polled, Peered, Table!ss, Table!Sockets, SockIds
  <2>7. Table!Listens
    BY <2>2 DEF Table!Listens, Tidy, Waits, Table!ss
  <2> QED BY <1>2, <2>5, <2>6, <2>7 DEF MapInv
<1> QED BY <1>1, <1>2

(* The table poll() is given: the map leads from every socket to its entry, *)
(* through all that is opened and closed while the events are gone through; *)
(* each connection is polled once and waits for something, and only a       *)
(* connect() refused at once makes an assertion fail (context.c, btget.c).  *)
THEOREM PollTableHolds ==
  ASSUME Table!StatusMapAssumption
  PROVE  Table!Spec => [](Table!TypeOK /\ Table!MapSync /\ Table!PolledOnce /\ Table!Listens
                          /\ (~Refused => ~died))
<1>1. Table!Init => MapInv
  BY MapInit
<1>2. MapInv /\ [Table!Next]_(Table!vars) => MapInv'
  BY MapKept
<1>3. MapInv => Table!TypeOK /\ Table!MapSync /\ Table!PolledOnce /\ Table!Listens /\ (~Refused => ~died)
  BY MapGives
<1> QED BY <1>1, <1>2, <1>3, PTL DEF Table!Spec

-----------------------------------------------------------------------------
(* libbt's ring of requests (ReqQueue), which is to its callers a sequence   *)
(* (QueueSpec).                                                             *)

CONSTANTS Requests, TooLong, QUEUESIZE, Zero

VARIABLES req, head, tail, result

Ring == INSTANCE ReqQueue

Places == 0 .. QUEUESIZE - 1

(* How many there are from place h to place t, and which.                   *)
Size(h, t) == IF t < h THEN t + QUEUESIZE - h ELSE t - h
Place(h, i) == (h + i - 1) % QUEUESIZE
RingOf(m, h, n) == [i \in 1 .. n |-> m[Place(h, i)]]

LEMMA Wrapped ==
  ASSUME NEW Q \in Nat \ {0}, NEW x \in 0 .. 2 * Q - 1
  PROVE  x % Q = IF x < Q THEN x ELSE x - Q
<1>1. CASE x < Q
  BY <1>1
<1>2. CASE ~(x < Q)
  <2>1. PICK y \in 0 .. Q - 1 : x = Q + y
    BY <1>2
  <2> QED BY <1>2, <2>1
<1> QED BY <1>1, <1>2

LEMMA PlaceIs ==
  ASSUME QUEUESIZE \in Nat \ {0}, NEW h \in Places, NEW i \in 1 .. QUEUESIZE
  PROVE  /\ Place(h, i) \in Places
         /\ Place(h, i) = IF h + i - 1 < QUEUESIZE THEN h + i - 1 ELSE h + i - 1 - QUEUESIZE
<1>1. h + i - 1 \in 0 .. 2 * QUEUESIZE - 1
  BY DEF Places
<1>2. PICK x : x = h + i - 1 /\ x \in 0 .. 2 * QUEUESIZE - 1
  BY <1>1
<1>3. x % QUEUESIZE = IF x < QUEUESIZE THEN x ELSE x - QUEUESIZE
  BY <1>2, Wrapped
<1>4. Place(h, i) = IF x < QUEUESIZE THEN x ELSE x - QUEUESIZE
  BY <1>2, <1>3 DEF Place
<1> QED BY <1>2, <1>4 DEF Places

LEMMA PlacesDiffer ==
  ASSUME QUEUESIZE \in Nat \ {0}, NEW h \in Places,
         NEW i \in 1 .. QUEUESIZE, NEW j \in 1 .. QUEUESIZE, Place(h, i) = Place(h, j)
  PROVE  i = j
<1> DEFINE p == Place(h, i)
<1>1. p \in Int /\ p = IF h + i - 1 < QUEUESIZE THEN h + i - 1 ELSE h + i - 1 - QUEUESIZE
  BY PlaceIs DEF Places
<1>2. p = IF h + j - 1 < QUEUESIZE THEN h + j - 1 ELSE h + j - 1 - QUEUESIZE
  BY PlaceIs DEF Places
<1>3. h \in Int /\ i \in Int /\ j \in Int /\ i >= 1 /\ j >= 1 /\ i <= QUEUESIZE /\ j <= QUEUESIZE
  BY DEF Places
<1> HIDE DEF p
<1> QED BY <1>1, <1>2, <1>3

LEMMA SizeIs ==
  ASSUME QUEUESIZE \in Nat \ {0}, NEW h \in Places, NEW t \in Places, NEW n, n = Size(h, t)
  PROVE  /\ n \in 0 .. QUEUESIZE - 1 /\ t = Place(h, n + 1) /\ (n = 0 <=> h = t)
<1>1. n \in 0 .. QUEUESIZE - 1 /\ (n = 0 <=> h = t)
  BY DEF Size, Places
<1>2. n + 1 \in 1 .. QUEUESIZE
  BY <1>1
<1>3. t = Place(h, n + 1)
  BY <1>1, <1>2, PlaceIs DEF Size, Places
<1> QED BY <1>1, <1>3

(* Past the tail: the ring is full when that is the head.                   *)
LEMMA OneMore ==
  ASSUME QUEUESIZE \in Nat \ {0}, NEW h \in Places, NEW t \in Places,
         NEW u, u = (t + 1) % QUEUESIZE
  PROVE  /\ u \in Places /\ (u = h <=> Size(h, t) = QUEUESIZE - 1)
         /\ u # h => Size(h, u) = Size(h, t) + 1
<1>1. u = IF t + 1 < QUEUESIZE THEN t + 1 ELSE 0
  <2>1. PICK x : x = t + 1 /\ x \in 0 .. 2 * QUEUESIZE - 1
    BY DEF Places
  <2>2. x % QUEUESIZE = IF x < QUEUESIZE THEN x ELSE x - QUEUESIZE
    BY <2>1, Wrapped
  <2> QED BY <2>1, <2>2 DEF Places
<1> QED BY <1>1 DEF Places, Size

(* Past the head: each place holds what the next one held.                  *)
LEMMA OneLess ==
  ASSUME QUEUESIZE \in Nat \ {0}, NEW h \in Places, NEW t \in Places, h # t,
         NEW g, g = (h + 1) % QUEUESIZE
  PROVE  /\ g \in Places /\ Size(g, t) = Size(h, t) - 1
         /\ \A i \in 1 .. Size(h, t) - 1 : Place(g, i) = Place(h, i + 1)
<1>1. g = IF h + 1 < QUEUESIZE THEN h + 1 ELSE 0
  <2>1. PICK x : x = h + 1 /\ x \in 0 .. 2 * QUEUESIZE - 1
    BY DEF Places
  <2>2. x % QUEUESIZE = IF x < QUEUESIZE THEN x ELSE x - QUEUESIZE
    BY <2>1, Wrapped
  <2> QED BY <2>1, <2>2 DEF Places
<1>2. g \in Places /\ Size(g, t) = Size(h, t) - 1
  BY <1>1 DEF Places, Size
<1>3. ASSUME NEW i \in 1 .. Size(h, t) - 1
      PROVE  Place(g, i) = Place(h, i + 1)
  <2>1. Size(h, t) \in 0 .. QUEUESIZE - 1
    BY SizeIs
  <2>2. i \in 1 .. QUEUESIZE /\ i + 1 \in 1 .. QUEUESIZE
    BY <2>1
  <2>3. /\ Place(g, i) = IF g + i - 1 < QUEUESIZE THEN g + i - 1 ELSE g + i - 1 - QUEUESIZE
        /\ Place(h, i + 1) = IF h + (i + 1) - 1 < QUEUESIZE THEN h + (i + 1) - 1 ELSE h + (i + 1) - 1 - QUEUESIZE
    BY <1>2, <2>2, PlaceIs
  <2> QED BY <1>1, <2>1, <2>2, <2>3 DEF Places
<1> QED BY <1>2, <1>3

(* The tail k back.                                                         *)
LEMMA SomeLess ==
  ASSUME QUEUESIZE \in Nat \ {0}, NEW h \in Places, NEW t \in Places,
         NEW k \in 0 .. Size(h, t), NEW u, u = (t + QUEUESIZE - k) % QUEUESIZE
  PROVE  u \in Places /\ Size(h, u) = Size(h, t) - k
<1>1. Size(h, t) \in 0 .. QUEUESIZE - 1
  BY SizeIs
<1>2. PICK x : x = t + QUEUESIZE - k /\ x \in 0 .. 2 * QUEUESIZE - 1
  BY <1>1 DEF Places
<1>3. x % QUEUESIZE = IF x < QUEUESIZE THEN x ELSE x - QUEUESIZE
  BY <1>2, Wrapped
<1> QED BY <1>1, <1>2, <1>3 DEF Places, Size
(* A slot k further on from the i-th is the (i + k)-th.                     *)
LEMMA FurtherOn ==
  ASSUME QUEUESIZE \in Nat \ {0}, NEW h \in Places, NEW i \in 1 .. QUEUESIZE,
         NEW k \in Nat, i + k <= QUEUESIZE
  PROVE  (Place(h, i) + k) % QUEUESIZE = Place(h, i + k)
<1> DEFINE p == Place(h, i)
<1>1. p \in Places /\ p = IF h + i - 1 < QUEUESIZE THEN h + i - 1 ELSE h + i - 1 - QUEUESIZE
  BY PlaceIs
<1>2. i + k \in 1 .. QUEUESIZE
  OBVIOUS
<1>3. Place(h, i + k) = IF h + (i + k) - 1 < QUEUESIZE THEN h + (i + k) - 1
                                                      ELSE h + (i + k) - 1 - QUEUESIZE
  BY <1>2, PlaceIs
<1> HIDE DEF p
<1>4. PICK x : x = p + k /\ x \in 0 .. 2 * QUEUESIZE - 1
  BY <1>1 DEF Places
<1>5. x % QUEUESIZE = IF x < QUEUESIZE THEN x ELSE x - QUEUESIZE
  BY <1>4, Wrapped
<1>6. x % QUEUESIZE = Place(h, i + k)
  BY <1>1, <1>3, <1>4, <1>5 DEF Places
<1> QED BY <1>4, <1>6 DEF p

(* How many of the first i entries of a sequence are r. *)
Found(q, r, i) == {j \in 1 .. i : q[j] = r}

LEMMA FoundBounded ==
  ASSUME NEW q, NEW r, NEW i \in Nat, NEW n \in Nat, i <= n
  PROVE  /\ Cardinality(Found(q, r, i)) \in 0 .. i
         /\ Cardinality(Found(q, r, i)) <= Cardinality(Found(q, r, n))
<1>1. IsFiniteSet(1 .. i) /\ Cardinality(1 .. i) = i /\ IsFiniteSet(1 .. n)
  BY FS_Interval
<1>2. Found(q, r, i) \subseteq 1 .. i /\ Found(q, r, n) \subseteq 1 .. n
      /\ Found(q, r, i) \subseteq Found(q, r, n)
  BY DEF Found
<1>3. IsFiniteSet(Found(q, r, i)) /\ IsFiniteSet(Found(q, r, n))
      /\ Cardinality(Found(q, r, i)) <= i
  BY <1>1, <1>2, FS_Subset
<1>4. Cardinality(Found(q, r, i)) <= Cardinality(Found(q, r, n))
  BY <1>2, <1>3, FS_Subset
<1>5. Cardinality(Found(q, r, i)) \in Nat
  BY <1>3, FS_CardinalityType
<1> QED BY <1>1, <1>3, <1>4, <1>5

(* Times of QueueSpec and Upto of ReqQueue count the same entries. *)
LEMMA TimesIs ==
  ASSUME NEW q, NEW r, NEW n \in Nat, q \in Seq(Requests), Len(q) = n
  PROVE  /\ Ring!Abstract!Times(q, r) = Cardinality(Found(q, r, n))
         /\ \A i \in 1 .. n : Ring!Abstract!Times(SubSeq(q, 1, i), r) = Cardinality(Found(q, r, i))
<1>1. DOMAIN q = 1 .. n
  OBVIOUS
<1>2. \A S : Ring!Abstract!Cardinality(S) = Cardinality(S)
  BY DEF Ring!Abstract!Cardinality, Cardinality
<1>3. Ring!Abstract!Times(q, r) = Cardinality(Found(q, r, n))
  BY <1>1, <1>2 DEF Ring!Abstract!Times, Found
<1>4. ASSUME NEW i \in 1 .. n
      PROVE  Ring!Abstract!Times(SubSeq(q, 1, i), r) = Cardinality(Found(q, r, i))
  <2>1. PICK s : s = SubSeq(q, 1, i)
    OBVIOUS
  <2>2. DOMAIN s = 1 .. i /\ \A j \in 1 .. i : s[j] = q[j]
    BY <2>1, <1>1
  <2>3. {j \in DOMAIN s : s[j] = r} = Found(q, r, i)
    BY <2>2 DEF Found
  <2> QED BY <1>2, <2>1, <2>3 DEF Ring!Abstract!Times
<1> QED BY <1>3, <1>4

(***************************************************************************)
(* What is always so of the ring.                                          *)
(***************************************************************************)
RingInv ==
  /\ head \in Places /\ tail \in Places
  /\ req = [s \in Places |-> req[s]]
  /\ \A i \in 1 .. Size(head, tail) : req[Place(head, i)] \in Requests

LEMMA QueuedIs ==
  ASSUME QUEUESIZE \in Nat \ {0}, RingInv, NEW n, n = Size(head, tail)
  PROVE  /\ Ring!Queued = RingOf(req, head, n) /\ Ring!QueueLen = n /\ n \in 0 .. QUEUESIZE - 1
         /\ Ring!Queued \in Seq(Requests) /\ Len(Ring!Queued) = n
         /\ \A i \in 1 .. n : Ring!Queued[i] = req[Place(head, i)]
<1>1. n \in 0 .. QUEUESIZE - 1
  BY SizeIs DEF RingInv
<1>2. Ring!QueueLen = n
  BY DEF Ring!QueueLen, Size
<1>3. Ring!Queued = RingOf(req, head, n)
  BY <1>2 DEF Ring!Queued, Ring!At, RingOf, Place
<1>4. PICK s : s = [i \in 1 .. n |-> req[Place(head, i)]]
  OBVIOUS
<1>5. \A i \in 1 .. n : s[i] \in Requests /\ s[i] = req[Place(head, i)]
  BY <1>4 DEF RingInv
<1>6. s \in [1 .. n -> Requests]
  BY <1>4, <1>5
<1>7. s \in Seq(Requests) /\ Len(s) = n
  BY <1>1, <1>6
<1> QED BY <1>1, <1>2, <1>3, <1>4, <1>5, <1>7 DEF RingOf

(* Upto too. *)
LEMMA UptoIs ==
  ASSUME QUEUESIZE \in Nat \ {0}, RingInv, NEW n, n = Size(head, tail),
         NEW r, NEW i \in 0 .. n
  PROVE  Ring!Upto(r, i) = Cardinality(Found(Ring!Queued, r, i))
<1>1. \A S : Ring!Cardinality(S) = Cardinality(S)
  BY DEF Ring!Cardinality, Cardinality
<1>2. n \in Nat /\ \A j \in 1 .. n : Ring!Queued[j] = req[Place(head, j)]
  BY QueuedIs
<1>3. {j \in 1 .. i : req[Ring!At(j)] = r} = Found(Ring!Queued, r, i)
  BY <1>2 DEF Ring!At, Place, Found
<1> QED BY <1>1, <1>3 DEF Ring!Upto
(* What an entry is when the slots it is found through are as they were. *)
LEMMA RingInvNext ==
  ASSUME QUEUESIZE \in Nat \ {0}, RingInv, head' \in Places, tail' \in Places,
         NEW n, n = Size(head', tail'),
         req' = [s \in Places |-> req'[s]],
         NEW q \in Seq(Requests), Len(q) = n,
         \A i \in 1 .. n : req'[Place(head', i)] = q[i]
  PROVE  RingInv' /\ Ring!Queued' = q
<1>1. \A i \in 1 .. n : q[i] \in Requests
  OBVIOUS
<1>2. Size(head, tail)' = n
  BY DEF Size
<1>3. RingInv'
  BY <1>1, <1>2 DEF RingInv, Places, Place
<1>4. Ring!QueueLen' = n
  BY DEF Ring!QueueLen, Size
<1>5. Ring!Queued' = [i \in 1 .. n |-> req'[Place(head', i)]]
  BY <1>4 DEF Ring!Queued, Ring!At, Place
<1>6. q = [i \in 1 .. n |-> q[i]]
  OBVIOUS
<1>7. [i \in 1 .. n |-> req'[Place(head', i)]] = [i \in 1 .. n |-> q[i]]
  OBVIOUS
<1> QED BY <1>3, <1>5, <1>6, <1>7

LEMMA RingInit == Ring!ReqQueueAssumption /\ Ring!Init => RingInv /\ Ring!Abstract!Init
<1> SUFFICES ASSUME Ring!ReqQueueAssumption, Ring!Init PROVE RingInv /\ Ring!Abstract!Init
  OBVIOUS
<1>1. QUEUESIZE \in Nat \ {0} /\ head = 0 /\ tail = 0 /\ result = 0 /\ req = [s \in Places |-> Zero]
  BY DEF Ring!ReqQueueAssumption, Ring!Init, Ring!Slots, Places
<1>2. Size(head, tail) = 0 /\ 0 \in Places
  BY <1>1 DEF Size, Places
<1>3. RingInv
  BY <1>1, <1>2 DEF RingInv
<1>4. Ring!Queued = RingOf(req, head, 0)
  BY <1>1, <1>2, <1>3, QueuedIs
<1>5. Ring!Queued = << >>
  BY <1>4 DEF RingOf
<1> QED BY <1>1, <1>3, <1>5 DEF Ring!Abstract!Init

LEMMA PutStep ==
  ASSUME Ring!ReqQueueAssumption, RingInv, NEW r \in Requests, Ring!QueueRequest(r)
  PROVE  RingInv' /\ Ring!Abstract!Put(r)
<1>0. QUEUESIZE \in Nat \ {0}
  BY DEF Ring!ReqQueueAssumption
<1>1. PICK n : n = Size(head, tail)
  OBVIOUS
<1>2. PICK u : u = (tail + 1) % QUEUESIZE
  OBVIOUS
<1>3. head \in Places /\ tail \in Places
  BY DEF RingInv
<1>4. u \in Places /\ (u = head <=> n = QUEUESIZE - 1) /\ (u # head => Size(head, u) = n + 1)
  BY <1>0, <1>1, <1>2, <1>3, OneMore
<1>5. /\ Ring!Queued \in Seq(Requests) /\ Len(Ring!Queued) = n /\ n \in 0 .. QUEUESIZE - 1
      /\ \A i \in 1 .. n : Ring!Queued[i] = req[Place(head, i)]
  BY <1>0, <1>1, QueuedIs
<1>6. head' = head
  BY DEF Ring!QueueRequest
<1>7. CASE r \notin TooLong /\ u # head
  <2>1. req' = [req EXCEPT ![tail] = r] /\ tail' = u /\ result' = 0
    BY <1>2, <1>7 DEF Ring!QueueRequest
  <2>2. PICK q : q = Append(Ring!Queued, r)
    OBVIOUS
  <2>3. /\ q \in Seq(Requests) /\ Len(q) = n + 1 /\ q[n + 1] = r
        /\ \A i \in 1 .. n : q[i] = Ring!Queued[i]
    BY <1>5, <2>2
  <2>4. tail = Place(head, n + 1)
    BY <1>0, <1>1, <1>3, SizeIs
  <2>5. ASSUME NEW i \in 1 .. n + 1 PROVE req'[Place(head, i)] = q[i]
    <3>1. Place(head, i) \in Places /\ DOMAIN req = Places
      BY <1>0, <1>3, <1>5, PlaceIs DEF RingInv
    <3>2. CASE i = n + 1
      BY <2>1, <2>3, <2>4, <3>1, <3>2
    <3>3. CASE i # n + 1
      <4>1. i \in 1 .. n /\ i \in 1 .. QUEUESIZE /\ n + 1 \in 1 .. QUEUESIZE
        BY <1>0, <1>5, <3>3
      <4>2. Place(head, i) # tail
        BY <1>0, <1>3, <2>4, <3>3, <4>1, PlacesDiffer
      <4>3. req'[Place(head, i)] = req[Place(head, i)]
        BY <2>1, <3>1, <4>2
      <4> QED BY <1>5, <2>3, <4>1, <4>3
    <3> QED BY <3>2, <3>3
  <2>6. req' = [s \in Places |-> req'[s]]
    BY <2>1 DEF RingInv
  <2>7. n + 1 = Size(head', tail')
    BY <1>4, <1>6, <1>7, <2>1
  <2>8. RingInv' /\ Ring!Queued' = q
    BY ZenonT(60), <1>0, <1>3, <1>4, <1>6, <2>1, <2>3, <2>5, <2>6, <2>7, RingInvNext
  <2>9. Len(Ring!Queued) < QUEUESIZE - 1
    BY <1>0, <1>4, <1>5, <1>7
  <2> QED BY <1>7, <2>1, <2>2, <2>8, <2>9 DEF Ring!Abstract!Put
<1>8. CASE ~(r \notin TooLong /\ u # head)
  <2>1. req' = req /\ tail' = tail /\ result' = IF r \in TooLong THEN -1 ELSE -2
    BY <1>2, <1>8 DEF Ring!QueueRequest
  <2>2. RingInv' /\ Ring!Queued' = Ring!Queued
    BY <1>6, <2>1 DEF RingInv, Size, Place, Places, Ring!Queued, Ring!QueueLen, Ring!At
  <2>3. r \notin TooLong => Len(Ring!Queued) = QUEUESIZE - 1
    BY <1>4, <1>5, <1>8
  <2> QED BY <2>1, <2>2, <2>3 DEF Ring!Abstract!Put
<1> QED BY <1>7, <1>8

LEMMA ClearStep ==
  ASSUME Ring!ReqQueueAssumption, RingInv, Ring!ClearRequestQueue
  PROVE  RingInv' /\ Ring!Abstract!Clear
<1>1. QUEUESIZE \in Nat \ {0} /\ head' = tail /\ tail' = tail /\ req' = req /\ result' = Zero
  BY DEF Ring!ReqQueueAssumption, Ring!ClearRequestQueue
<1>2. Size(head', tail') = 0 /\ tail \in Places
  BY <1>1 DEF RingInv, Size, Places
<1>3. << >> \in Seq(Requests) /\ Len(<< >>) = 0
  OBVIOUS
<1>4. RingInv' /\ Ring!Queued' = << >>
  <2>1. req' = [s \in Places |-> req'[s]]
    BY <1>1 DEF RingInv
  <2>2. \A i \in 1 .. 0 : req'[Place(head', i)] = << >>[i]
    OBVIOUS
  <2> QED BY <1>1, <1>2, <1>3, <2>1, <2>2, RingInvNext
<1> QED BY <1>1, <1>4 DEF Ring!Abstract!Clear

LEMMA TakeStep ==
  ASSUME Ring!ReqQueueAssumption, RingInv, Ring!DequeueRequest
  PROVE  RingInv' /\ Ring!Abstract!Take
<1>0. QUEUESIZE \in Nat \ {0} /\ req' = req /\ tail' = tail
  BY DEF Ring!ReqQueueAssumption, Ring!DequeueRequest
<1>1. PICK n : n = Size(head, tail)
  OBVIOUS
<1>2. PICK q : q = Ring!Queued
  OBVIOUS
<1>3. head \in Places /\ tail \in Places
  BY DEF RingInv
<1>4. /\ q \in Seq(Requests) /\ Len(q) = n /\ n \in 0 .. QUEUESIZE - 1
      /\ \A i \in 1 .. n : q[i] = req[Place(head, i)]
  BY <1>0, <1>1, <1>2, QueuedIs
<1>5. n = 0 <=> head = tail
  BY <1>0, <1>1, <1>3, SizeIs
<1>6. CASE head = tail
  <2>1. head' = head /\ result' = Zero
    BY <1>6 DEF Ring!DequeueRequest
  <2>2. RingInv' /\ Ring!Queued' = Ring!Queued
    BY <1>0, <2>1 DEF RingInv, Size, Place, Places, Ring!Queued, Ring!QueueLen, Ring!At
  <2>3. q = << >>
    BY <1>4, <1>5, <1>6
  <2> QED BY <1>2, <2>1, <2>2, <2>3 DEF Ring!Abstract!Take
<1>7. CASE head # tail
  <2>1. PICK g : g = (head + 1) % QUEUESIZE
    OBVIOUS
  <2>2. head' = g /\ result' = req[head]
    BY <1>7, <2>1 DEF Ring!DequeueRequest
  <2>3. /\ g \in Places /\ Size(g, tail) = n - 1
        /\ \A i \in 1 .. n - 1 : Place(g, i) = Place(head, i + 1)
    BY <1>0, <1>1, <1>3, <1>7, <2>1, OneLess
  <2>4. q # << >> /\ n \in 1 .. QUEUESIZE - 1
    BY <1>4, <1>5, <1>7
  <2>5. PICK t : t = Tail(q)
    OBVIOUS
  <2>6. t \in Seq(Requests) /\ Len(t) = n - 1 /\ \A i \in 1 .. n - 1 : t[i] = q[i + 1]
    BY <1>4, <2>4, <2>5
  <2>7. ASSUME NEW i \in 1 .. n - 1 PROVE req'[Place(head', i)] = t[i]
    <3>1. i + 1 \in 1 .. n
      BY <1>4
    <3> QED BY <1>0, <1>4, <2>2, <2>3, <2>6, <3>1
  <2>8. RingInv' /\ Ring!Queued' = t
    <3>1. req' = [s \in Places |-> req'[s]]
      BY <1>0 DEF RingInv
    <3>2. n - 1 = Size(head', tail')
      BY <1>0, <2>2, <2>3
    <3> QED BY <1>0, <1>3, <2>2, <2>3, <2>6, <2>7, <3>1, <3>2, RingInvNext
  <2>9. Head(q) = req[head]
    <3>1. 1 \in 1 .. QUEUESIZE /\ 1 \in 1 .. n
      BY <1>0, <2>4
    <3>2. Place(head, 1) = head
      BY <1>0, <1>3, <3>1, PlaceIs DEF Places
    <3> QED BY <1>4, <2>4, <3>1, <3>2
  <2> QED BY <1>2, <2>2, <2>4, <2>5, <2>8, <2>9 DEF Ring!Abstract!Take
<1> QED BY <1>6, <1>7

(* The i-th slot is the i-th only. *)
LEMMA SlotOfPlace ==
  ASSUME QUEUESIZE \in Nat \ {0}, RingInv, NEW n, n = Size(head, tail), NEW i \in 1 .. n
  PROVE  /\ \E k \in 1 .. n : Place(head, k) = Place(head, i)
         /\ (CHOOSE k \in 1 .. n : Place(head, k) = Place(head, i)) = i
<1>1. n \in 0 .. QUEUESIZE - 1 /\ head \in Places
  BY SizeIs DEF RingInv
<1>2. ASSUME NEW k \in 1 .. n, Place(head, k) = Place(head, i)
      PROVE  k = i
  <2>1. k \in 1 .. QUEUESIZE /\ i \in 1 .. QUEUESIZE
    BY <1>1
  <2> QED BY <1>1, <1>2, <2>1, PlacesDiffer
<1> QED BY <1>2

LEMMA WithdrawStep ==
  ASSUME Ring!ReqQueueAssumption, RingInv, NEW r \in Requests, Ring!RemoveQueuedRequest(r)
  PROVE  RingInv' /\ Ring!Abstract!Withdraw(r)
<1>0. QUEUESIZE \in Nat \ {0} /\ head' = head /\ head \in Places /\ tail \in Places
  BY DEF Ring!ReqQueueAssumption, Ring!RemoveQueuedRequest, RingInv
<1>1. PICK n : n = Size(head, tail)
  OBVIOUS
<1>2. PICK q : q = Ring!Queued
  OBVIOUS
<1>3. /\ q \in Seq(Requests) /\ Len(q) = n /\ n \in 0 .. QUEUESIZE - 1 /\ Ring!QueueLen = n
      /\ \A i \in 1 .. n : q[i] = req[Place(head, i)]
  BY <1>0, <1>1, <1>2, QueuedIs
<1> DEFINE Matches(i) == Cardinality(Found(q, r, i))
<1>4. PICK k : k = Matches(n)
  OBVIOUS
<1>5. k \in 0 .. n /\ \A i \in 1 .. n : Matches(i) \in 0 .. i /\ Matches(i) <= k
  BY <1>3, <1>4, FoundBounded
<1>6. \A i \in 0 .. n : Ring!Upto(r, i) = Matches(i)
  BY <1>0, <1>1, <1>2, UptoIs
<1>7. Ring!Upto(r, Ring!QueueLen) = k
  BY <1>3, <1>4, <1>6
<1>8. PICK u : u = (tail + QUEUESIZE - k) % QUEUESIZE
  OBVIOUS
<1>9. tail' = u /\ result' = k
  BY <1>7, <1>8 DEF Ring!RemoveQueuedRequest
<1>10. u \in Places /\ Size(head, u) = n - k
  BY <1>0, <1>1, <1>5, <1>8, SomeLess
<1>11. req' = [s \in Places |->
         IF \E i \in 1 .. n : Place(head, i) = s
         THEN LET i == CHOOSE j \in 1 .. n : Place(head, j) = s
              IN  req[(s + Ring!Upto(r, i)) % QUEUESIZE]
         ELSE req[s]]
  BY <1>3 DEF Ring!RemoveQueuedRequest, Ring!Slots, Ring!At, Places, Place
<1>12. ASSUME NEW i \in 1 .. n - k
       PROVE  /\ i + Matches(i) \in 1 .. n /\ req'[Place(head, i)] = q[i + Matches(i)]
  <2>1. i \in 1 .. n /\ i \in 1 .. QUEUESIZE /\ Matches(i) \in Nat /\ Matches(i) <= k
    BY <1>0, <1>3, <1>5
  <2>2. i + Matches(i) \in 1 .. n /\ i + Matches(i) <= QUEUESIZE
    BY <1>0, <1>3, <1>5, <2>1
  <2>3. Place(head, i) \in Places
    BY <1>0, <2>1, PlaceIs
  <2>4. /\ \E j \in 1 .. n : Place(head, j) = Place(head, i)
        /\ (CHOOSE j \in 1 .. n : Place(head, j) = Place(head, i)) = i
    BY <1>0, <1>1, <2>1, SlotOfPlace
  <2>5. req'[Place(head, i)] = req[(Place(head, i) + Ring!Upto(r, i)) % QUEUESIZE]
    BY <1>11, <2>3, <2>4
  <2>6. (Place(head, i) + Matches(i)) % QUEUESIZE = Place(head, i + Matches(i))
    BY <1>0, <2>1, <2>2, FurtherOn
  <2>7. Ring!Upto(r, i) = Matches(i)
    BY <1>6, <2>1
  <2>8. req'[Place(head, i)] = req[Place(head, i + Matches(i))]
    BY <2>5, <2>6, <2>7
  <2> QED BY <1>3, <2>2, <2>8
<1>13. PICK t : t = [i \in 1 .. n - k |-> q[i + Matches(i)]]
  OBVIOUS
<1>14. n - k \in Nat
  BY <1>3, <1>5
<1>15. t \in Seq(Requests) /\ Len(t) = n - k /\ \A i \in 1 .. n - k : t[i] = q[i + Matches(i)]
  <2>1. \A i \in 1 .. n - k : t[i] = q[i + Matches(i)] /\ t[i] \in Requests
    BY <1>3, <1>12, <1>13
  <2>2. t \in [1 .. n - k -> Requests]
    BY <1>13, <2>1
  <2> QED BY <1>14, <2>1, <2>2
<1>16. req' = [s \in Places |-> req'[s]]
  BY <1>11
<1>17. RingInv' /\ Ring!Queued' = t
  <2>1. \A i \in 1 .. n - k : req'[Place(head', i)] = t[i]
    BY <1>0, <1>12, <1>15
  <2>2. n - k = Size(head', tail')
    BY <1>0, <1>9, <1>10
  <2> QED BY <1>0, <1>9, <1>10, <1>15, <1>16, <2>1, <2>2, RingInvNext
<1>18. /\ Ring!Abstract!Times(q, r) = k
       /\ \A i \in 1 .. n : Ring!Abstract!Times(SubSeq(q, 1, i), r) = Matches(i)
  BY <1>3, <1>4, TimesIs
<1>19. Ring!Abstract!Unqueued(q, r) = t
  <2>1. \A i \in 1 .. n - k : q[i + Ring!Abstract!Times(SubSeq(q, 1, i), r)] = q[i + Matches(i)]
    BY <1>3, <1>5, <1>18
  <2>2. Ring!Abstract!Unqueued(q, r)
          = [i \in 1 .. n - k |-> q[i + Ring!Abstract!Times(SubSeq(q, 1, i), r)]]
    BY <1>3, <1>18 DEF Ring!Abstract!Unqueued
  <2> QED BY <1>13, <2>1, <2>2
<1> QED BY <1>2, <1>9, <1>17, <1>18, <1>19 DEF Ring!Abstract!Withdraw

LEMMA RingStep ==
  Ring!ReqQueueAssumption /\ RingInv /\ [Ring!Next]_(Ring!vars)
    => RingInv' /\ [Ring!Abstract!Next]_<<Ring!Queued, result>>
<1> SUFFICES ASSUME Ring!ReqQueueAssumption, RingInv, [Ring!Next]_(Ring!vars)
             PROVE  RingInv' /\ [Ring!Abstract!Next]_<<Ring!Queued, result>>
  OBVIOUS
<1>1. CASE \E r \in Requests : Ring!QueueRequest(r)
  BY <1>1, PutStep DEF Ring!Abstract!Next
<1>2. CASE \E r \in Requests : Ring!RemoveQueuedRequest(r)
  BY <1>2, WithdrawStep DEF Ring!Abstract!Next
<1>3. CASE Ring!ClearRequestQueue
  BY <1>3, ClearStep DEF Ring!Abstract!Next
<1>4. CASE Ring!DequeueRequest
  BY <1>4, TakeStep DEF Ring!Abstract!Next
<1>5. CASE UNCHANGED Ring!vars
  <2>1. req' = req /\ head' = head /\ tail' = tail /\ result' = result
    BY <1>5 DEF Ring!vars
  <2> QED BY <2>1 DEF RingInv, Size, Place, Places, Ring!Queued, Ring!QueueLen, Ring!At
<1> QED BY <1>1, <1>2, <1>3, <1>4, <1>5 DEF Ring!Next

LEMMA RingGives == Ring!ReqQueueAssumption /\ RingInv => Ring!TypeOK
<1> SUFFICES ASSUME Ring!ReqQueueAssumption, RingInv PROVE Ring!TypeOK
  OBVIOUS
<1>1. QUEUESIZE \in Nat \ {0}
  BY DEF Ring!ReqQueueAssumption
<1>2. Ring!Queued \in Seq(Requests)
  BY <1>1, QueuedIs
<1> QED BY <1>2 DEF Ring!TypeOK, RingInv, Places, Ring!Slots

(* The ring of libbt's peer.c is the sequence its callers take it for: what *)
(* is queued, dequeued, cleared and removed, of equal requests too, wherever *)
(* the ring wraps and whatever QUEUESIZE is.                                *)
THEOREM RingIsAQueue ==
  ASSUME Ring!ReqQueueAssumption
  PROVE  Ring!Spec => Ring!IsAQueue /\ []Ring!TypeOK
<1>1. Ring!Init => RingInv /\ Ring!Abstract!Init
  BY RingInit
<1>2. RingInv /\ [Ring!Next]_(Ring!vars) => RingInv' /\ [Ring!Abstract!Next]_<<Ring!Queued, result>>
  BY RingStep
<1>3. RingInv => Ring!TypeOK
  BY RingGives
<1> QED BY <1>1, <1>2, <1>3, PTL DEF Ring!Spec, Ring!IsAQueue, Ring!Abstract!Spec

-----------------------------------------------------------------------------
(* The answers to queries (Kquery): who is in a bucket as seen has answered. *)

Heard(s, A) == \A i \in DOMAIN s : s[i].seen # 0 => s[i].id \in A

LEMMA HeardPut ==
  ASSUME NEW A, NEW S, NEW s \in Seq(S), NEW k \in DOMAIN s, NEW n \in S,
         Heard(s, A), n.seen # 0 => n.id \in A
  PROVE  Heard([s EXCEPT ![k] = n], A)
<1>1. PICK t : t = [s EXCEPT ![k] = n]
  OBVIOUS
<1>2. DOMAIN t = DOMAIN s /\ t[k] = n /\ \A i \in DOMAIN s : i # k => t[i] = s[i]
  BY <1>1, ExceptProperties
<1>3. Heard(t, A)
  BY <1>2 DEF Heard
<1> QED BY <1>1, <1>3

LEMMA HeardAdd ==
  ASSUME NEW A, NEW S, NEW s \in Seq(S), NEW n \in S, Heard(s, A), n.seen # 0 => n.id \in A
  PROVE  Heard(Append(s, n), A)
<1>1. PICK t : t = Append(s, n)
  OBVIOUS
<1>2. /\ Len(s) \in Nat /\ DOMAIN s = 1 .. Len(s) /\ DOMAIN t = 1 .. Len(s) + 1
      /\ t[Len(s) + 1] = n /\ \A i \in 1 .. Len(s) : t[i] = s[i]
  BY <1>1, AppendProperties, SeqProperties
<1>3. Heard(t, A)
  BY <1>2 DEF Heard
<1> QED BY <1>1, <1>3

LEMMA HeardEntries ==
  ASSUME NEW A, NEW S, NEW s \in Seq(S), NEW I \in SUBSET (DOMAIN s), Heard(s, A)
  PROVE  Heard(Entries(s, I), A)
<1>1. PICK t : t = Entries(s, I)
  OBVIOUS
<1>2. /\ t \in Seq(S) /\ Len(t) = Cardinality(I)
      /\ \E f : Ordered(f, I) /\ \A i \in 1 .. Cardinality(I) : t[i] = s[f[i]]
  BY <1>1, EntriesProperties
<1>3. DOMAIN t = 1 .. Cardinality(I)
  BY <1>2, SeqProperties
<1>4. PICK f : /\ f \in [1 .. Cardinality(I) -> I]
               /\ \A i \in 1 .. Cardinality(I) : t[i] = s[f[i]]
  BY <1>2 DEF Ordered
<1>5. Heard(t, A)
  BY <1>3, <1>4 DEF Heard
<1> QED BY <1>1, <1>5

LEMMA NewIsNode ==
  ASSUME NEW Is, NEW Hs, NEW item \in [id : Is, host : Hs]
  PROVE  NewNode(item) \in Nodes(Is, Hs) /\ NewNode(item).seen = 0
  BY KnodeAssumption DEF NewNode, Nodes

LEMMA SetIsNode ==
  ASSUME NEW Is, NEW Hs, NEW item \in [id : Is, host : Hs], NEW n \in Nodes(Is, Hs)
  PROVE  SetItem(n, item) \in Nodes(Is, Hs) /\ SetItem(n, item).seen = n.seen /\ SetItem(n, item).id = item.id
  BY DEF SetItem, Nodes

(* Whoever meets a node may see it only with an answer. *)
LEMMA MeetHeard ==
  ASSUME NEW A, NEW Is, NEW Hs, NEW n \in Nodes(Is, Hs),
         NEW contacted \in BOOLEAN, NEW now \in Nat,
         contacted => n.id \in A, n.seen # 0 => n.id \in A
  PROVE  Meet(n, contacted, now).seen # 0 => Meet(n, contacted, now).id \in A
<1>1. CASE contacted
  <2>1. Meet(n, contacted, now) = [n EXCEPT !.seen = now, !.failed = 0]
    BY <1>1 DEF Meet, Touch
  <2>2. [n EXCEPT !.seen = now, !.failed = 0].id = n.id
    BY DEF Nodes
  <2>3. n.id \in A
    BY <1>1
  <2> QED BY <2>1, <2>2, <2>3
<1>2. CASE ~contacted
  BY <1>2 DEF Meet
<1> QED BY <1>1, <1>2

LEMMA BackupHeard ==
  ASSUME NEW A, NEW Is, NEW Hs, K \in Nat \ {0}, NEW s \in Seq(Nodes(Is, Hs)),
         Heard(s, A), NEW item \in [id : Is, host : Hs], NEW contacted \in BOOLEAN,
         NEW now \in Nat, contacted => item.id \in A
  PROVE  Heard(UpdateBackup(s, item, contacted, now), A)
<1> DEFINE N == Nodes(Is, Hs)
           mine == SlotsOf(s, item.id)
           fresh == Meet(NewNode(item), contacted, now)
           old == Oldest(s)
           u == UpdateBackup(s, item, contacted, now)
<1>1. Len(s) \in Nat /\ DOMAIN s = 1 .. Len(s) /\ \A i \in DOMAIN s : s[i] \in N
  BY SeqProperties
<1>2. fresh \in N /\ (fresh.seen # 0 => fresh.id \in A)
  <2>1. NewNode(item) \in N /\ NewNode(item).seen = 0 /\ NewNode(item).id = item.id
    BY NewIsNode DEF NewNode
  <2>2. fresh.seen # 0 => fresh.id \in A
    <3>1. contacted => NewNode(item).id \in A
      BY <2>1
    <3> HIDE DEF fresh
    <3> QED BY <2>1, <3>1, MeetHeard DEF fresh
  <2> QED BY <2>2, FreshNode
<1>3. CASE mine # {}
  <2> DEFINE m == Min(mine)
             n == Meet(s[m], contacted, now)
  <2>1. m \in DOMAIN s /\ s[m].id = item.id
    <3>1. m \in mine
      BY <1>3, FirstSlot DEF SlotsOf
    <3> QED BY <3>1 DEF SlotsOf
  <2>2. u = [s EXCEPT ![m] = n]
    BY <1>3, <2>1 DEF UpdateBackup
  <2>3. n \in N
    BY <1>1, <2>1, NodeSteps
  <2>4. n.seen # 0 => n.id \in A
    <3>1. s[m].seen # 0 => s[m].id \in A
      BY <2>1 DEF Heard
    <3>2. s[m] \in N /\ (contacted => s[m].id \in A)
      BY <1>1, <2>1
    <3> HIDE DEF m
    <3> QED BY <3>1, <3>2, MeetHeard
  <2> HIDE DEF n, m, u, N
  <2>5. s \in Seq(N)
    BY DEF N
  <2>6. Heard([s EXCEPT ![m] = n], A)
    BY <2>1, <2>3, <2>4, <2>5, HeardPut
  <2> QED BY <2>2, <2>6 DEF u
<1>4. CASE mine = {} /\ Len(s) < K
  <2>1. u = Append(s, fresh)
    BY <1>4 DEF UpdateBackup
  <2> HIDE DEF fresh, u, N
  <2>2. s \in Seq(N)
    BY DEF N
  <2>3. Heard(Append(s, fresh), A)
    BY <1>2, <2>2, HeardAdd
  <2> QED BY <2>1, <2>3 DEF u
<1>5. CASE mine = {} /\ ~(Len(s) < K)
  <2>1. u = IF contacted \/ s[old].seen = 0 THEN [s EXCEPT ![old] = fresh] ELSE s
    BY <1>5 DEF UpdateBackup
  <2>2. old \in DOMAIN s
    <3>1. s # <<>>
      BY <1>1, <1>5
    <3> QED BY <3>1, ExtremeSlots
  <2> HIDE DEF fresh, u, N, old
  <2>3. s \in Seq(N)
    BY DEF N
  <2>4. Heard([s EXCEPT ![old] = fresh], A)
    BY <1>2, <2>2, <2>3, HeardPut
  <2> QED BY <2>1, <2>4 DEF u
<1> QED BY <1>3, <1>4, <1>5

LEMMA UpdateHeard ==
  ASSUME NEW A, NEW Is, NEW Hs, K \in Nat \ {0}, NullId \notin Is, NEW b, SoundBucket(b, Is, Hs),
         Heard(b.nodes, A), Heard(b.backups, A),
         NEW item \in [id : Is, host : Hs], NEW contacted \in BOOLEAN, NEW now \in Nat,
         contacted => item.id \in A, NEW r, r = UpdateContact(b, item, contacted, now)
  PROVE  Heard(r.nodes, A) /\ Heard(r.backups, A)
<1> DEFINE N == Nodes(Is, Hs)
           mine == SlotsOf(b.nodes, item.id)
           bad == {i \in DOMAIN b.nodes : IsBad(b.nodes[i])}
           doubt == {i \in DOMAIN b.nodes : IsDoubt(b.nodes[i], now)}
           fresh == Meet(NewNode(item), contacted, now)
<1>1. /\ b \in [nodes : Seq(N), backups : Seq(N), needPing : BOOLEAN]
      /\ b.nodes \in Seq(N) /\ b.backups \in Seq(N)
      /\ \A i \in DOMAIN b.nodes : b.nodes[i] \in N
  BY SeqProperties DEF SoundBucket
<1>2. fresh \in N /\ (fresh.seen # 0 => fresh.id \in A)
  <2>1. NewNode(item) \in N /\ NewNode(item).seen = 0 /\ NewNode(item).id = item.id
    BY NewIsNode DEF NewNode
  <2>2. fresh.seen # 0 => fresh.id \in A
    <3>1. contacted => NewNode(item).id \in A
      BY <2>1
    <3> HIDE DEF fresh
    <3> QED BY <2>1, <3>1, MeetHeard DEF fresh
  <2> QED BY <2>2, FreshNode
<1>3. CASE mine # {}
  <2> DEFINE m == Min(mine)
             c == SetItem(b.nodes[m], item)
             n == Meet(c, contacted, now)
  <2>1. m \in DOMAIN b.nodes /\ b.nodes[m].id = item.id
    <3>1. m \in mine
      BY <1>1, <1>3, FirstSlot DEF SlotsOf
    <3> QED BY <3>1 DEF SlotsOf
  <2>2. r = [b EXCEPT !.nodes = [b.nodes EXCEPT ![m] = n]]
    BY <1>3, <2>1 DEF UpdateContact
  <2>3. n \in N
    BY <1>1, <2>1, NodeSteps
  <2>4. c \in N /\ c.seen = b.nodes[m].seen /\ c.id = item.id
    BY <1>1, <2>1, SetIsNode
  <2>5. n.seen # 0 => n.id \in A
    <3>1. c.seen # 0 => c.id \in A
      BY <2>1, <2>4 DEF Heard
    <3>2. contacted => c.id \in A
      BY <2>4
    <3> HIDE DEF c
    <3> QED BY <2>4, <3>1, <3>2, MeetHeard
  <2> HIDE DEF n, m, N
  <2>6. Heard([b.nodes EXCEPT ![m] = n], A)
    BY <1>1, <2>1, <2>3, <2>5, HeardPut
  <2>7. r.nodes = [b.nodes EXCEPT ![m] = n] /\ r.backups = b.backups
    BY <1>1, <2>2
  <2> QED BY <2>6, <2>7
<1>4. CASE mine = {} /\ Len(b.nodes) < K
  <2>1. r = [b EXCEPT !.nodes = Append(b.nodes, fresh)]
    BY <1>4 DEF UpdateContact
  <2> HIDE DEF fresh, N
  <2>2. Heard(Append(b.nodes, fresh), A)
    BY <1>1, <1>2, HeardAdd
  <2>3. r.nodes = Append(b.nodes, fresh) /\ r.backups = b.backups
    BY <1>1, <2>1
  <2> QED BY <2>2, <2>3
<1>5. CASE mine = {} /\ Len(b.nodes) >= K /\ bad # {}
  <2> DEFINE m == Min(bad)
  <2>1. m \in DOMAIN b.nodes
    BY <1>1, <1>5, FirstSlot
  <2>2. r = [b EXCEPT !.nodes = [b.nodes EXCEPT ![m] = fresh]]
    BY <1>5, <2>1 DEF UpdateContact
  <2> HIDE DEF fresh, N, m
  <2>3. Heard([b.nodes EXCEPT ![m] = fresh], A)
    BY <1>1, <1>2, <2>1, HeardPut
  <2>4. r.nodes = [b.nodes EXCEPT ![m] = fresh] /\ r.backups = b.backups
    BY <1>1, <2>2
  <2> QED BY <2>3, <2>4
<1>6. CASE mine = {} /\ Len(b.nodes) >= K /\ bad = {} /\ doubt = {}
  <2>1. r = [b EXCEPT !.backups = <<>>]
    BY <1>6 DEF UpdateContact
  <2>2. r.nodes = b.nodes /\ r.backups = <<>>
    BY <1>1, <2>1
  <2> QED BY <2>2 DEF Heard
<1>7. CASE mine = {} /\ Len(b.nodes) >= K /\ bad = {} /\ doubt # {}
  <2> DEFINE u == UpdateBackup(b.backups, item, contacted, now)
  <2>1. r = [b EXCEPT !.backups = u, !.needPing = TRUE]
    BY <1>7 DEF UpdateContact
  <2>2. Heard(u, A)
    BY <1>1, BackupHeard
  <2> HIDE DEF u, N
  <2>3. r.nodes = b.nodes /\ r.backups = u
    BY <1>1, <2>1
  <2> QED BY <2>2, <2>3
<1>8. Len(b.nodes) < K \/ Len(b.nodes) >= K
  BY <1>1
<1> QED BY <1>3, <1>4, <1>5, <1>6, <1>7, <1>8

LEMMA FailedHeard ==
  ASSUME NEW A, NEW Is, NEW Hs, K \in Nat \ {0}, NullId \notin Is, NEW b, SoundBucket(b, Is, Hs),
         Heard(b.nodes, A), Heard(b.backups, A),
         NEW item \in [id : Is, host : Hs], NEW now \in Nat,
         NEW r, r = FailedContact(b, item, now)
  PROVE  Heard(r.nodes, A) /\ Heard(r.backups, A)
<1> DEFINE N == Nodes(Is, Hs)
           mine == SlotsOf(b.nodes, item.id)
           slot == Min(mine)
           struck == IF mine = {} THEN b.nodes
                     ELSE [b.nodes EXCEPT ![slot] = Failed(b.nodes[slot])]
           keep == {i \in DOMAIN b.backups : b.backups[i].id # item.id /\ b.backups[i].id # NullId}
           left == Usable(b.backups, item.id)
           null == NewNode([id |-> NullId, host |-> NullId])
           last == Latest(left)
<1>1. /\ b \in [nodes : Seq(N), backups : Seq(N), needPing : BOOLEAN]
      /\ b.nodes \in Seq(N) /\ b.backups \in Seq(N)
      /\ \A i \in DOMAIN b.nodes : b.nodes[i] \in N
  BY SeqProperties DEF SoundBucket
<1>2. /\ struck \in Seq(N) /\ Heard(struck, A)
      /\ mine # {} => slot \in DOMAIN struck
  <2>1. CASE mine = {}
    BY <1>1, <2>1
  <2>2. CASE mine # {}
    <3> DEFINE n == Failed(b.nodes[slot])
    <3>1. slot \in DOMAIN b.nodes
      BY <1>1, <2>2, FirstSlot DEF SlotsOf
    <3>2. n \in N /\ n.id = b.nodes[slot].id /\ n.seen = b.nodes[slot].seen
      BY <1>1, <3>1, NodeSteps
    <3>3. n.seen # 0 => n.id \in A
      BY <3>1, <3>2 DEF Heard
    <3>4. struck = [b.nodes EXCEPT ![slot] = n]
      BY <2>2
    <3> HIDE DEF n, slot, struck, N
    <3>5. Heard(struck, A)
      BY <1>1, <3>1, <3>2, <3>3, <3>4, HeardPut
    <3>6. struck \in Seq(N) /\ DOMAIN struck = DOMAIN b.nodes
      BY <1>1, <3>1, <3>2, <3>4, ExceptProperties
    <3> QED BY <3>1, <3>5, <3>6
  <2> QED BY <2>1, <2>2
<1>3. left \in Seq(N) /\ Heard(left, A)
  <2>1. keep \in SUBSET DOMAIN b.backups /\ left = Entries(b.backups, keep)
    BY DEF Usable
  <2> HIDE DEF keep, left, N
  <2> QED BY <1>1, <2>1, EntriesProperties, HeardEntries
<1>4. r = IF mine # {} /\ left # <<>> /\ Replaceable(struck[slot], now)
          THEN [b EXCEPT !.nodes = [struck EXCEPT ![slot] = left[last]],
                         !.backups = [left EXCEPT ![last] = null]]
          ELSE [b EXCEPT !.nodes = struck, !.backups = left]
  BY DEF FailedContact
<1>5. CASE mine # {} /\ left # <<>> /\ Replaceable(struck[slot], now)
  <2>1. r = [b EXCEPT !.nodes = [struck EXCEPT ![slot] = left[last]],
                      !.backups = [left EXCEPT ![last] = null]]
    BY <1>4, <1>5
  <2>2. last \in DOMAIN left
    BY <1>3, <1>5, ExtremeSlots
  <2>3. null \in N /\ null.seen = 0
    BY NullNode DEF NewNode
  <2> HIDE DEF null, last, left, struck, slot, N, mine
  <2>4. left[last] \in N /\ (left[last].seen # 0 => left[last].id \in A)
    BY <1>3, <2>2, SeqProperties DEF Heard
  <2>5. Heard([struck EXCEPT ![slot] = left[last]], A)
    BY <1>2, <1>5, <2>4, HeardPut
  <2>6. Heard([left EXCEPT ![last] = null], A)
    BY <1>3, <2>2, <2>3, HeardPut
  <2>7. r.nodes = [struck EXCEPT ![slot] = left[last]] /\ r.backups = [left EXCEPT ![last] = null]
    BY <1>1, <2>1
  <2> QED BY <2>5, <2>6, <2>7
<1>6. CASE ~(mine # {} /\ left # <<>> /\ Replaceable(struck[slot], now))
  <2>1. r = [b EXCEPT !.nodes = struck, !.backups = left]
    BY <1>4, <1>6
  <2> HIDE DEF left, struck, N, mine
  <2>2. r.nodes = struck /\ r.backups = left
    BY <1>1, <2>1
  <2> QED BY <1>2, <1>3, <2>2
<1> QED BY <1>5, <1>6

LEMMA HeardConcat ==
  ASSUME NEW A, NEW S, NEW s \in Seq(S), NEW t \in Seq(S), Heard(s, A), Heard(t, A)
  PROVE  Heard(s \o t, A)
<1>1. PICK u : u = s \o t
  OBVIOUS
<1>2. /\ Len(s) \in Nat /\ Len(t) \in Nat /\ DOMAIN s = 1 .. Len(s) /\ DOMAIN t = 1 .. Len(t)
      /\ DOMAIN u = 1 .. Len(s) + Len(t)
      /\ \A i \in 1 .. Len(s) + Len(t) : u[i] = IF i <= Len(s) THEN s[i] ELSE t[i - Len(s)]
  BY <1>1
<1>3. ASSUME NEW i \in DOMAIN u, u[i].seen # 0
      PROVE  u[i].id \in A
  <2>1. CASE i <= Len(s)
    <3>1. i \in DOMAIN s /\ u[i] = s[i]
      BY <1>2, <2>1
    <3> QED BY <1>3, <3>1 DEF Heard
  <2>2. CASE ~(i <= Len(s))
    <3>1. i - Len(s) \in DOMAIN t /\ u[i] = t[i - Len(s)]
      BY <1>2, <2>2
    <3> QED BY <1>3, <3>1 DEF Heard
  <2> QED BY <2>1, <2>2
<1> QED BY <1>1, <1>3 DEF Heard

VARIABLES reply, answered

Asking == INSTANCE Kquery

(* A node that is given out was seen not long ago, or failed twice unseen.  *)
MayBeGiven(n, now) ==
  IF n.seen # 0 THEN n.seen + DoubtAge >= now ELSE n.failed = 2

LEMMA FoundGood ==
  ASSUME NEW b, SoundBucket(b, Ids, Hosts), NEW now \in Nat, NEW r, r = FindNodes(b, TRUE, now)
  PROVE  /\ r \in Seq(Nodes(Ids, Hosts)) /\ Len(r) <= Len(b.nodes)
         /\ \A i \in DOMAIN r : MayBeGiven(r[i], now)
<1> DEFINE N == Nodes(Ids, Hosts)
           good == {i \in DOMAIN b.nodes : TRUE => IsGood(b.nodes[i], now)}
<1>1. b.nodes \in Seq(N) /\ \A i \in DOMAIN b.nodes : b.nodes[i] \in N
  BY SeqProperties DEF SoundBucket
<1>2. good \in SUBSET (DOMAIN b.nodes) /\ r = Entries(b.nodes, good)
  BY DEF FindNodes
<1>8. PICK s : s = b.nodes /\ s \in Seq(N)
  BY <1>1
<1>3. \A i \in good : b.nodes[i] \in N /\ IsGood(b.nodes[i], now)
  BY <1>1
<1> HIDE DEF good
<1>4. /\ r \in Seq(N) /\ Len(r) = Cardinality(good) /\ Cardinality(good) <= Len(b.nodes)
      /\ \E f : Ordered(f, good) /\ \A i \in 1 .. Cardinality(good) : r[i] = b.nodes[f[i]]
  <2> HIDE DEF N
  <2>1. good \in SUBSET (DOMAIN s) /\ r = Entries(s, good)
    BY <1>2, <1>8
  <2>2. /\ r \in Seq(N) /\ Len(r) = Cardinality(good) /\ Cardinality(good) <= Len(s)
        /\ \E f : Ordered(f, good) /\ \A i \in 1 .. Cardinality(good) : r[i] = s[f[i]]
    <3>1. /\ Entries(s, good) \in Seq(N) /\ Len(Entries(s, good)) = Cardinality(good)
          /\ Cardinality(good) <= Len(s)
      BY <1>8, <2>1, EntriesProperties
    <3>2. \E f : /\ Ordered(f, good)
                 /\ \A i \in 1 .. Cardinality(good) : Entries(s, good)[i] = s[f[i]]
      BY <1>8, <2>1, EntriesProperties
    <3> QED BY <2>1, <3>1, <3>2
  <2> QED BY <1>8, <2>2
<1>5. DOMAIN r = 1 .. Cardinality(good)
  BY <1>4, SeqProperties
<1>6. PICK f : /\ f \in [1 .. Cardinality(good) -> good]
               /\ \A i \in 1 .. Cardinality(good) : r[i] = b.nodes[f[i]]
  BY <1>4 DEF Ordered
<1>7. ASSUME NEW i \in DOMAIN r
      PROVE  MayBeGiven(r[i], now)
  <2>1. PICK n : n = r[i]
    OBVIOUS
  <2>2. n \in N /\ IsGood(n, now)
    BY <1>3, <1>5, <1>6, <2>1
  <2>3. n.seen \in Nat /\ n.failed \in Nat
    BY <2>2 DEF Nodes
  <2>4. MayBeGiven(n, now)
    BY <2>2, <2>3, KnodeAssumption DEF IsGood, IsDoubt, IsBad, MayBeGiven
  <2> QED BY <2>1, <2>4
<1> QED BY <1>4, <1>7

QueryInv ==
  /\ SoundBucket(bucket, Ids, Hosts) /\ clock \in Nat
  /\ Heard(bucket.nodes, answered) /\ Heard(bucket.backups, answered)
  /\ reply.kind \in {"none", "get_peers", "find_node", "ping"}
  /\ reply.token = (reply.kind = "get_peers")
  /\ reply.nodes \in Seq(Nodes(Ids, Hosts)) /\ Len(reply.nodes) <= K
  /\ \A i \in DOMAIN reply.nodes : MayBeGiven(reply.nodes[i], clock)

(* A reply without nodes is in order whatever the time.                     *)
LEMMA NoNodes ==
  /\ Asking!Silence.kind = "none" /\ Asking!Silence.token = FALSE /\ Asking!Silence.nodes = << >>
  /\ << >> \in Seq(Nodes(Ids, Hosts)) /\ Len(<< >>) = 0 /\ \A i \in DOMAIN << >> : FALSE
BY DEF Asking!Silence

LEMMA SameOperations ==
  /\ \A b, item, contacted, now :
       Asking!UpdateContact(b, item, contacted, now) = UpdateContact(b, item, contacted, now)
  /\ \A b, item, now : Asking!FailedContact(b, item, now) = FailedContact(b, item, now)
  /\ \A b, now : Asking!FindNodes(b, TRUE, now) = FindNodes(b, TRUE, now)
  /\ \A n : Asking!IsBad(n) = IsBad(n)
<1>1. \A b, item, contacted, now :
        Asking!UpdateContact(b, item, contacted, now) = UpdateContact(b, item, contacted, now)
  BY DEF UpdateContact, SlotsOf, IsBad, IsDoubt, Meet, Touch, NewNode, SetItem, UpdateBackup, Oldest,
         Asking!UpdateContact, Asking!SlotsOf, Asking!IsBad, Asking!IsDoubt, Asking!Meet,
         Asking!Touch, Asking!NewNode, Asking!SetItem, Asking!UpdateBackup, Asking!Oldest, Min, Asking!Min
<1>2. \A b, item, now : Asking!FailedContact(b, item, now) = FailedContact(b, item, now)
  BY SMTT(30) DEF FailedContact, SlotsOf, Failed, Usable, Entries, NewNode, Replaceable, Latest, Min, Cardinality,
         Asking!FailedContact, Asking!SlotsOf, Asking!Failed, Asking!Usable, Asking!Entries,
         Asking!NewNode, Asking!Replaceable, Asking!Latest, Asking!Min, Asking!Cardinality
<1>3. \A b, now : Asking!FindNodes(b, TRUE, now) = FindNodes(b, TRUE, now)
  BY DEF FindNodes, Entries, IsGood, IsDoubt, IsBad, Cardinality,
         Asking!FindNodes, Asking!Entries, Asking!IsGood, Asking!IsDoubt, Asking!IsBad, Asking!Cardinality
<1>4. \A n : Asking!IsBad(n) = IsBad(n)
  BY DEF IsBad, Asking!IsBad
<1> QED BY <1>1, <1>2, <1>3, <1>4

LEMMA QueryInit == KbucketAssumption /\ Asking!Init => QueryInv
<1> SUFFICES ASSUME KbucketAssumption, Asking!Init PROVE QueryInv
  OBVIOUS
<1>1. bucket = EmptyBucket /\ clock \in Nat /\ reply = Asking!Silence
  BY DEF Asking!Init, Asking!EmptyBucket, EmptyBucket, KbucketAssumption
<1>2. SoundBucket(bucket, Ids, Hosts)
  BY <1>1, EmptyBucketSound DEF KbucketAssumption
<1>3. Heard(<< >>, answered)
  BY DEF Heard
<1>4. bucket.nodes = << >> /\ bucket.backups = << >>
  BY <1>1 DEF EmptyBucket
<1>5. reply.kind = "none" /\ reply.token = FALSE /\ reply.nodes = << >>
  BY <1>1, NoNodes
<1>6. reply.token = (reply.kind = "get_peers")
  BY <1>5
<1>7. Heard(bucket.nodes, answered) /\ Heard(bucket.backups, answered)
  BY <1>3, <1>4
<1>8. /\ reply.nodes \in Seq(Nodes(Ids, Hosts)) /\ Len(reply.nodes) <= K
      /\ \A i \in DOMAIN reply.nodes : MayBeGiven(reply.nodes[i], clock)
  BY <1>5, NoNodes DEF KbucketAssumption
<1> QED BY <1>1, <1>2, <1>5, <1>6, <1>7, <1>8 DEF QueryInv

LEMMA QueryStep ==
  ASSUME KbucketAssumption, QueryInv, NEW item \in Items, NEW wellFormed \in BOOLEAN, NEW q \in Asking!Queries,
         NEW targeted \in BOOLEAN, Asking!Query(item, wellFormed, q, targeted)
  PROVE  /\ QueryInv'
         /\ \A i \in DOMAIN bucket.nodes :
              IsBad(bucket.nodes[i])
              \/ (i \in DOMAIN bucket'.nodes /\ bucket'.nodes[i].id = bucket.nodes[i].id)
<1>1. /\ SoundBucket(bucket, Ids, Hosts) /\ clock \in Nat /\ clock' = clock /\ answered' = answered
      /\ Heard(bucket.nodes, answered) /\ Heard(bucket.backups, answered)
      /\ K \in Nat \ {0} /\ NullId \notin Ids /\ item \in [id : Ids, host : Hosts]
  BY DEF QueryInv, Asking!Query, KbucketAssumption, Items
<1>2. PICK h : h = Asking!Handler(q)
  OBVIOUS
<1>3. CASE wellFormed /\ h \in {"get_peers", "find_node"} /\ targeted
  <2>1. /\ reply' = [kind |-> h, to |-> item.host, token |-> h = "get_peers",
                     nodes |-> FindNodes(bucket, TRUE, clock)]
        /\ bucket' = UpdateContact(bucket, item, FALSE, clock)
    BY <1>2, <1>3, SameOperations DEF Asking!Query
  <2>2. SoundBucket(bucket', Ids, Hosts) /\ UpdateKeeps(bucket, bucket', clock)
    BY <1>1, <2>1, UpdateContactSound
  <2>3. Heard(bucket'.nodes, answered) /\ Heard(bucket'.backups, answered)
    <3>1. FALSE \in BOOLEAN
      OBVIOUS
    <3> QED BY <1>1, <2>1, <3>1, UpdateHeard
  <2>4. PICK r : r = FindNodes(bucket, TRUE, clock)
    OBVIOUS
  <2>5. /\ r \in Seq(Nodes(Ids, Hosts)) /\ Len(r) <= Len(bucket.nodes)
        /\ \A i \in DOMAIN r : MayBeGiven(r[i], clock)
    BY <1>1, <2>4, FoundGood
  <2>6. Len(r) <= K
    <3>1. Len(bucket.nodes) \in Nat /\ Len(bucket.nodes) <= K /\ Len(r) \in Nat
      BY <1>1, <2>5, SeqProperties DEF SoundBucket
    <3> QED BY <1>1, <2>5, <3>1
  <2>7. reply'.kind = h /\ reply'.nodes = r /\ reply'.token = (h = "get_peers")
    BY <2>1, <2>4
  <2>8. reply'.kind \in {"none", "get_peers", "find_node", "ping"} /\ reply'.token = (reply'.kind = "get_peers")
    BY <1>3, <2>7
  <2>9. /\ reply'.nodes \in Seq(Nodes(Ids, Hosts)) /\ Len(reply'.nodes) <= K
        /\ \A i \in DOMAIN reply'.nodes : MayBeGiven(reply'.nodes[i], clock')
    BY <1>1, <2>5, <2>6, <2>7
  <2>10. QueryInv'
    BY <1>1, <2>2, <2>3, <2>8, <2>9 DEF QueryInv
  <2>11. \A i \in DOMAIN bucket.nodes :
           i \in DOMAIN bucket'.nodes /\ (bucket'.nodes[i].id # bucket.nodes[i].id => IsBad(bucket.nodes[i]))
    BY <2>2 DEF UpdateKeeps
  <2> QED BY <2>10, <2>11
<1>4. CASE ~(wellFormed /\ h \in {"get_peers", "find_node"} /\ targeted)
  <2>1. /\ bucket' = bucket
        /\ reply' = IF wellFormed /\ h = "ping"
                    THEN [Asking!Silence EXCEPT !.kind = h, !.to = item.host] ELSE Asking!Silence
    BY <1>2, <1>4 DEF Asking!Query
  <2>2. reply'.token = FALSE /\ reply'.nodes = << >> /\ reply'.kind \in {"none", "ping"}
    BY <2>1 DEF Asking!Silence
  <2>3. reply'.token = (reply'.kind = "get_peers")
    BY <2>2
  <2>4. /\ reply'.nodes \in Seq(Nodes(Ids, Hosts)) /\ Len(reply'.nodes) <= K
        /\ \A i \in DOMAIN reply'.nodes : MayBeGiven(reply'.nodes[i], clock')
    BY <1>1, <2>2, NoNodes
  <2>5. QueryInv'
    BY <1>1, <2>1, <2>2, <2>3, <2>4 DEF QueryInv
  <2> QED BY <2>1, <2>5
<1> QED BY <1>3, <1>4

(* Steps that send nothing. *)
LEMMA SilentStep ==
  ASSUME KbucketAssumption, SoundBucket(bucket', Ids, Hosts), clock' \in Nat,
         Heard(bucket'.nodes, answered'), Heard(bucket'.backups, answered'),
         reply' = Asking!Silence
  PROVE  QueryInv' /\ reply'.kind = "none"
<1>1. reply'.token = FALSE /\ reply'.nodes = << >> /\ reply'.kind = "none"
  BY NoNodes
<1>2. reply'.token = (reply'.kind = "get_peers")
  BY <1>1
<1>3. /\ reply'.nodes \in Seq(Nodes(Ids, Hosts)) /\ Len(reply'.nodes) <= K
      /\ \A i \in DOMAIN reply'.nodes : MayBeGiven(reply'.nodes[i], clock')
  BY <1>1, NoNodes DEF KbucketAssumption
<1> QED BY <1>1, <1>2, <1>3 DEF QueryInv

LEMMA HeardMore ==
  ASSUME NEW s, NEW A, NEW B, Heard(s, A), A \subseteq B
  PROVE  Heard(s, B)
BY DEF Heard

LEMMA AnsweredStep ==
  ASSUME KbucketAssumption, QueryInv, NEW item \in Items, Asking!Answered(item)
  PROVE  QueryInv' /\ reply'.kind = "none"
<1>1. /\ SoundBucket(bucket, Ids, Hosts) /\ clock \in Nat /\ clock' = clock
      /\ answered' = answered \cup {item.id} /\ reply' = Asking!Silence
      /\ bucket' = UpdateContact(bucket, item, TRUE, clock)
      /\ Heard(bucket.nodes, answered) /\ Heard(bucket.backups, answered)
      /\ K \in Nat \ {0} /\ NullId \notin Ids /\ item \in [id : Ids, host : Hosts]
  BY SameOperations DEF QueryInv, Asking!Answered, KbucketAssumption, Items
<1>2. PICK B : B = answered'
  OBVIOUS
<1>3. Heard(bucket.nodes, B) /\ Heard(bucket.backups, B) /\ item.id \in B
  BY <1>1, <1>2, HeardMore
<1>4. TRUE \in BOOLEAN
  OBVIOUS
<1>5. SoundBucket(bucket', Ids, Hosts)
  BY <1>1, <1>4, UpdateContactSound
<1>6. Heard(bucket'.nodes, B) /\ Heard(bucket'.backups, B)
  BY <1>1, <1>3, <1>4, UpdateHeard
<1> QED BY <1>1, <1>2, <1>5, <1>6, SilentStep

LEMMA NotAnsweredStep ==
  ASSUME KbucketAssumption, QueryInv, NEW item \in Items, Asking!NotAnswered(item)
  PROVE  QueryInv' /\ reply'.kind = "none"
<1>1. /\ SoundBucket(bucket, Ids, Hosts) /\ clock \in Nat /\ clock' = clock
      /\ answered' = answered /\ reply' = Asking!Silence
      /\ bucket' = FailedContact(bucket, item, clock)
      /\ Heard(bucket.nodes, answered) /\ Heard(bucket.backups, answered)
      /\ K \in Nat \ {0} /\ NullId \notin Ids /\ item \in [id : Ids, host : Hosts]
  BY SameOperations DEF QueryInv, Asking!NotAnswered, KbucketAssumption, Items
<1>2. SoundBucket(bucket', Ids, Hosts)
  BY <1>1, FailedContactSound
<1>3. Heard(bucket'.nodes, answered) /\ Heard(bucket'.backups, answered)
  BY <1>1, FailedHeard
<1> QED BY <1>1, <1>2, <1>3, SilentStep

LEMMA QueryKept ==
  ASSUME KbucketAssumption, QueryInv, [Asking!Next]_(Asking!vars)
  PROVE  /\ QueryInv'
         /\ [reply'.kind # "none" =>
               \A n \in Asking!ToSet(bucket.nodes) :
                 Asking!IsBad(n) \/ \E m \in Asking!ToSet(bucket'.nodes) : m.id = n.id]_(Asking!vars)
<1>1. ASSUME NEW item \in Items, NEW wellFormed \in BOOLEAN, NEW q \in Asking!Queries,
             NEW targeted \in BOOLEAN, Asking!Query(item, wellFormed, q, targeted)
      PROVE  QueryInv' /\ \A n \in Asking!ToSet(bucket.nodes) :
                            Asking!IsBad(n) \/ \E m \in Asking!ToSet(bucket'.nodes) : m.id = n.id
  <2>1. /\ QueryInv'
        /\ \A i \in DOMAIN bucket.nodes :
             IsBad(bucket.nodes[i])
             \/ (i \in DOMAIN bucket'.nodes /\ bucket'.nodes[i].id = bucket.nodes[i].id)
    BY <1>1, QueryStep
  <2> QED BY <2>1, SameOperations DEF Asking!ToSet
<1>2. ASSUME NEW item \in Items, Asking!Answered(item)
      PROVE  QueryInv' /\ reply'.kind = "none"
  BY <1>2, AnsweredStep
<1>3. ASSUME NEW item \in Items, Asking!NotAnswered(item)
      PROVE  QueryInv' /\ reply'.kind = "none"
  BY <1>3, NotAnsweredStep
<1>4. CASE Asking!Tick
  <2>1. bucket' = bucket /\ answered' = answered /\ clock' = clock + 1 /\ reply' = Asking!Silence
    BY <1>4 DEF Asking!Tick
  <2>2. clock' \in Nat
    BY <2>1 DEF QueryInv
  <2>3. /\ SoundBucket(bucket', Ids, Hosts)
        /\ Heard(bucket'.nodes, answered') /\ Heard(bucket'.backups, answered')
    BY <2>1 DEF QueryInv
  <2> QED BY <2>1, <2>2, <2>3, SilentStep
<1>5. CASE UNCHANGED Asking!vars
  BY <1>5 DEF Asking!vars, QueryInv
<1> QED BY <1>1, <1>2, <1>3, <1>4, <1>5 DEF Asking!Next

LEMMA QueryGives ==
  KbucketAssumption /\ QueryInv
    => Asking!TypeOK /\ Asking!GivenNodes /\ Asking!AskingIsNotAnswering
<1> SUFFICES ASSUME KbucketAssumption, QueryInv
             PROVE  Asking!TypeOK /\ Asking!GivenNodes /\ Asking!AskingIsNotAnswering
  OBVIOUS
<1>1. Asking!TypeOK
  BY DEF QueryInv, SoundBucket, Asking!TypeOK
<1>2. Asking!GivenNodes
  BY DEF QueryInv, MayBeGiven, Asking!GivenNodes, Asking!ToSet
<1>3. bucket.nodes \in Seq(Nodes(Ids, Hosts)) /\ bucket.backups \in Seq(Nodes(Ids, Hosts))
  BY DEF QueryInv, SoundBucket
<1>4. Heard(bucket.nodes \o bucket.backups, answered)
  <2>1. PICK N : N = Nodes(Ids, Hosts)
    OBVIOUS
  <2> QED BY <1>3, <2>1, HeardConcat DEF QueryInv
<1>5. Asking!AskingIsNotAnswering
  BY <1>4 DEF Heard, Asking!AskingIsNotAnswering, Asking!ToSet
<1> QED BY <1>1, <1>2, <1>5

(* However many queries come in between: nodes that are given out answered  *)
(* not long ago (or failed exactly twice unseen), nobody is taken for one   *)
(* that answered because it asked, and a query takes no slot from a node    *)
(* that is not bad (provider.cc, query_expand).                             *)
THEOREM QueriesSoundHolds ==
  ASSUME KbucketAssumption
  PROVE  Asking!Spec => /\ [](Asking!TypeOK /\ Asking!GivenNodes /\ Asking!AskingIsNotAnswering)
                        /\ Asking!QueriesHarmless
<1>1. Asking!Init => QueryInv
  BY QueryInit
<1>2. QueryInv /\ [Asking!Next]_(Asking!vars) =>
        /\ QueryInv'
        /\ [reply'.kind # "none" =>
              \A n \in Asking!ToSet(bucket.nodes) :
                Asking!IsBad(n) \/ \E m \in Asking!ToSet(bucket'.nodes) : m.id = n.id]_(Asking!vars)
  BY QueryKept
<1>3. QueryInv => Asking!TypeOK /\ Asking!GivenNodes /\ Asking!AskingIsNotAnswering
  BY QueryGives
<1> QED BY <1>1, <1>2, <1>3, PTL DEF Asking!Spec, Asking!QueriesHarmless

-----------------------------------------------------------------------------
(* The pings. *)
CONSTANTS Boot, NoId, Window, Timeout, MaxReplies

VARIABLES static, queue, concurrency, sendmore, lastSeen, state, thread, ident, tick, waiting,
          responses, pinged, replies, strays

Pinging == INSTANCE Kpingd

LEMMA SamePings ==
  /\ \A b, item, contacted, now :
       Pinging!UpdateContact(b, item, contacted, now) = UpdateContact(b, item, contacted, now)
  /\ \A b, item, now : Pinging!FailedContact(b, item, now) = FailedContact(b, item, now)
  /\ \A b, size, now : Pinging!PingItems(b, size, now) = PingItems(b, size, now)
  /\ \A b, size, now : Pinging!GetPing(b, size, now) = GetPing(b, size, now)
  /\ \A n : Pinging!IsBad(n) = IsBad(n)
  /\ Pinging!EmptyBucket = EmptyBucket
<1>1. \A b, item, contacted, now :
        Pinging!UpdateContact(b, item, contacted, now) = UpdateContact(b, item, contacted, now)
  BY DEF UpdateContact, SlotsOf, IsBad, IsDoubt, Meet, Touch, NewNode, SetItem, UpdateBackup, Oldest,
         Pinging!UpdateContact, Pinging!SlotsOf, Pinging!IsBad, Pinging!IsDoubt, Pinging!Meet,
         Pinging!Touch, Pinging!NewNode, Pinging!SetItem, Pinging!UpdateBackup, Pinging!Oldest,
         Min, Pinging!Min
<1>2. \A b, item, now : Pinging!FailedContact(b, item, now) = FailedContact(b, item, now)
  BY DEF FailedContact, SlotsOf, Failed, Usable, Entries, NewNode, Replaceable, Latest, Min, Cardinality,
         Pinging!FailedContact, Pinging!SlotsOf, Pinging!Failed, Pinging!Usable, Pinging!Entries,
         Pinging!NewNode, Pinging!Replaceable, Pinging!Latest, Pinging!Min, Pinging!Cardinality
<1>3. \A b, size, now : Pinging!PingItems(b, size, now) = PingItems(b, size, now)
  BY DEF PingItems, Entries, IsDoubt, IsBad, Cardinality, Min,
         Pinging!PingItems, Pinging!Entries, Pinging!IsDoubt, Pinging!IsBad, Pinging!Cardinality,
         Pinging!Min
<1>4. \A b, size, now : Pinging!GetPing(b, size, now) = GetPing(b, size, now)
  BY <1>3 DEF GetPing, Pinging!GetPing
<1>5. \A n : Pinging!IsBad(n) = IsBad(n)
  BY DEF IsBad, Pinging!IsBad
<1>6. Pinging!EmptyBucket = EmptyBucket
  BY DEF EmptyBucket, Pinging!EmptyBucket
<1> QED BY <1>1, <1>2, <1>3, <1>4, <1>5, <1>6

LEMMA SameSets ==
  /\ \A S : Pinging!Cardinality(S) = Cardinality(S)
  /\ \A S : Pinging!IsFiniteSet(S) <=> IsFiniteSet(S)
  /\ \A S : Pinging!Min(S) = Min(S)
  /\ \A s : Pinging!ToSet(s) = {s[i] : i \in DOMAIN s}
<1>1. \A S : Pinging!Cardinality(S) = Cardinality(S)
  BY DEF Cardinality, Pinging!Cardinality
<1>2. \A S : Pinging!IsFiniteSet(S) <=> IsFiniteSet(S)
  BY DEF IsFiniteSet, Pinging!IsFiniteSet
<1>3. \A S : Pinging!Min(S) = Min(S)
  BY DEF Min, Pinging!Min
<1>4. \A s : Pinging!ToSet(s) = {s[i] : i \in DOMAIN s}
  BY DEF Pinging!ToSet
<1> QED BY <1>1, <1>2, <1>3, <1>4

-----------------------------------------------------------------------------
(* The maps of contacts. *)
PingMap(f) ==
  /\ f = [h \in DOMAIN f |-> f[h]]
  /\ DOMAIN f \in SUBSET Hosts /\ IsFiniteSet(DOMAIN f)
  /\ \A h \in DOMAIN f : f[h] \in Ids \cup {NullId}

LEMMA EmptyMap ==
  /\ PingMap(<< >>) /\ DOMAIN << >> = {}
  /\ \A f : PingMap(f) /\ DOMAIN f = {} => f = << >>
<1>1. PingMap(<< >>) /\ DOMAIN << >> = {}
  BY FS_EmptySet DEF PingMap
<1>2. ASSUME NEW f, PingMap(f), DOMAIN f = {} PROVE f = << >>
  BY <1>2 DEF PingMap
<1> QED BY <1>1, <1>2

LEMMA MapIsContacts ==
  ASSUME NEW f, PingMap(f)
  PROVE  f \in Pinging!Contacts
<1>1. f \in [DOMAIN f -> Ids \cup {NullId}] /\ DOMAIN f \in SUBSET Hosts
  BY DEF PingMap
<1> QED BY <1>1 DEF Pinging!Contacts

LEMMA RestrictMap ==
  ASSUME NEW f, PingMap(f), NEW S \in SUBSET (DOMAIN f)
  PROVE  PingMap(Pinging!Restrict(f, S)) /\ DOMAIN Pinging!Restrict(f, S) = S
<1>1. IsFiniteSet(S)
  BY FS_Subset DEF PingMap
<1> QED BY <1>1 DEF PingMap, Pinging!Restrict

LEMMA InsertMap ==
  ASSUME NEW f, PingMap(f), NEW g, PingMap(g)
  PROVE  /\ PingMap(Pinging!Insert(f, g))
         /\ DOMAIN Pinging!Insert(f, g) = DOMAIN f \cup DOMAIN g
<1>1. IsFiniteSet(DOMAIN f \cup DOMAIN g)
  BY FS_Union DEF PingMap
<1> QED BY <1>1 DEF PingMap, Pinging!Insert

(* What the table has to ping is of its nodes. *)
LEMMA PingItemsAre ==
  ASSUME NEW Is, NEW Hs, NEW b, SoundBucket(b, Is, Hs), NEW size \in Nat, NEW now \in Nat
  PROVE  /\ PingItems(b, size, now) \in Seq(Nodes(Is, Hs))
         /\ \A i \in DOMAIN PingItems(b, size, now) :
              /\ PingItems(b, size, now)[i].id \in Is
              /\ PingItems(b, size, now)[i].host \in Hs
<1> DEFINE N == Nodes(Is, Hs)
           D == {i \in DOMAIN b.nodes : IsDoubt(b.nodes[i], now)}
           doubtful == Entries(b.nodes, D)
           most == {size, Len(b.backups), Len(doubtful)}
           p == SubSeq(doubtful, 1, Min(most))
<1>1. b.nodes \in Seq(N) /\ b.backups \in Seq(N) /\ WithoutId(b.nodes, NullId)
  BY DEF SoundBucket
<1>2. D \in SUBSET (DOMAIN b.nodes)
  OBVIOUS
<1> HIDE DEF D, N
<1>3. /\ doubtful \in Seq(N) /\ Len(doubtful) = Cardinality(D)
      /\ \E f : Ordered(f, D) /\ \A i \in 1 .. Cardinality(D) : doubtful[i] = b.nodes[f[i]]
  BY <1>1, <1>2, EntriesProperties
<1>4. Len(b.backups) \in Nat /\ Len(doubtful) \in Nat /\ DOMAIN doubtful = 1 .. Len(doubtful)
  BY <1>1, <1>3, SeqProperties
<1>5. \A i \in DOMAIN doubtful : doubtful[i] \in N /\ doubtful[i].id # NullId
  <2>1. PICK f : /\ f \in [1 .. Cardinality(D) -> D]
                 /\ \A i \in 1 .. Cardinality(D) : doubtful[i] = b.nodes[f[i]]
    BY <1>3 DEF Ordered
  <2>2. \A i \in DOMAIN b.nodes : b.nodes[i] \in N /\ b.nodes[i].id # NullId
    BY <1>1, SeqProperties DEF WithoutId
  <2> QED BY <1>2, <1>3, <1>4, <2>1, <2>2
<1>6. Min(most) \in most /\ \A y \in most : Min(most) <= y
  <2>1. most \in SUBSET Nat /\ most # {}
    BY <1>4
  <2> HIDE DEF most
  <2> QED BY <2>1, MinProperties
<1>7. Min(most) \in Nat /\ Min(most) <= Len(doubtful)
  BY <1>4, <1>6
<1>8. PingItems(b, size, now) = p
  BY DEF PingItems, D
<1> HIDE DEF most, doubtful
<1>9. /\ p \in Seq(N) /\ DOMAIN p = 1 .. Min(most)
      /\ \A i \in DOMAIN p : i \in DOMAIN doubtful /\ p[i] = doubtful[i]
  BY <1>3, <1>4, <1>7
<1> HIDE DEF p
<1>10. \A i \in DOMAIN p : p[i] \in N /\ p[i].id # NullId
  BY <1>5, <1>9
<1>11. \A n \in N : n.id # NullId => n.id \in Is /\ n.host \in Hs
  BY DEF N, Nodes
<1> QED BY <1>8, <1>9, <1>10, <1>11 DEF N

LEMMA FoundMap ==
  ASSUME K \in Nat, SoundBucket(bucket, Ids, Hosts), Hosts \subseteq Nat, clock \in Nat
  PROVE  PingMap(Pinging!Found)
<1> DEFINE items == PingItems(bucket, K, clock)
           H == {items[i].host : i \in DOMAIN items}
           At(h) == {i \in DOMAIN items : items[i].host = h}
<1>1. /\ items \in Seq(Nodes(Ids, Hosts))
      /\ \A i \in DOMAIN items : items[i].id \in Ids /\ items[i].host \in Hosts
  BY PingItemsAre
<1>2. Pinging!Found = [h \in H |-> items[Min(At(h))].id]
  BY SamePings, SameSets DEF Pinging!Found
<1> HIDE DEF items
<1>3. DOMAIN items = 1 .. Len(items) /\ Len(items) \in Nat
  BY <1>1, SeqProperties
<1>4. H \in SUBSET Hosts
  BY <1>1
<1>5. IsFiniteSet(H)
  <2>1. IsFiniteSet(DOMAIN items)
    BY <1>3, FS_Interval
  <2>2. [i \in DOMAIN items |-> items[i].host] \in Surjection(DOMAIN items, H)
    BY DEF Surjection
  <2> QED BY <2>1, <2>2, FS_Surjection
<1>6. \A h \in H : items[Min(At(h))].id \in Ids
  <2> TAKE h \in H
  <2>1. At(h) \in SUBSET Nat /\ At(h) # {}
    BY <1>3
  <2>2. Min(At(h)) \in At(h)
    <3> HIDE DEF At
    <3> QED BY <2>1, MinProperties
  <2> QED BY <1>1, <2>2
<1> HIDE DEF H, At
<1> QED BY <1>2, <1>4, <1>5, <1>6 DEF PingMap

LEMMA LastExists ==
  ASSUME NEW S \in SUBSET Nat, S # {}, IsFiniteSet(S)
  PROVE  \E x \in S : \A y \in S : y <= x
<1> DEFINE Bad == {T \in FiniteSubsetsOf(S) : T # {} /\ ~\E x \in T : \A y \in T : y <= x}
<1> SUFFICES Bad = {}
  BY DEF FiniteSubsetsOf
<1> SUFFICES ASSUME Bad # {} PROVE FALSE
  OBVIOUS
<1>1. Bad \subseteq FiniteSubsetsOf(S)
  OBVIOUS
<1> HIDE DEF Bad
<1>2. PICK T \in Bad : \A U \in Bad : <<U, T>> \notin StrictSubsetOrdering(S)
  BY <1>1, FS_StrictSubsetOrderingWellFounded, WFMin
<1>3. /\ T \subseteq S /\ IsFiniteSet(T) /\ T # {}
      /\ ~\E x \in T : \A y \in T : y <= x
  BY DEF Bad, FiniteSubsetsOf
<1>4. PICK x \in T : TRUE
  BY <1>3
<1>5. T \ {x} \notin Bad
  BY <1>2, <1>3, <1>4 DEF StrictSubsetOrdering
<1>6. IsFiniteSet(T \ {x}) /\ T \ {x} \subseteq S
  BY <1>3, FS_RemoveElement
<1>7. CASE T \ {x} = {}
  BY <1>3, <1>4, <1>7
<1>8. CASE T \ {x} # {}
  <2>1. PICK m \in T \ {x} : \A y \in T \ {x} : y <= m
    BY <1>5, <1>6, <1>8 DEF Bad, FiniteSubsetsOf
  <2>2. m \in Nat /\ x \in Nat
    BY <1>3, <2>1
  <2>3. CASE x <= m
    BY <1>3, <2>1, <2>3
  <2>4. CASE m < x
    <3>1. \A y \in T : y <= x
      BY <1>3, <2>1, <2>2, <2>4
    <3> QED BY <1>3, <3>1
  <2> QED BY <2>2, <2>3, <2>4
<1> QED BY <1>7, <1>8

(* The batch fits into the window: of its members, which have fewer than    *)
(* there is room for before them, the last has all the others before it.    *)
LEMMA BatchFits ==
  ASSUME PingMap(static), Hosts \subseteq Nat, concurrency \in Int, Window \in Nat,
         concurrency <= Window
  PROVE  /\ Pinging!Batch \in SUBSET (DOMAIN static) /\ IsFiniteSet(Pinging!Batch)
         /\ Cardinality(Pinging!Batch) \in Nat
         /\ concurrency + Cardinality(Pinging!Batch) <= Window
<1> DEFINE S == DOMAIN static
           B == Pinging!Batch
           P(h) == {g \in S : g < h}
           room == Window - concurrency
<1>1. IsFiniteSet(S) /\ S \in SUBSET Nat /\ room \in Nat
  BY DEF PingMap
<1>2. B = {h \in S : Cardinality(P(h)) < room}
  BY SameSets DEF Pinging!Batch, Pinging!Before
<1> HIDE DEF B
<1>3. B \in SUBSET S /\ IsFiniteSet(B) /\ Cardinality(B) \in Nat
  BY <1>1, <1>2, FS_Subset, FS_CardinalityType
<1>4. CASE B = {}
  BY <1>1, <1>3, <1>4, FS_EmptySet DEF B
<1>5. CASE B # {}
  <2>1. PICK m \in B : \A y \in B : y <= m
    <3>1. B \in SUBSET Nat
      BY <1>1, <1>3
    <3> QED BY <1>3, <1>5, <3>1, LastExists
  <2>2. IsFiniteSet(P(m)) /\ Cardinality(P(m)) \in Nat /\ Cardinality(P(m)) < room
    BY <1>1, <1>2, FS_Subset, FS_CardinalityType
  <2>3. B \ {m} \in SUBSET P(m)
    <3>1. \A y \in B \ {m} : y \in S /\ y < m
      BY <1>1, <1>3, <2>1
    <3> QED BY <3>1
  <2>4. Cardinality(B \ {m}) <= Cardinality(P(m)) /\ Cardinality(B \ {m}) = Cardinality(B) - 1
    <3> HIDE DEF P
    <3> QED BY <1>3, <2>1, <2>2, <2>3, FS_Subset, FS_RemoveElement
  <2>5. Cardinality(B) <= room
    BY <1>1, <1>3, <2>2, <2>4
  <2> QED BY <1>1, <1>3, <2>5 DEF B
<1> QED BY <1>4, <1>5

-----------------------------------------------------------------------------
Answers == [id : Ids \cup {NoId}, host : Hosts]

(* While those are reported who did not answer, the count is not up to date. *)
Expiring == thread = "running" /\ state = 2 /\ responses = << >> /\ Pinging!Late

PingTypes ==
  /\ SoundBucket(bucket, Ids, Hosts)
  /\ clock \in BootTime .. MaxClock /\ lastSeen \in BootTime .. MaxClock
  /\ PingMap(static) /\ PingMap(queue)
  /\ concurrency \in Int /\ concurrency <= Window
  /\ sendmore \in BOOLEAN /\ state \in {1, 2}
  /\ thread \in {"asleep", "ready", "running"} /\ ident \in {"this", "NULL"}
  /\ waiting \in BOOLEAN /\ pinged \subseteq Hosts
  /\ responses \in Seq(Answers) /\ replies \in 0 .. MaxReplies /\ strays \in Nat

(* The count against what is out: below it by no more than the strays,      *)
(* and above it not at all, leaving out who is to be pinged once more.      *)
PingCounts ==
  /\ Len(responses) <= concurrency + replies
  /\ Cardinality(DOMAIN queue) <= concurrency + strays
  /\ ~Expiring => concurrency <= Cardinality(DOMAIN queue \ DOMAIN static)

PingSleeps ==
  /\ thread = "asleep" /\ ident = "NULL" /\ strays = 0 => queue = << >>
  /\ thread = "asleep" /\ ident = "this" /\ pinged # {} =>
       tick = lastSeen + Timeout /\ queue # << >> /\ responses = << >> /\ waiting = TRUE

PingInv == PingTypes /\ PingCounts /\ PingSleeps

LEMMA PingFacts ==
  ASSUME Pinging!KpingdAssumption
  PROVE  /\ Hosts \subseteq Nat /\ NoId \notin Ids /\ NullId \notin Ids
         /\ Window \in Nat \ {0} /\ Timeout \in Nat \ {0} /\ K \in Nat \ {0}
         /\ Boot \subseteq Hosts /\ IsFiniteSet(Boot)
         /\ BootTime \in Nat /\ MaxClock \in Nat /\ BootTime <= MaxClock
         /\ BootTime .. MaxClock \subseteq Nat /\ MaxReplies \in Nat
         /\ Items = [id : Ids, host : Hosts]
BY SameSets DEF Pinging!KpingdAssumption, Items

LEMMA PingInit == Pinging!KpingdAssumption /\ Pinging!Init => PingInv
<1> SUFFICES ASSUME Pinging!KpingdAssumption, Pinging!Init PROVE PingInv
  OBVIOUS
<1>1. /\ bucket = EmptyBucket /\ clock = BootTime /\ lastSeen = BootTime
      /\ static = [h \in Boot |-> NullId] /\ queue = << >> /\ concurrency = 0
      /\ sendmore = FALSE /\ state = 1 /\ thread \in {"asleep", "ready"} /\ ident = "this"
      /\ waiting = FALSE /\ responses = << >> /\ pinged = {} /\ replies = 0 /\ strays = 0
  BY SamePings DEF Pinging!Init
<1>2. SoundBucket(bucket, Ids, Hosts)
  BY <1>1, PingFacts, EmptyBucketSound
<1>3. PingMap(static) /\ PingMap(queue) /\ Cardinality(DOMAIN queue) = 0
  BY <1>1, PingFacts, EmptyMap, FS_EmptySet DEF PingMap
<1>4. responses \in Seq(Answers) /\ Len(responses) = 0
  BY <1>1
<1>5. PingTypes
  <2>1. clock \in BootTime .. MaxClock /\ lastSeen \in BootTime .. MaxClock
    BY <1>1, PingFacts
  <2>2. concurrency \in Int /\ concurrency <= Window /\ replies \in 0 .. MaxReplies /\ strays \in Nat
    BY <1>1, PingFacts
  <2>3. /\ sendmore \in BOOLEAN /\ state \in {1, 2} /\ waiting \in BOOLEAN /\ pinged \subseteq Hosts
        /\ thread \in {"asleep", "ready", "running"} /\ ident \in {"this", "NULL"}
    BY <1>1
  <2> QED BY <1>2, <1>3, <1>4, <2>1, <2>2, <2>3 DEF PingTypes
<1>6. Cardinality(DOMAIN queue \ DOMAIN static) = 0
  <2>1. DOMAIN queue \ DOMAIN static = {}
    BY <1>1, EmptyMap
  <2> QED BY <2>1, FS_EmptySet
<1>7. PingCounts
  BY <1>1, <1>3, <1>4, <1>6 DEF PingCounts
<1>8. PingSleeps
  BY <1>1 DEF PingSleeps
<1> QED BY <1>5, <1>7, <1>8 DEF PingInv

(* What others do while pingd does not run. *)
LEMMA OutsideCounts ==
  ASSUME PingInv, UNCHANGED <<static, queue, concurrency, strays>>, thread # "running",
         Len(responses') <= concurrency' + replies'
  PROVE  PingCounts'
BY DEF PingInv, PingCounts, Expiring

LEMMA ContactStep ==
  ASSUME Pinging!KpingdAssumption, PingInv, NEW item \in Items, NEW contacted \in BOOLEAN,
         Pinging!Contact(item, contacted)
  PROVE  PingInv'
<1>1. /\ bucket' = UpdateContact(bucket, item, contacted, clock)
      /\ thread # "running" /\ thread' \in {thread, "ready"}
      /\ clock' = clock /\ static' = static /\ queue' = queue
      /\ concurrency' = concurrency /\ sendmore' = sendmore /\ lastSeen' = lastSeen
      /\ state' = state /\ ident' = ident /\ tick' = tick /\ waiting' = waiting
      /\ responses' = responses /\ pinged' = pinged /\ replies' = replies /\ strays' = strays
  BY SamePings DEF Pinging!Contact, Pinging!Woken, Pinging!loop
<1>2. SoundBucket(bucket', Ids, Hosts)
  BY <1>1, PingFacts, UpdateContactSound DEF PingInv, PingTypes
<1>3. PingTypes'
  BY <1>1, <1>2 DEF PingInv, PingTypes
<1>4. PingCounts'
  BY <1>1, OutsideCounts DEF PingInv, PingCounts
<1>5. PingSleeps'
  BY <1>1 DEF PingInv, PingSleeps
<1> QED BY <1>3, <1>4, <1>5 DEF PingInv

LEMMA RespondStep ==
  ASSUME Pinging!KpingdAssumption, PingInv, NEW h \in Hosts, NEW id \in Ids \cup {NoId},
         Pinging!Respond(h, id)
  PROVE  PingInv' /\ Len(responses') > Len(responses)
<1>1. /\ thread # "running" /\ h \in pinged /\ replies < MaxReplies
      /\ responses' = Append(responses, [id |-> id, host |-> h])
      /\ replies' = replies + 1 /\ waiting' = FALSE
      /\ thread' = IF waiting /\ thread = "asleep" /\ ident = "this" THEN "ready" ELSE thread
      /\ bucket' = bucket /\ clock' = clock /\ static' = static /\ queue' = queue
      /\ concurrency' = concurrency /\ sendmore' = sendmore /\ lastSeen' = lastSeen
      /\ state' = state /\ ident' = ident /\ tick' = tick
      /\ pinged' = pinged /\ strays' = strays
  BY DEF Pinging!Respond, Pinging!Woken, Pinging!loop
<1>2. [id |-> id, host |-> h] \in Answers /\ responses \in Seq(Answers)
  BY DEF PingInv, PingTypes, Answers
<1>3. /\ responses' \in Seq(Answers) /\ Len(responses') = Len(responses) + 1
      /\ Len(responses) \in Nat
  <2>1. PICK a : a = [id |-> id, host |-> h]
    OBVIOUS
  <2> QED BY <1>1, <1>2, <2>1, AppendProperties, SeqProperties
<1>4. PingTypes'
  <2>1. replies' \in 0 .. MaxReplies
    BY <1>1, PingFacts DEF PingInv, PingTypes
  <2> QED BY <1>1, <1>3, <2>1 DEF PingInv, PingTypes
<1>5. PingCounts'
  <2>1. Len(responses') <= concurrency' + replies'
    BY <1>1, <1>3 DEF PingInv, PingCounts, PingTypes
  <2> QED BY <1>1, <2>1, OutsideCounts
<1>6. PingSleeps'
  BY <1>1 DEF PingInv, PingSleeps
<1> QED BY <1>3, <1>4, <1>5, <1>6 DEF PingInv

LEMMA OtherStep ==
  ASSUME Pinging!KpingdAssumption, PingInv,
         Pinging!Expire \/ Pinging!Tick \/ Pinging!Run \/ UNCHANGED Pinging!vars
  PROVE  PingInv' /\ responses' = responses
<1>1. /\ bucket' = bucket /\ static' = static /\ queue' = queue
      /\ concurrency' = concurrency /\ sendmore' = sendmore /\ lastSeen' = lastSeen
      /\ state' = state /\ ident' = ident /\ waiting' = waiting
      /\ responses' = responses /\ pinged' = pinged /\ replies' = replies /\ strays' = strays
  BY DEF Pinging!Expire, Pinging!Tick, Pinging!Run, Pinging!vars, Pinging!loop
<1>2. clock' \in BootTime .. MaxClock
  <2>1. clock \in BootTime .. MaxClock
    BY DEF PingInv, PingTypes
  <2>2. clock' = clock \/ (clock < MaxClock /\ clock' = clock + 1)
    BY DEF Pinging!Expire, Pinging!Tick, Pinging!Run, Pinging!vars
  <2> QED BY <2>1, <2>2, PingFacts
<1>3. /\ thread' \in {"asleep", "ready", "running"}
      /\ thread' = "asleep" => thread = "asleep" /\ tick' = tick
      /\ thread # "running" \/ UNCHANGED <<thread, clock>>
  BY DEF Pinging!Expire, Pinging!Tick, Pinging!Run, Pinging!vars, Pinging!Woken, PingInv, PingTypes
<1>4. PingTypes'
  BY <1>1, <1>2, <1>3 DEF PingInv, PingTypes
<1>5. PingCounts'
  <2>1. CASE thread # "running"
    BY <1>1, <2>1, OutsideCounts DEF PingInv, PingCounts
  <2>2. CASE UNCHANGED <<thread, clock>>
    BY <1>1, <2>2 DEF PingInv, PingCounts, Expiring, Pinging!Late
  <2> QED BY <1>3, <2>1, <2>2
<1>6. PingSleeps'
  BY <1>1, <1>3 DEF PingInv, PingSleeps
<1> QED BY <1>1, <1>4, <1>5, <1>6 DEF PingInv
-----------------------------------------------------------------------------
(* The turns of pingd. *)
LEMMA RemoveMap ==
  ASSUME NEW f, PingMap(f), NEW h \in DOMAIN f
  PROVE  /\ PingMap(Pinging!Restrict(f, DOMAIN f \ {h}))
         /\ DOMAIN Pinging!Restrict(f, DOMAIN f \ {h}) = DOMAIN f \ {h}
         /\ Cardinality(DOMAIN f) \in Nat
         /\ Cardinality(DOMAIN f \ {h}) = Cardinality(DOMAIN f) - 1
<1>1. IsFiniteSet(DOMAIN f)
  BY DEF PingMap
<1>2. DOMAIN f \ {h} \in SUBSET (DOMAIN f)
  OBVIOUS
<1> QED BY <1>1, <1>2, RestrictMap, FS_CardinalityType, FS_RemoveElement

LEMMA OutsideShrinks ==
  ASSUME NEW Q, IsFiniteSet(Q), NEW S, NEW h \in Q
  PROVE  /\ Cardinality(Q \ S) \in Nat /\ Cardinality((Q \ {h}) \ S) \in Nat
         /\ Cardinality((Q \ {h}) \ S) >= Cardinality(Q \ S) - 1
<1>1. IsFiniteSet(Q \ S) /\ Cardinality(Q \ S) \in Nat
  BY FS_Subset, FS_CardinalityType
<1>2. CASE h \in Q \ S
  <2>1. (Q \ {h}) \ S = (Q \ S) \ {h}
    OBVIOUS
  <2>2. Cardinality((Q \ S) \ {h}) = Cardinality(Q \ S) - 1
    BY <1>1, <1>2, FS_RemoveElement
  <2>3. IsFiniteSet((Q \ S) \ {h}) /\ Cardinality((Q \ S) \ {h}) \in Nat
    BY <1>1, FS_Subset, FS_CardinalityType
  <2> QED BY <1>1, <2>1, <2>2, <2>3
<1>3. CASE h \notin Q \ S
  <2>1. (Q \ {h}) \ S = Q \ S
    BY <1>3
  <2> QED BY <1>1, <2>1
<1> QED BY <1>2, <1>3

LEMMA PingReceiveStep ==
  ASSUME Pinging!KpingdAssumption, PingInv, Pinging!TurnReceive
  PROVE  PingInv'
<1> DEFINE r == Head(responses)
           known == r.id # NoId /\ r.host \in DOMAIN queue
           was == Pinging!AsItem(queue, r.host)
           failed == IF known THEN FailedContact(bucket, was, clock) ELSE bucket
<1>1. /\ thread = "running" /\ state = 2 /\ responses # << >>
      /\ bucket' = IF r.id = NoId THEN bucket ELSE UpdateContact(failed, r, TRUE, clock)
      /\ queue' = IF known THEN Pinging!Restrict(queue, DOMAIN queue \ {r.host}) ELSE queue
      /\ strays' = strays + (IF known THEN 0 ELSE 1)
      /\ concurrency' = concurrency - 1 /\ responses' = Tail(responses)
      /\ clock' = clock /\ static' = static /\ sendmore' = sendmore /\ lastSeen' = lastSeen
      /\ state' = state /\ thread' = thread /\ ident' = ident /\ tick' = tick
      /\ waiting' = waiting /\ pinged' = pinged /\ replies' = replies
  BY SamePings DEF Pinging!TurnReceive
<1>2. /\ responses \in Seq(Answers) /\ r \in Answers
      /\ responses' \in Seq(Answers) /\ Len(responses') = Len(responses) - 1
      /\ Len(responses) \in Nat
  BY <1>1 DEF PingInv, PingTypes
<1> HIDE DEF r, was
<1>3. SoundBucket(bucket, Ids, Hosts) /\ clock \in Nat
  BY PingFacts DEF PingInv, PingTypes
<1>4. SoundBucket(failed, Ids, Hosts)
  BY <1>3, PingFacts, FailedContactSound
<1>5. SoundBucket(bucket', Ids, Hosts)
  <2>1. CASE r.id = NoId
    BY <1>1, <1>3, <2>1
  <2>2. CASE r.id # NoId
    <3>1. r \in [id : Ids, host : Hosts]
      BY <1>2, <2>2 DEF Answers
    <3> HIDE DEF failed
    <3>2. SoundBucket(UpdateContact(failed, r, TRUE, clock), Ids, Hosts)
      BY <1>3, <1>4, <3>1, PingFacts, UpdateContactSound
    <3> QED BY <1>1, <2>2, <3>2
  <2> QED BY <2>1, <2>2
<1> HIDE DEF failed
<1>6. PingMap(queue) /\ PingMap(queue')
  <2>1. PingMap(queue)
    BY DEF PingInv, PingTypes
  <2>2. CASE known
    BY <1>1, <2>1, <2>2, RemoveMap
  <2>3. CASE ~known
    BY <1>1, <2>1, <2>3
  <2> QED BY <2>1, <2>2, <2>3
<1>7. PingTypes'
  <2>1. concurrency' \in Int /\ concurrency' <= Window /\ strays' \in Nat
    BY <1>1, PingFacts DEF PingInv, PingTypes
  <2> QED BY <1>1, <1>2, <1>5, <1>6, <2>1 DEF PingInv, PingTypes
<1>8. PingCounts'
  <2>1. /\ Len(responses) <= concurrency + replies
        /\ Cardinality(DOMAIN queue) <= concurrency + strays
        /\ concurrency <= Cardinality(DOMAIN queue \ DOMAIN static)
        /\ concurrency \in Int /\ replies \in Nat /\ strays \in Nat
    BY <1>1, PingFacts DEF PingInv, PingTypes, PingCounts, Expiring
  <2>2. Len(responses') <= concurrency' + replies'
    BY <1>1, <1>2, <2>1
  <2>3. /\ Cardinality(DOMAIN queue') <= concurrency' + strays'
        /\ concurrency' <= Cardinality(DOMAIN queue' \ DOMAIN static)
    <3>1. CASE known
      <4>1. IsFiniteSet(DOMAIN queue) /\ r.host \in DOMAIN queue
        BY <1>6, <3>1 DEF PingMap
      <4>2. /\ DOMAIN queue' = DOMAIN queue \ {r.host}
            /\ Cardinality(DOMAIN queue') = Cardinality(DOMAIN queue) - 1
            /\ Cardinality(DOMAIN queue) \in Nat
        BY <1>1, <1>6, <3>1, <4>1, RemoveMap
      <4>3. /\ Cardinality(DOMAIN queue \ DOMAIN static) \in Nat
            /\ Cardinality(DOMAIN queue' \ DOMAIN static) \in Nat
            /\ Cardinality(DOMAIN queue' \ DOMAIN static)
                 >= Cardinality(DOMAIN queue \ DOMAIN static) - 1
        BY <4>1, <4>2, OutsideShrinks
      <4> QED BY <1>1, <2>1, <3>1, <4>2, <4>3
    <3>2. CASE ~known
      <4>1. /\ Cardinality(DOMAIN queue) \in Nat
            /\ Cardinality(DOMAIN queue \ DOMAIN static) \in Nat
        BY <1>6, FS_Subset, FS_CardinalityType DEF PingMap
      <4>2. queue' = queue /\ concurrency' = concurrency - 1 /\ strays' = strays + 1
        BY <1>1, <3>2
      <4>3. /\ Cardinality(DOMAIN queue') = Cardinality(DOMAIN queue)
            /\ Cardinality(DOMAIN queue' \ DOMAIN static) = Cardinality(DOMAIN queue \ DOMAIN static)
        BY <4>2
      <4> QED BY <2>1, <4>1, <4>2, <4>3
    <3> QED BY <3>1, <3>2
  <2> QED BY <1>1, <2>2, <2>3 DEF PingCounts
<1>9. PingSleeps'
  BY <1>1 DEF PingSleeps
<1> QED BY <1>7, <1>8, <1>9 DEF PingInv

LEMMA PingFailStep ==
  ASSUME Pinging!KpingdAssumption, PingInv, Pinging!TurnFail
  PROVE  PingInv'
<1> DEFINE h == Min(DOMAIN queue)
           was == Pinging!AsItem(queue, h)
<1>1. /\ thread = "running" /\ state = 2 /\ responses = << >> /\ Pinging!Late /\ queue # << >>
      /\ bucket' = FailedContact(bucket, was, clock)
      /\ queue' = Pinging!Restrict(queue, DOMAIN queue \ {h})
      /\ concurrency' = concurrency /\ responses' = responses /\ strays' = strays
      /\ clock' = clock /\ static' = static /\ sendmore' = sendmore /\ lastSeen' = lastSeen
      /\ state' = state /\ thread' = thread /\ ident' = ident /\ tick' = tick
      /\ waiting' = waiting /\ pinged' = pinged /\ replies' = replies
  BY SamePings, SameSets DEF Pinging!TurnFail, Pinging!loop
<1>2. PingMap(queue) /\ DOMAIN queue \in SUBSET Nat /\ DOMAIN queue # {}
  <2>1. PingMap(queue)
    BY DEF PingInv, PingTypes
  <2> QED BY <1>1, <2>1, EmptyMap, PingFacts DEF PingMap
<1>3. h \in DOMAIN queue
  BY <1>2, MinProperties
<1> HIDE DEF h, was
<1>4. /\ PingMap(queue') /\ Cardinality(DOMAIN queue) \in Nat
      /\ Cardinality(DOMAIN queue') = Cardinality(DOMAIN queue) - 1
  BY <1>1, <1>2, <1>3, RemoveMap
<1>5. SoundBucket(bucket', Ids, Hosts)
  BY <1>1, PingFacts, FailedContactSound DEF PingInv, PingTypes
<1>6. PingTypes'
  BY <1>1, <1>4, <1>5 DEF PingInv, PingTypes
<1>7. Expiring'
  BY <1>1 DEF Expiring, Pinging!Late
<1>8. PingCounts'
  <2>1. Cardinality(DOMAIN queue') <= concurrency' + strays'
    BY <1>1, <1>4 DEF PingInv, PingTypes, PingCounts
  <2> QED BY <1>1, <1>7, <2>1 DEF PingInv, PingCounts
<1>9. PingSleeps'
  BY <1>1 DEF PingSleeps
<1> QED BY <1>6, <1>8, <1>9 DEF PingInv

LEMMA PingDrainedStep ==
  ASSUME Pinging!KpingdAssumption, PingInv, Pinging!TurnDrained
  PROVE  PingInv'
<1>1. /\ thread = "running" /\ state = 2 /\ responses = << >>
      /\ Pinging!Late => queue = << >>
      /\ waiting' = TRUE
      /\ bucket' = bucket /\ queue' = queue /\ clock' = clock /\ static' = static
      /\ lastSeen' = lastSeen /\ responses' = responses /\ pinged' = pinged /\ replies' = replies
  BY DEF Pinging!TurnDrained
<1>2. /\ Pinging!Late => concurrency' = 0 /\ strays' = 0
      /\ ~Pinging!Late => concurrency' = concurrency /\ strays' = strays
  BY DEF Pinging!TurnDrained
<1>3. \/ sendmore' = FALSE /\ state' = 1 /\ thread' = thread /\ ident' = ident /\ tick' = tick
      \/ /\ concurrency' > 0 /\ tick' = lastSeen + Timeout
         /\ thread' = "asleep" /\ ident' = "this" /\ state' = state /\ sendmore' = sendmore
      \/ state' = 1 /\ thread' = thread /\ ident' = ident /\ tick' = tick /\ sendmore' = sendmore
  BY DEF Pinging!TurnDrained
<1>4. /\ Len(responses) <= concurrency + replies
      /\ Cardinality(DOMAIN queue) <= concurrency + strays
      /\ ~Pinging!Late => concurrency <= Cardinality(DOMAIN queue \ DOMAIN static)
      /\ concurrency \in Int /\ concurrency <= Window /\ replies \in Nat /\ strays \in Nat
  BY PingFacts DEF PingInv, PingTypes, PingCounts, Expiring
<1>5. PingMap(queue) /\ Cardinality(DOMAIN queue) \in Nat
      /\ Cardinality(DOMAIN queue \ DOMAIN static) \in Nat
  BY FS_Subset, FS_CardinalityType DEF PingInv, PingTypes, PingMap
<1>6. PingTypes'
  <2>1. concurrency' \in Int /\ concurrency' <= Window /\ strays' \in Nat
    BY <1>2, <1>4, PingFacts
  <2>2. /\ state' \in {1, 2} /\ sendmore' \in BOOLEAN
        /\ thread' \in {"asleep", "ready", "running"} /\ ident' \in {"this", "NULL"}
    BY <1>3 DEF PingInv, PingTypes
  <2> QED BY <1>1, <2>1, <2>2 DEF PingInv, PingTypes
<1>7. PingCounts'
  <2>1. CASE Pinging!Late
    <3>1. Cardinality(DOMAIN queue) = 0 /\ Len(responses) = 0
      BY <1>1, <2>1, EmptyMap, FS_EmptySet
    <3>2. /\ Len(responses') <= concurrency' + replies'
          /\ Cardinality(DOMAIN queue') <= concurrency' + strays'
          /\ concurrency' <= Cardinality(DOMAIN queue' \ DOMAIN static')
      BY <1>1, <1>2, <1>4, <1>5, <2>1, <3>1
    <3> QED BY <3>2 DEF PingCounts
  <2>2. CASE ~Pinging!Late
    BY <1>1, <1>2, <1>4, <2>2 DEF PingCounts
  <2> QED BY <2>1, <2>2
<1>8. PingSleeps'
  <2>1. CASE thread' = thread
    BY <1>1, <2>1 DEF PingSleeps
  <2>2. CASE concurrency' > 0 /\ tick' = lastSeen + Timeout /\ thread' = "asleep" /\ ident' = "this"
    <3>1. concurrency <= Cardinality(DOMAIN queue \ DOMAIN static) /\ concurrency > 0
      BY <1>2, <1>4, <2>2
    <3>2. DOMAIN queue # {}
      <4> SUFFICES ASSUME DOMAIN queue = {} PROVE FALSE
        OBVIOUS
      <4>1. DOMAIN queue \ DOMAIN static = {}
        OBVIOUS
      <4> QED BY <1>4, <3>1, <4>1, FS_EmptySet
    <3>3. queue # << >>
      BY <3>2, EmptyMap
    <3> QED BY <1>1, <2>2, <3>3 DEF PingSleeps
  <2> QED BY <1>3, <2>1, <2>2
<1> QED BY <1>6, <1>7, <1>8 DEF PingInv

LEMMA OutsideGrows ==
  ASSUME NEW Q, IsFiniteSet(Q), NEW S, IsFiniteSet(S), NEW out \in SUBSET S
  PROVE  /\ Cardinality(Q \cup out) <= Cardinality(Q) + Cardinality(out)
         /\ Cardinality(Q \ S) + Cardinality(out) <= Cardinality((Q \cup out) \ (S \ out))
         /\ Cardinality(out) \in Nat /\ Cardinality(Q) \in Nat /\ Cardinality(Q \ S) \in Nat
         /\ Cardinality(Q \cup out) \in Nat
         /\ Cardinality((Q \cup out) \ (S \ out)) \in Nat
<1>1. IsFiniteSet(out) /\ IsFiniteSet(Q \ S) /\ IsFiniteSet(Q \cap out)
  BY FS_Subset
<1>2. IsFiniteSet(Q \cup out) /\ Cardinality(Q \cup out)
                                    = Cardinality(Q) + Cardinality(out) - Cardinality(Q \cap out)
  BY <1>1, FS_Union
<1>3. /\ IsFiniteSet((Q \ S) \cup out)
      /\ Cardinality((Q \ S) \cup out)
           = Cardinality(Q \ S) + Cardinality(out) - Cardinality((Q \ S) \cap out)
  BY <1>1, FS_Union
<1>4. (Q \ S) \cap out = {}
  OBVIOUS
<1>5. (Q \ S) \cup out \in SUBSET ((Q \cup out) \ (S \ out))
  OBVIOUS
<1>6. IsFiniteSet((Q \cup out) \ (S \ out))
  BY <1>2, FS_Subset
<1>7. Cardinality((Q \ S) \cup out) <= Cardinality((Q \cup out) \ (S \ out))
  BY <1>5, <1>6, FS_Subset
<1>8. /\ Cardinality(out) \in Nat /\ Cardinality(Q) \in Nat /\ Cardinality(Q \ S) \in Nat
      /\ Cardinality(Q \cap out) \in Nat /\ Cardinality(Q \cup out) \in Nat
      /\ Cardinality((Q \cup out) \ (S \ out)) \in Nat
  BY <1>1, <1>2, <1>6, FS_CardinalityType
<1> QED BY <1>2, <1>3, <1>4, <1>7, <1>8, FS_EmptySet

LEMMA PingSendStep ==
  ASSUME Pinging!KpingdAssumption, PingInv, Pinging!TurnSend
  PROVE  PingInv'
<1> DEFINE out == Pinging!Batch
           left == Pinging!Restrict(static, DOMAIN static \ out)
           sent == Pinging!Restrict(static, out)
<1>1. /\ thread = "running" /\ state = 1
      /\ queue' = Pinging!Insert(queue, sent) /\ pinged' = pinged \cup out
      /\ concurrency' = concurrency + Cardinality(out)
      /\ sendmore' = (sendmore \/ out # {})
      /\ lastSeen' = IF out # {} THEN clock ELSE lastSeen
      /\ clock' = clock /\ tick' = tick /\ waiting' = waiting /\ responses' = responses
      /\ replies' = replies /\ strays' = strays
  BY SameSets DEF Pinging!TurnSend
<1>2. \/ /\ state' = 2 /\ static' = left
         /\ bucket' = bucket /\ thread' = thread /\ ident' = ident
      \/ /\ concurrency' <= 0 /\ static' = left /\ thread' = "asleep" /\ ident' = "NULL"
         /\ bucket' = bucket /\ state' = state
      \/ /\ concurrency' <= 0 /\ static' = Pinging!Insert(left, Pinging!Found)
         /\ bucket' = GetPing(bucket, K, clock)
         /\ state' = state /\ thread' = thread /\ ident' = ident
  BY SamePings DEF Pinging!TurnSend
<1>3. /\ PingMap(static) /\ PingMap(queue) /\ concurrency \in Int /\ concurrency <= Window
      /\ SoundBucket(bucket, Ids, Hosts) /\ clock \in Nat /\ replies \in Nat /\ strays \in Nat
      /\ Len(responses) <= concurrency + replies
      /\ Cardinality(DOMAIN queue) <= concurrency + strays
      /\ concurrency <= Cardinality(DOMAIN queue \ DOMAIN static)
  BY <1>1, PingFacts DEF PingInv, PingTypes, PingCounts, Expiring
<1>4. /\ out \in SUBSET (DOMAIN static) /\ Cardinality(out) \in Nat
      /\ concurrency + Cardinality(out) <= Window
  BY <1>3, PingFacts, BatchFits
<1> HIDE DEF out
<1>5. /\ PingMap(sent) /\ DOMAIN sent = out
      /\ PingMap(left) /\ DOMAIN left = DOMAIN static \ out
  <2>1. DOMAIN static \ out \in SUBSET (DOMAIN static)
    OBVIOUS
  <2> QED BY <1>3, <1>4, <2>1, RestrictMap
<1> HIDE DEF sent, left
<1>6. PingMap(queue') /\ DOMAIN queue' = DOMAIN queue \cup out
  BY <1>1, <1>3, <1>5, InsertMap
<1>7. PingMap(static')
  <2>1. PingMap(Pinging!Found)
    BY <1>3, PingFacts, FoundMap
  <2>2. PingMap(Pinging!Insert(left, Pinging!Found))
    BY <1>5, <2>1, InsertMap
  <2> QED BY <1>2, <1>5, <2>2
<1>8. SoundBucket(bucket', Ids, Hosts)
  <2>1. SoundBucket(GetPing(bucket, K, clock), Ids, Hosts)
    BY <1>3, PingFacts, GetPingSound
  <2> QED BY <1>2, <1>3, <2>1
<1>9. /\ Cardinality(DOMAIN queue') <= Cardinality(DOMAIN queue) + Cardinality(out)
      /\ Cardinality(DOMAIN queue \ DOMAIN static) + Cardinality(out)
           <= Cardinality(DOMAIN queue' \ (DOMAIN static \ out))
      /\ Cardinality(DOMAIN queue') \in Nat /\ Cardinality(DOMAIN queue) \in Nat
      /\ Cardinality(DOMAIN queue \ DOMAIN static) \in Nat
      /\ Cardinality(DOMAIN queue' \ (DOMAIN static \ out)) \in Nat
  <2>1. IsFiniteSet(DOMAIN queue) /\ IsFiniteSet(DOMAIN static)
    BY <1>3 DEF PingMap
  <2> QED BY <1>4, <1>6, <2>1, OutsideGrows
<1>10. PingTypes'
  <2>1. concurrency' \in Int /\ concurrency' <= Window
    BY <1>1, <1>3, <1>4
  <2>2. lastSeen' \in BootTime .. MaxClock /\ clock' \in BootTime .. MaxClock
    BY <1>1 DEF PingInv, PingTypes
  <2>3. pinged' \subseteq Hosts /\ sendmore' \in BOOLEAN
    BY <1>1, <1>3, <1>4 DEF PingMap, PingInv, PingTypes
  <2>4. /\ state' \in {1, 2} /\ thread' \in {"asleep", "ready", "running"}
        /\ ident' \in {"this", "NULL"}
    BY <1>2 DEF PingInv, PingTypes
  <2> QED BY <1>1, <1>6, <1>7, <1>8, <2>1, <2>2, <2>3, <2>4 DEF PingInv, PingTypes
<1>11. PingCounts'
  <2>1. /\ Len(responses') <= concurrency' + replies'
        /\ Cardinality(DOMAIN queue') <= concurrency' + strays'
    <3>1. Len(responses) \in Nat
      BY DEF PingInv, PingTypes
    <3> QED BY SMTT(30), <1>1, <1>3, <1>4, <1>9, <3>1
  <2>2. concurrency' <= Cardinality(DOMAIN queue' \ DOMAIN static')
    <3>1. CASE static' = left
      BY <1>1, <1>3, <1>4, <1>5, <1>9, <3>1
    <3>2. CASE concurrency' <= 0
      <4>1. Cardinality(DOMAIN queue' \ DOMAIN static') \in Nat
        BY <1>6, FS_Subset, FS_CardinalityType DEF PingMap
      <4>2. concurrency' \in Int
        BY <1>1, <1>3, <1>4
      <4> QED BY <3>2, <4>1, <4>2
    <3> QED BY <1>2, <3>1, <3>2
  <2> QED BY <2>1, <2>2 DEF PingCounts
<1>12. PingSleeps'
  <2>1. CASE thread' = thread
    BY <1>1, <2>1 DEF PingSleeps
  <2>2. CASE concurrency' <= 0 /\ thread' = "asleep" /\ ident' = "NULL"
    <3>1. strays' = 0 => Cardinality(DOMAIN queue') <= 0
      BY <1>11, <1>1, <1>3, <1>4, <1>9, <2>2 DEF PingCounts
    <3>2. strays' = 0 => DOMAIN queue' = {}
      BY <1>6, <1>9, <3>1, FS_EmptySet DEF PingMap
    <3>3. strays' = 0 => queue' = << >>
      BY <1>6, <3>2, EmptyMap
    <3> QED BY <2>2, <3>3 DEF PingSleeps
  <2> QED BY <1>2, <2>1, <2>2
<1> QED BY <1>10, <1>11, <1>12 DEF PingInv
-----------------------------------------------------------------------------
(* What is met again keeps its slot, and so does everybody else. *)
Holds(b, k, item) == k \in DOMAIN b.nodes /\ b.nodes[k].id = item.id

LEMMA MetKeeps ==
  ASSUME NEW Is, NEW Hs, K \in Nat \ {0}, NullId \notin Is, NEW b, SoundBucket(b, Is, Hs),
         NEW item \in [id : Is, host : Hs], NEW contacted \in BOOLEAN,
         NEW now \in Nat, NEW k, Holds(b, k, item)
  PROVE  Holds(UpdateContact(b, item, contacted, now), k, item)
<1> DEFINE N == Nodes(Is, Hs)
           mine == SlotsOf(b.nodes, item.id)
           m == Min(mine)
           n == Meet(SetItem(b.nodes[m], item), contacted, now)
           t == [b.nodes EXCEPT ![m] = n]
           r == UpdateContact(b, item, contacted, now)
<1>1. /\ b \in [nodes : Seq(N), backups : Seq(N), needPing : BOOLEAN]
      /\ b.nodes \in Seq(N) /\ Len(b.nodes) \in Nat /\ DOMAIN b.nodes = 1 .. Len(b.nodes)
      /\ \A i \in DOMAIN b.nodes : b.nodes[i] \in N
  BY SeqProperties DEF SoundBucket
<1>2. mine # {}
  BY DEF SlotsOf, Holds
<1>3. m \in mine /\ m \in DOMAIN b.nodes
  BY <1>1, <1>2, FirstSlot DEF SlotsOf
<1>4. r = [b EXCEPT !.nodes = t]
  BY <1>2, <1>3 DEF UpdateContact
<1>5. n \in N /\ n.id = item.id
  BY <1>1, <1>3, NodeSteps
<1> HIDE DEF n, m, N, r, mine
<1>6. r.nodes = t /\ DOMAIN t = DOMAIN b.nodes
      /\ t[k] = IF k = m THEN n ELSE b.nodes[k]
  <2>1. /\ t \in Seq(N) /\ DOMAIN t = DOMAIN b.nodes
        /\ \A i \in DOMAIN b.nodes : t[i] = IF i = m THEN n ELSE b.nodes[i]
    BY <1>1, <1>3, <1>5
  <2>2. k \in DOMAIN b.nodes
    BY DEF Holds
  <2> HIDE DEF t
  <2> QED BY <1>1, <1>4, <2>1, <2>2
<1> QED BY <1>5, <1>6 DEF r, Holds

LEMMA AnswererStep ==
  ASSUME Pinging!KpingdAssumption, PingInv, Pinging!TurnReceive,
         NEW i \in DOMAIN bucket.nodes, Head(responses).id = bucket.nodes[i].id,
         bucket.nodes[i].seen + DoubtAge >= clock
  PROVE  \E m \in Pinging!ToSet(bucket'.nodes) : m.id = bucket.nodes[i].id
<1> DEFINE r == Head(responses)
           known == r.id # NoId /\ r.host \in DOMAIN queue
           was == Pinging!AsItem(queue, r.host)
           failed == IF known THEN FailedContact(bucket, was, clock) ELSE bucket
<1>1. /\ responses # << >>
      /\ bucket' = IF r.id = NoId THEN bucket ELSE UpdateContact(failed, r, TRUE, clock)
  BY SamePings DEF Pinging!TurnReceive
<1>2. responses \in Seq(Answers) /\ r \in Answers
  BY <1>1 DEF PingInv, PingTypes
<1> HIDE DEF was
<1>3. SoundBucket(bucket, Ids, Hosts) /\ clock \in Nat
  BY PingFacts DEF PingInv, PingTypes
<1>4. bucket.nodes[i] \in Nodes(Ids, Hosts) /\ bucket.nodes[i].id # NullId
  BY <1>3, SeqProperties DEF SoundBucket, WithoutId
<1>5. bucket.nodes[i].id \in Ids /\ bucket.nodes[i].seen \in Nat
  BY <1>4 DEF Nodes
<1>6. r.id \in Ids /\ r.id # NoId /\ r \in [id : Ids, host : Hosts]
  BY <1>2, <1>5, PingFacts DEF Answers
<1>7. /\ SoundBucket(failed, Ids, Hosts)
      /\ i \in DOMAIN failed.nodes /\ failed.nodes[i].id = bucket.nodes[i].id
  <2>1. CASE known
    <3>1. /\ SoundBucket(FailedContact(bucket, was, clock), Ids, Hosts)
          /\ FailedKeeps(bucket, FailedContact(bucket, was, clock), was, clock)
      BY <1>3, PingFacts, FailedContactSound
    <3>2. ~(bucket.nodes[i].seen + DoubtAge < clock)
      BY <1>3, <1>5, KnodeAssumption
    <3> QED BY <2>1, <3>1, <3>2 DEF FailedKeeps
  <2>2. CASE ~known
    BY <1>3, <2>2
  <2> QED BY <2>1, <2>2
<1> HIDE DEF failed, r
<1>8. Holds(UpdateContact(failed, r, TRUE, clock), i, r)
  <2>1. Holds(failed, i, r)
    BY <1>7 DEF r, Holds
  <2> QED BY <1>3, <1>6, <1>7, <2>1, PingFacts, MetKeeps
<1>9. i \in DOMAIN bucket'.nodes /\ bucket'.nodes[i].id = r.id
  BY <1>1, <1>6, <1>8 DEF Holds
<1>10. Pinging!ToSet(bucket'.nodes) = {bucket'.nodes[j] : j \in DOMAIN bucket'.nodes}
  BY SameSets
<1> QED BY <1>9, <1>10 DEF r

LEMMA PingdStep ==
  ASSUME Pinging!KpingdAssumption, PingInv, [Pinging!Next]_(Pinging!vars)
  PROVE  /\ PingInv'
         /\ Len(responses') < Len(responses) => Pinging!TurnReceive
<1>1. CASE \E item \in Items, contacted \in BOOLEAN : Pinging!Contact(item, contacted)
  <2>1. PICK item \in Items, contacted \in BOOLEAN : Pinging!Contact(item, contacted)
    BY <1>1
  <2>2. responses' = responses
    BY <2>1 DEF Pinging!Contact
  <2>3. Len(responses) \in Nat
    BY DEF PingInv, PingTypes
  <2> QED BY <2>1, <2>2, <2>3, ContactStep
<1>2. CASE \E r \in Items \cup {[id |-> NoId, host |-> h] : h \in Hosts} : Pinging!Respond(r.host, r.id)
  <2>1. PICK r \in Items \cup {[id |-> NoId, host |-> h] : h \in Hosts} : Pinging!Respond(r.host, r.id)
    BY <1>2
  <2>2. r.host \in Hosts /\ r.id \in Ids \cup {NoId}
    <3>1. CASE r \in Items
      BY <3>1 DEF Items
    <3>2. CASE \E h \in Hosts : r = [id |-> NoId, host |-> h]
      BY <3>2
    <3> QED BY <2>1, <3>1, <3>2
  <2>3. PingInv' /\ Len(responses') > Len(responses)
    BY <2>1, <2>2, RespondStep
  <2>4. Len(responses) \in Nat /\ Len(responses') \in Nat
    BY <2>3 DEF PingInv, PingTypes
  <2> QED BY <2>3, <2>4
<1>3. CASE Pinging!Expire \/ Pinging!Tick \/ Pinging!Run \/ UNCHANGED Pinging!vars
  <2>1. PingInv' /\ responses' = responses
    BY <1>3, OtherStep
  <2>2. Len(responses) \in Nat
    BY DEF PingInv, PingTypes
  <2> QED BY <2>1, <2>2
<1>4. CASE Pinging!TurnSend \/ Pinging!TurnFail \/ Pinging!TurnDrained
  <2>1. PingInv'
    BY <1>4, PingSendStep, PingFailStep, PingDrainedStep
  <2>2. responses' = responses
    BY <1>4 DEF Pinging!TurnSend, Pinging!TurnFail, Pinging!TurnDrained
  <2>3. Len(responses) \in Nat
    BY DEF PingInv, PingTypes
  <2> QED BY <2>1, <2>2, <2>3
<1>5. CASE Pinging!TurnReceive
  BY <1>5, PingReceiveStep
<1> QED BY <1>1, <1>2, <1>3, <1>4, <1>5 DEF Pinging!Next

LEMMA PingGives ==
  ASSUME Pinging!KpingdAssumption, PingInv
  PROVE  /\ Pinging!TypeOK /\ Pinging!Undercounts
         /\ Pinging!NoPingUnwatched /\ Pinging!SleepsOnPings
<1>1. Pinging!TypeOK
  <2>1. static \in Pinging!Contacts /\ queue \in Pinging!Contacts
    BY MapIsContacts DEF PingInv, PingTypes
  <2>2. concurrency \in -MaxReplies .. Window
    <3>1. Len(responses) \in Nat /\ Len(responses) <= concurrency + replies
          /\ replies \in 0 .. MaxReplies /\ concurrency \in Int /\ concurrency <= Window
      BY DEF PingInv, PingTypes, PingCounts
    <3> QED BY <3>1, PingFacts
  <2> QED BY <2>1, <2>2 DEF PingInv, PingTypes, Pinging!TypeOK
<1>2. Pinging!Undercounts
  BY SameSets DEF PingInv, PingCounts, Pinging!Undercounts
<1>3. Pinging!NoPingUnwatched
  BY DEF PingInv, PingSleeps, Pinging!NoPingUnwatched, Pinging!Asleep
<1>4. Pinging!SleepsOnPings
  BY DEF PingInv, PingSleeps, Pinging!SleepsOnPings, Pinging!Asleep
<1> QED BY <1>1, <1>2, <1>3, <1>4

(* kpingd.cc: whatever answers come or fail to come, b_concurrency falls    *)
(* below the pings out only by the answers that belong to none; no ping is  *)
(* out without a timer unless such an answer came; asleep for answers,      *)
(* pingd has a deadline, a ping out and nothing unread; and who answers     *)
(* within DoubtAge keeps its slot, although it is reported failed first.    *)
THEOREM PingdSoundHolds ==
  ASSUME Pinging!KpingdAssumption
  PROVE  Pinging!Spec => /\ [](/\ Pinging!TypeOK /\ Pinging!Undercounts
                               /\ Pinging!NoPingUnwatched /\ Pinging!SleepsOnPings)
                         /\ Pinging!AnswererKept
<1> DEFINE Kept == \A i \in DOMAIN bucket.nodes :
                     LET n == bucket.nodes[i] IN
                     /\ Len(responses') < Len(responses) /\ Head(responses).id = n.id
                     /\ ~Pinging!IsBad(n) /\ n.seen + DoubtAge >= clock
                     => \E m \in Pinging!ToSet(bucket'.nodes) : m.id = n.id
<1>1. Pinging!Init => PingInv
  BY PingInit
<1>2. PingInv /\ [Pinging!Next]_(Pinging!vars) => PingInv'
  BY PingdStep
<1>3. PingInv => /\ Pinging!TypeOK /\ Pinging!Undercounts
                 /\ Pinging!NoPingUnwatched /\ Pinging!SleepsOnPings
  BY PingGives
<1>4. PingInv /\ [Pinging!Next]_(Pinging!vars) => [Kept]_(Pinging!vars)
  <2> SUFFICES ASSUME PingInv, [Pinging!Next]_(Pinging!vars), NEW i \in DOMAIN bucket.nodes,
                      Len(responses') < Len(responses),
                      Head(responses).id = bucket.nodes[i].id,
                      bucket.nodes[i].seen + DoubtAge >= clock
               PROVE  \E m \in Pinging!ToSet(bucket'.nodes) : m.id = bucket.nodes[i].id
    OBVIOUS
  <2> QED BY PingdStep, AnswererStep
<1> HIDE DEF Kept
<1>5. [][Kept]_(Pinging!vars) => Pinging!AnswererKept
  BY PTL DEF Pinging!AnswererKept, Kept
<1> QED BY <1>1, <1>2, <1>3, <1>4, <1>5, PTL DEF Pinging!Spec

-----------------------------------------------------------------------------
(* The start of the node and its two daemons.                              *)

CONSTANTS Routers, Session, MaxBoot, MaxSize

VARIABLES step, tableid, wireid, placed, boot, size, nodes, run, due, b, c

Starting == INSTANCE Kboot

(* The contacts are where the table's id puts them, but for the routers'.   *)
PlacedInv ==
  /\ step \in {"routers", "session", "start", "loop"}
  /\ step = "loop" => wireid = tableid
  /\ step \in {"routers", "session"} => DOMAIN placed \subseteq Routers
  /\ step \in {"start", "loop"} => \A x \in DOMAIN placed : placed[x] # tableid => x \in Routers

(* Where checkerd is: every bucket below its index was answered, but for    *)
(* the one it is asking for, and the index never leaves the table, unless   *)
(* the table has no bucket yet.                                             *)
NotBegun == size = 0 /\ c.index = 0 /\ answered = {}

CheckInv ==
  /\ c.state = 0 => (c.index < size \/ NotBegun) /\ \A i \in 0 .. c.index - 1 : i \in answered
  /\ c.state = 1 => 1 <= c.index /\ c.index <= size /\ \A i \in 0 .. c.index - 2 : i \in answered

StartTypes ==
  /\ size \in 0 .. MaxSize /\ nodes \in {"none", "known", "valid"}
  /\ run \in [Starting!Daemons -> {"null", "asleep", "ready", "running"}]
  /\ b \in [state : {0, 2, 4}, refresh : BOOLEAN, usevalid : BOOLEAN]
  /\ c \in [state : {0, 1, 4}, index : 0 .. MaxSize, retry : BOOLEAN]
  /\ answered \subseteq 0 .. MaxSize - 1

StartInv == StartTypes /\ PlacedInv /\ CheckInv

LEMMA StartInit == Starting!KbootAssumption /\ Starting!Init => StartInv
<1> SUFFICES ASSUME Starting!KbootAssumption, Starting!Init PROVE StartInv
  OBVIOUS
<1>1. StartTypes
  BY DEF Starting!KbootAssumption, Starting!Init, StartTypes
<1>2. PlacedInv
  BY DEF Starting!Init, PlacedInv
<1>3. CheckInv
  BY DEF Starting!Init, CheckInv, NotBegun
<1> QED BY <1>1, <1>2, <1>3 DEF StartInv

(* Contacts are put in the bucket of the id the table has by then. *)
LEMMA PlacedThere ==
  ASSUME StartTypes, NEW S, Starting!Place(S)
  PROVE  /\ DOMAIN placed' = S \cup DOMAIN placed
         /\ \A x \in DOMAIN placed' : IF x \in DOMAIN placed THEN placed'[x] = placed[x]
                                      ELSE placed'[x] = tableid'
         /\ nodes' \in {"none", "known", "valid"} /\ size' \in 0 .. MaxSize /\ size' >= size
<1>1. /\ placed' = [x \in S \cup DOMAIN placed |-> IF x \in DOMAIN placed THEN placed[x] ELSE tableid']
      /\ nodes' = IF S = {} THEN nodes ELSE "known"
      /\ size' \in IF S = {} THEN {size} ELSE size .. MaxSize
  BY DEF Starting!Place
<1>2. nodes' \in {"none", "known", "valid"} /\ size' \in 0 .. MaxSize /\ size' >= size
  BY <1>1 DEF StartTypes
<1> QED BY <1>1, <1>2

(* What the steps leave of the start, and of checkerd. *)
LEMMA SameStart ==
  ASSUME PlacedInv, UNCHANGED <<step, tableid, wireid, placed>>
  PROVE  PlacedInv'
  BY DEF PlacedInv

LEMMA SameCheck ==
  ASSUME StartTypes, CheckInv, UNCHANGED <<c, answered>>, size' \in Int, size' >= size
  PROVE  CheckInv'
<1>1. size \in 0 .. MaxSize /\ c.index \in Int
  BY DEF StartTypes
<1> QED BY <1>1 DEF CheckInv, NotBegun

LEMMA StartNext ==
  ASSUME Starting!KbootAssumption, StartInv, [Starting!Next]_(Starting!vars)
  PROVE  /\ StartInv'
         /\ c.state # 4 /\ c'.state = 4 => 0 .. size' - 1 \subseteq answered'
         /\ run["checkerd"] = "running" /\ run'["checkerd"] = "null" =>
              \/ nodes = "none" \/ (c.retry /\ nodes # "valid")
              \/ size = 0 /\ c.index = 0 /\ answered = {}
<1> DEFINE Goal == /\ StartInv'
                   /\ c.state # 4 /\ c'.state = 4 => 0 .. size' - 1 \subseteq answered'
                   /\ run["checkerd"] = "running" /\ run'["checkerd"] = "null" =>
                        \/ nodes = "none" \/ (c.retry /\ nodes # "valid")
                        \/ size = 0 /\ c.index = 0 /\ answered = {}
<1> USE DEF StartInv
<1>0. /\ size \in 0 .. MaxSize /\ MaxSize \in Int /\ c.index \in 0 .. MaxSize
      /\ c.state \in {0, 1, 4} /\ c.retry \in BOOLEAN /\ answered \subseteq 0 .. MaxSize - 1
      /\ "checkerd" \in Starting!Daemons /\ "bootupd" \in Starting!Daemons
  BY DEF StartTypes, Starting!Daemons, Starting!KbootAssumption
(* Nothing of checkerd's moves, and the table does not shrink. *)
<1>a. ASSUME UNCHANGED <<c, answered>>, StartTypes', PlacedInv', size' >= size,
             run["checkerd"] = "running" => run'["checkerd"] # "null"
      PROVE  Goal
  <2>1. size' \in Int
    BY <1>a DEF StartTypes
  <2>2. CheckInv'
    BY <1>a, <2>1, SameCheck
  <2> QED BY <1>a, <2>2
<1>1. CASE Starting!NameRouters
  <2>1. PICK S \in SUBSET Routers : Starting!Place(S)
    BY <1>1 DEF Starting!NameRouters
  <2>2. /\ step = "routers" /\ step' = "session" /\ UNCHANGED <<tableid, run, b, c, answered>>
    BY <1>1 DEF Starting!NameRouters
  <2>3. StartTypes' /\ size' >= size
    BY <2>1, <2>2, PlacedThere DEF StartTypes
  <2>4. PlacedInv'
    <3>1. DOMAIN placed' = S \cup DOMAIN placed
      BY <2>1, PlacedThere
    <3>2. DOMAIN placed \subseteq Routers
      BY <2>2 DEF PlacedInv
    <3>3. DOMAIN placed' \subseteq Routers
      BY ONLY <2>1, <3>1, <3>2
    <3> QED BY <2>2, <3>3 DEF PlacedInv
  <2> QED BY <1>a, <2>2, <2>3, <2>4
<1>2. CASE Starting!LoadSession
  <2>1. PICK S : Starting!Place(S)
    BY <1>2 DEF Starting!LoadSession
  <2>2. /\ step = "session" /\ step' = "start" /\ UNCHANGED <<run, b, c, answered>>
    BY <1>2 DEF Starting!LoadSession
  <2>3. StartTypes' /\ size' >= size
    BY <2>1, <2>2, PlacedThere DEF StartTypes
  <2>4. PlacedInv'
    BY <2>1, <2>2, PlacedThere DEF PlacedInv
  <2> QED BY <1>a, <2>2, <2>3, <2>4
<1>3. CASE Starting!NetStart
  <2>1. /\ step = "start" /\ step' = "loop" /\ wireid' = tableid
        /\ run' = [t \in Starting!Daemons |-> "ready"]
        /\ UNCHANGED <<tableid, placed, size, nodes, b, c, answered>>
    BY <1>3 DEF Starting!NetStart, Starting!table
  <2>2. StartTypes'
    BY <2>1 DEF StartTypes
  <2>3. PlacedInv'
    BY <2>1 DEF PlacedInv
  <2> QED BY <1>0, <1>a, <2>1, <2>2, <2>3
<1> USE DEF Starting!start, Starting!table
<1>4. CASE Starting!BootFind
  <2>1. UNCHANGED <<step, tableid, wireid, placed, size, nodes, c, answered>>
    BY <1>4 DEF Starting!BootFind
  <2>2. StartTypes' /\ run'["checkerd"] = run["checkerd"]
    BY <1>4, <2>1 DEF Starting!BootFind, Starting!Sleep, StartTypes, Starting!Daemons
  <2> QED BY <1>0, <1>a, <2>1, <2>2, SameStart
<1>5. ASSUME NEW t \in Starting!Daemons, Starting!VcallSleeps(t), run[t] = "running"
      PROVE  Goal
  <2>1. UNCHANGED <<step, tableid, wireid, placed, size, nodes, b, c, answered>>
    BY <1>5 DEF Starting!VcallSleeps
  <2>2. run' = [run EXCEPT ![t] = "asleep"]
    BY <1>5 DEF Starting!VcallSleeps, Starting!Sleep
  <2>3. StartTypes'
    BY <2>1, <2>2 DEF StartTypes
  <2>4. run["checkerd"] = "running" => run'["checkerd"] # "null"
    BY <2>2 DEF StartTypes
  <2> QED BY <1>0, <1>a, <2>1, <2>3, <2>4, SameStart
<1>6. CASE Starting!BootLookupEnds
  <2>1. /\ UNCHANGED <<step, tableid, wireid, placed, run, c, answered>>
        /\ nodes' \in {"none", "known", "valid"} /\ size' \in size .. MaxSize
        /\ \E few \in BOOLEAN : b' = [b EXCEPT !.state = 4, !.usevalid = few]
    BY <1>6 DEF Starting!BootLookupEnds, Starting!Learns
  <2>2. size' \in 0 .. MaxSize /\ size' >= size
    BY <1>0, <2>1
  <2>3. StartTypes'
    BY <2>1, <2>2 DEF StartTypes
  <2> QED BY <1>a, <2>1, <2>2, <2>3, SameStart
<1>7. CASE Starting!BootWait
  <2>1. UNCHANGED <<step, tableid, wireid, placed, size, nodes, c, answered>>
    BY <1>7 DEF Starting!BootWait
  <2>2. PICK told, refresh : /\ told \in {run, Starting!Refreshed(run)} /\ refresh \in BOOLEAN
                             /\ \/ /\ run' = [told EXCEPT !["bootupd"] = "asleep"]
                                   /\ b' = [b EXCEPT !.refresh = refresh]
                                \/ run' = told /\ b' = [b EXCEPT !.refresh = refresh, !.state = 0]
    <3>1. (b.refresh /\ ~(size > 4)) \in BOOLEAN
      OBVIOUS
    <3> QED BY <1>7, <3>1 DEF Starting!BootWait
  <2>3. /\ told \in [Starting!Daemons -> {"null", "asleep", "ready", "running"}]
        /\ told["checkerd"] \in {run["checkerd"], "ready"}
    BY <1>0, <2>2 DEF Starting!Refreshed, StartTypes
  <2>4. b' \in [state : {0, 2, 4}, refresh : BOOLEAN, usevalid : BOOLEAN]
    BY <2>2 DEF StartTypes
  <2>5. /\ run' \in [Starting!Daemons -> {"null", "asleep", "ready", "running"}]
        /\ run'["checkerd"] = told["checkerd"]
    BY <2>2, <2>3 DEF Starting!Daemons
  <2>6. StartTypes'
    BY <2>1, <2>4, <2>5 DEF StartTypes
  <2> QED BY <1>0, <1>a, <2>1, <2>3, <2>5, <2>6, SameStart
<1>8. CASE Starting!CheckFind
  <2>1. UNCHANGED <<step, tableid, wireid, placed, size, nodes, b, answered>>
    BY <1>8 DEF Starting!CheckFind
  <2>2. c.state = 0 /\ (c.index < size \/ NotBegun) /\ \A i \in 0 .. c.index - 1 : i \in answered
    BY <1>8 DEF Starting!CheckFind, CheckInv
  <2>3. CASE Starting!CheckFound
    <3>0. c.index < size
      BY <2>3 DEF Starting!CheckFound
    <3>1. run' = run /\ c' = [state |-> 1, index |-> c.index + 1, retry |-> FALSE]
      BY <1>8, <2>3 DEF Starting!CheckFind
    <3>2. /\ c' \in [state : {0, 1, 4}, index : 0 .. MaxSize, retry : BOOLEAN]
          /\ c'.state = 1 /\ c'.index = c.index + 1
      BY <1>0, <3>0, <3>1
    <3>3. StartTypes'
      BY <2>1, <3>1, <3>2 DEF StartTypes
    <3>4. \A i \in 0 .. c'.index - 2 : i \in answered'
      BY <1>0, <2>1, <2>2, <3>2
    <3>5. CheckInv'
      BY <1>0, <2>1, <3>0, <3>2, <3>4 DEF CheckInv
    <3> QED BY <2>1, <3>1, <3>2, <3>3, <3>5, SameStart
  <2>4. CASE ~Starting!CheckFound
    <3>1. run' = [run EXCEPT !["checkerd"] = "null"] /\ c' = c
      BY <1>8, <2>4 DEF Starting!CheckFind, Starting!Sleep
    <3>2. \/ nodes = "none" \/ (c.retry /\ nodes # "valid")
          \/ size = 0 /\ c.index = 0 /\ answered = {}
      BY <1>0, <2>2, <2>4 DEF Starting!CheckFound, Starting!Finds, StartTypes, NotBegun
    <3>3. StartTypes'
      BY <2>1, <3>1 DEF StartTypes
    <3>4. CheckInv'
      BY <1>0, <2>1, <3>1, SameCheck
    <3> QED BY <2>1, <3>1, <3>2, <3>3, <3>4, SameStart
  <2> QED BY <2>3, <2>4
<1>9. CASE Starting!CheckLookupEnds
  <2>1. /\ UNCHANGED <<step, tableid, wireid, placed, run, b>>
        /\ nodes' \in {"none", "known", "valid"} /\ size' \in size .. MaxSize
    BY <1>9 DEF Starting!CheckLookupEnds, Starting!Learns
  <2>2. 1 <= c.index /\ c.index <= size /\ \A i \in 0 .. c.index - 2 : i \in answered
    BY <1>9 DEF Starting!CheckLookupEnds, CheckInv
  <2>3. size' \in 0 .. MaxSize /\ size' >= size
    BY <1>0, <2>1
  <2>4. PICK heard \in BOOLEAN :
          /\ answered' = (IF heard THEN answered \cup {c.index - 1} ELSE answered)
          /\ c' = [state |-> IF Starting!NextIndex(heard) < size' THEN 0 ELSE 4,
                   index |-> Starting!NextIndex(heard), retry |-> ~heard]
    BY <1>9 DEF Starting!CheckLookupEnds
  <2>5. /\ c'.index = Starting!NextIndex(heard) /\ c'.index \in 0 .. MaxSize
        /\ c'.state \in {0, 4} /\ (c'.state = 0 <=> c'.index < size') /\ c'.retry \in BOOLEAN
        /\ c' \in [state : {0, 1, 4}, index : 0 .. MaxSize, retry : BOOLEAN]
    BY <1>0, <2>2, <2>3, <2>4 DEF Starting!NextIndex
  <2>6. answered' \subseteq 0 .. MaxSize - 1 /\ \A i \in 0 .. c'.index - 1 : i \in answered'
    <3>1. CASE heard
      <4>1. answered' = answered \cup {c.index - 1} /\ c'.index = c.index
        BY <2>4, <2>5, <3>1 DEF Starting!NextIndex
      <4>2. c.index - 1 \in 0 .. MaxSize - 1
        BY <1>0, <2>2
      <4>3. \A i \in 0 .. c.index - 1 : i = c.index - 1 \/ i \in 0 .. c.index - 2
        BY <1>0, <2>2
      <4> QED BY <1>0, <2>2, <4>1, <4>2, <4>3
    <3>2. CASE ~heard
      <4>1. answered' = answered /\ c'.index = c.index - 1
        BY <2>4, <2>5, <3>2 DEF Starting!NextIndex
      <4>2. \A i \in 0 .. c.index - 1 - 1 : i \in 0 .. c.index - 2
        BY <1>0, <2>2
      <4> QED BY <1>0, <2>2, <4>1, <4>2
    <3> QED BY <3>1, <3>2
  <2>7. StartTypes'
    BY <2>1, <2>3, <2>5, <2>6 DEF StartTypes
  <2>8. CheckInv'
    BY <2>5, <2>6 DEF CheckInv
  <2>9. c'.state = 4 => 0 .. size' - 1 \subseteq answered'
    <3>1. ASSUME c'.state = 4 PROVE \A i \in 0 .. size' - 1 : i \in 0 .. c'.index - 1
      <4>1. PICK m, n : m = size' /\ n = c'.index
        OBVIOUS
      <4>2. m \in Int /\ n \in Int /\ ~(n < m)
        BY <1>0, <2>3, <2>5, <3>1, <4>1
      <4>3. \A i \in 0 .. m - 1 : i \in 0 .. n - 1
        BY <4>2
      <4> QED BY <4>1, <4>3
    <3>2. c'.state = 4 => \A i \in 0 .. size' - 1 : i \in answered'
      BY <2>6, <3>1
    <3> QED BY <3>2
  <2> QED BY <2>1, <2>7, <2>8, <2>9, SameStart
<1>10. CASE Starting!CheckWait
  <2>1. c.state = 4 /\ UNCHANGED <<step, tableid, wireid, placed, size, nodes, b>>
    BY <1>10 DEF Starting!CheckWait
  <2>2. CASE UNCHANGED <<c, answered>> /\ Starting!Sleep("checkerd", "asleep")
    <3>1. StartTypes' /\ run'["checkerd"] = "asleep"
      BY <1>0, <2>1, <2>2 DEF Starting!Sleep, StartTypes
    <3> QED BY <1>0, <1>a, <2>1, <2>2, <3>1, SameStart
  <2>3. CASE c' = [c EXCEPT !.state = 0, !.index = 0] /\ answered' = {} /\ UNCHANGED run
    <3>1. /\ c' \in [state : {0, 1, 4}, index : 0 .. MaxSize, retry : BOOLEAN]
          /\ c'.state = 0 /\ c'.index = 0
      <4>1. c \in [state : {0, 1, 4}, index : 0 .. MaxSize, retry : BOOLEAN] /\ 0 \in 0 .. MaxSize
        BY <1>0 DEF StartTypes
      <4> QED BY <2>3, <4>1
    <3>2. StartTypes'
      BY <2>1, <2>3, <3>1 DEF StartTypes
    <3>3. CheckInv'
      BY <1>0, <2>1, <2>3, <3>1 DEF CheckInv, NotBegun
    <3> QED BY <2>1, <2>3, <3>1, <3>2, <3>3, SameStart
  <2> QED BY <1>10, <2>2, <2>3 DEF Starting!CheckWait
<1>11. CASE Starting!TableChanges
  <2>1. /\ UNCHANGED <<step, tableid, wireid, placed, run, b, c, answered>>
        /\ nodes' \in {"none", "known", "valid"} /\ size' \in size .. MaxSize
    BY <1>11 DEF Starting!TableChanges, Starting!Learns
  <2>2. size' \in 0 .. MaxSize /\ size' >= size
    BY <1>0, <2>1
  <2>3. StartTypes'
    BY <2>1, <2>2 DEF StartTypes
  <2> QED BY <1>a, <2>1, <2>2, <2>3, SameStart
<1>12. ASSUME NEW t \in Starting!Daemons, Starting!Turn(t) \/ Starting!Expire(t) \/ Starting!ExpireOld(t)
       PROVE  Goal
  <2>1. /\ UNCHANGED <<step, tableid, wireid, placed, size, nodes, b, c, answered>>
        /\ \E how \in {"running", "ready"} : run' = [run EXCEPT ![t] = how]
    BY <1>12 DEF Starting!Turn, Starting!Expire, Starting!ExpireOld
  <2>2. StartTypes' /\ (run["checkerd"] = "running" => run'["checkerd"] # "null")
    BY <1>0, <2>1 DEF StartTypes
  <2> QED BY <1>0, <1>a, <2>1, <2>2, SameStart
<1>13. CASE UNCHANGED Starting!vars
  <2>1. UNCHANGED <<step, tableid, wireid, placed, size, nodes, run, b, c, answered>>
    BY <1>13 DEF Starting!vars
  <2>2. StartTypes'
    BY <2>1 DEF StartTypes
  <2> QED BY <1>0, <1>a, <2>1, <2>2, SameStart
<1> QED
  <2>1. CASE Starting!BootLookupSleeps
    BY <1>0, <1>5, <2>1 DEF Starting!BootLookupSleeps
  <2>2. CASE Starting!CheckLookupSleeps
    BY <1>0, <1>5, <2>2 DEF Starting!CheckLookupSleeps
  <2> QED BY <1>1, <1>2, <1>3, <1>4, <1>6, <1>7, <1>8, <1>9, <1>10, <1>11, <1>12, <1>13, <2>1, <2>2
          DEF Starting!Next, Starting!Bootupd, Starting!Checkerd

(* Once the daemons run the packets carry the id of the table, and only the *)
(* routers were placed by another (OneId); checkerd waits only when a lookup*)
(* in every bucket below b_nbucket0 was answered, and stops only for want of*)
(* nodes, or at its first turn while b_nbucket0 is 0 (main() of bloader.cc, *)
(* load_session(), bdhtnet_start(), checkerd.cc).                           *)
THEOREM StartSoundHolds ==
  ASSUME Starting!KbootAssumption
  PROVE  Starting!Spec => /\ [](Starting!TypeOK /\ Starting!OneId)
                          /\ Starting!EveryBucketAnswered /\ Starting!StopsForWantOfNodes
<1> DEFINE A == c.state # 4 /\ c'.state = 4 => 0 .. size' - 1 \subseteq answered'
           S == run["checkerd"] = "running" /\ run'["checkerd"] = "null" =>
                  \/ nodes = "none" \/ (c.retry /\ nodes # "valid")
                  \/ size = 0 /\ c.index = 0 /\ answered = {}
<1>1. Starting!Init => StartInv
  BY StartInit
<1>2. StartInv /\ [Starting!Next]_(Starting!vars) => StartInv' /\ A /\ S
  BY StartNext
<1>3. StartInv => Starting!TypeOK /\ Starting!OneId
  <2>1. StartInv => Starting!TypeOK
    BY DEF StartInv, StartTypes, Starting!TypeOK
  <2>2. StartInv => Starting!OneId
    BY DEF StartInv, PlacedInv, Starting!OneId
  <2> QED BY <2>1, <2>2
<1>4. Starting!EveryBucketAnswered <=> [][A]_(Starting!vars)
  BY DEF Starting!EveryBucketAnswered
<1>5. Starting!StopsForWantOfNodes <=> [][S]_(Starting!vars)
  BY DEF Starting!StopsForWantOfNodes
<1> HIDE DEF A, S
<1> QED BY <1>1, <1>2, <1>3, <1>4, <1>5, PTL DEF Starting!Spec
=============================================================================
