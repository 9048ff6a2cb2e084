------------------------------ MODULE Tracker ------------------------------
(***************************************************************************)
(* btget and the trackers of its torrents (context.c, the timers of        *)
(* main()): what they are told and when, and what becomes of the peers     *)
(* they name.  Time is the seconds gone by since a timer was set.  A       *)
(* request holds up the loop until it is answered or fails.                *)
(***************************************************************************)
EXTENDS Integers, SequencesExt

CONSTANTS
  NTorrents,  \* downloadcount
  Hosts,      \* [id, ip, port]; ip a sequence of bytes
  MyId, NoId,
  MAXCONN,    \* entries of poll()'s table: 100 in the code
  Missing,    \* pieces each torrent may lack when it is loaded
  Answers,    \* what trackers answer: [ok, interval, kind, hosts]
  Step,       \* bound: seconds one turn of the loop may take
  MaxAge      \* bound, above every interval: a timer as old is never older

NoAnswer == [ok |-> FALSE, interval |-> 0, kind |-> "none", hosts |-> <<>>]  \* curl failed
Refused == [NoAnswer EXCEPT !.kind = "failure"]

TrackerAssumption ==
  /\ NTorrents \in Nat \ {0} /\ MAXCONN \in Nat \ {0} /\ Step \in Nat \ {0} /\ MaxAge \in Nat
  /\ Missing \subseteq Nat /\ \A h \in Hosts : h.port \in Nat
  /\ NoAnswer \in Answers
  /\ \A a \in Answers : a.ok \in BOOLEAN /\ a.interval \in 0..MaxAge-1
                        /\ a.hosts \in Seq(Hosts) /\ (a.kind = "list" => a.ok)

Torrents == 1..NTorrents

VARIABLES
  dls,       \* interval, complete, dl, left and peers of each torrent
  age,       \* of reregister_timer
  reported,  \* age of report_timer
  nstatus, strangers,  \* entries in use; accepted and of no torrent yet
  serving,   \* the server is started and the trackers have been told
  told, heard  \* "completed" events sent; the answer of this step

vars == <<dls, age, reported, nstatus, strangers, serving, told, heard>>

Quiet == [t \in Torrents |-> NoAnswer]

Init ==
  /\ dls \in [Torrents -> {[interval |-> 0, complete |-> FALSE, dl |-> 0, left |-> n, peers |-> <<>>] : n \in Missing}]
  /\ age = [t \in Torrents |-> 0] /\ reported = 0
  /\ nstatus = 1 /\ strangers = 0 /\ serving = FALSE
  /\ told = [t \in Torrents |-> 0] /\ heard = Quiet

-----------------------------------------------------------------------------
(* The answer.                                                              *)

(* An address is compared by a cast of four bytes to one of sixteen: the    *)
(* family is taken from the address, the address from the port behind it.   *)
Collides(p, h) ==
  p.host.ip[1] = 2 /\ p.host.ip[2] = 0 /\ h.ip = <<p.port % 256, p.port \div 256, 0, 0>>

Skipped(C, t, h, kind) ==
  \/ kind = "list" /\ h.id = MyId
  \/ \E p \in Range(C.dls[t].peers) : IF kind = "list" THEN p.id = h.id ELSE Collides(p, h)

(* peer_add: over the limit nothing is done. *)
PeerAdd(C, t, h, kind) ==
  IF C.nstatus >= MAXCONN THEN C
  ELSE [C EXCEPT !.nstatus = @ + 1,
                 !.dls[t].peers = Append(@, [host |-> h, id |-> IF kind = "list" THEN h.id ELSE NoId,
                                             port |-> h.port, kind |-> kind])]

(* btresponse: the hosts one after the other. *)
Btresponse(C, t, answer) ==
  LET hosts == answer.hosts
      after[i \in 0..Len(hosts)] ==
        IF i = 0 THEN [C EXCEPT !.dls[t].interval = answer.interval]
        ELSE IF Skipped(after[i - 1], t, hosts[i], answer.kind) THEN after[i - 1]
        ELSE PeerAdd(after[i - 1], t, hosts[i], answer.kind)
  IN  IF answer.ok THEN after[Len(hosts)] ELSE C

(* The torrents one after the other, those in due. *)
AskEach(C, due, answers) ==
  LET after[t \in 0..NTorrents] ==
        IF t = 0 THEN C
        ELSE IF t \in due THEN Btresponse(after[t - 1], t, answers[t]) ELSE after[t - 1]
  IN  after[NTorrents]

Now == [dls |-> dls, nstatus |-> nstatus, told |-> told]
Becomes(C) == dls' = C.dls /\ nstatus' = C.nstatus /\ told' = C.told

(* ctx_register for each: the first word to the trackers. *)
Register ==
  /\ ~serving /\ serving' = TRUE
  /\ \E answers \in [Torrents -> Answers] :
       /\ Becomes(AskEach(Now, Torrents, answers))
       /\ heard' = answers
  /\ UNCHANGED <<age, reported, strangers>>

-----------------------------------------------------------------------------
(* The timers at the end of a turn.                                         *)

Due(t, seconds) == age[t] + seconds > dls[t].interval

(* Mutant: a tracker that never answered is not told, nor later. *)
CompleteKnown(C, t) ==
  IF C.dls[t].left > 0 \/ C.dls[t].complete THEN C
  ELSE [C EXCEPT !.dls[t].complete = TRUE,
                 !.told[t] = IF C.dls[t].dl = 0 \/ C.dls[t].interval = 0 THEN @ ELSE @ + 1]

(* ctx_complete: once, and not for what was complete when it was loaded.    *)
(* What the tracker answers is not looked at.                               *)
Complete(C, t) ==
  IF C.dls[t].left > 0 \/ C.dls[t].complete THEN C
  ELSE [C EXCEPT !.dls[t].complete = TRUE,
                 !.told[t] = IF C.dls[t].dl = 0 THEN @ ELSE @ + 1]

CompleteEach(C) ==
  LET after[t \in 0..NTorrents] == IF t = 0 THEN C ELSE Complete(after[t - 1], t)
  IN  after[NTorrents]

Least(m, n) == IF m < n THEN m ELSE n

Turn(seconds, answers) ==
  /\ serving
  /\ LET due == {t \in Torrents : Due(t, seconds)}
         asked == AskEach(Now, due, answers)
         report == reported + seconds > 0
     IN /\ \A t \in Torrents \ due : answers[t] = NoAnswer
        /\ Becomes(IF report THEN CompleteEach(asked) ELSE asked)
        /\ age' = [t \in Torrents |-> IF t \in due THEN 0 ELSE Least(age[t] + seconds, MaxAge)]
        /\ reported' = IF report THEN 0 ELSE reported + seconds
        /\ heard' = answers
  /\ UNCHANGED <<strangers, serving>>

-----------------------------------------------------------------------------
(* The peers, and the download.                                             *)

(* A piece is finished; somebody must have sent it. *)
PieceDone(t) ==
  /\ serving /\ dls[t].left > 0 /\ dls[t].peers # <<>>
  /\ dls' = [dls EXCEPT ![t].left = @ - 1, ![t].dl = @ + 1]
  /\ heard' = Quiet /\ UNCHANGED <<age, reported, nstatus, strangers, serving, told>>

(* peer_answer *)
PeerAnswer ==
  /\ serving /\ nstatus < MAXCONN /\ nstatus' = nstatus + 1 /\ strangers' = strangers + 1
  /\ heard' = Quiet /\ UNCHANGED <<dls, age, reported, serving, told>>

(* The first half of a handshake names the torrent, the rest the peer. *)
Join(t, h) ==
  /\ strangers > 0 /\ strangers' = strangers - 1
  /\ \E id \in {h.id, NoId} :
       dls' = [dls EXCEPT ![t].peers = Append(@, [host |-> h, id |-> id, port |-> 0, kind |-> "incoming"])]
  /\ heard' = Quiet /\ UNCHANGED <<age, reported, nstatus, serving, told>>

Named(t, i) ==
  /\ i <= Len(dls[t].peers) /\ dls[t].peers[i].id = NoId
  /\ dls' = [dls EXCEPT ![t].peers[i].id = dls[t].peers[i].host.id]
  /\ heard' = Quiet /\ UNCHANGED <<age, reported, nstatus, strangers, serving, told>>

Freed(n) == n - 1

(* client_finit *)
ClientFinit ==
  /\ \/ strangers > 0 /\ strangers' = strangers - 1 /\ UNCHANGED dls
     \/ \E t \in Torrents : \E i \in DOMAIN dls[t].peers :
          dls' = [dls EXCEPT ![t].peers = RemoveAt(@, i)] /\ UNCHANGED strangers
  /\ nstatus' = Freed(nstatus)
  /\ heard' = Quiet /\ UNCHANGED <<age, reported, serving, told>>

Next ==
  \/ Register
  \/ \E seconds \in 0..Step, answers \in [Torrents -> Answers] : Turn(seconds, answers)
  \/ \E t \in Torrents : PieceDone(t) \/ \E h \in Hosts : Join(t, h)
  \/ \E t \in Torrents, i \in 1..MAXCONN : Named(t, i)
  \/ PeerAnswer \/ ClientFinit

Spec == Init /\ [][Next]_vars

(* The loop goes round every millisecond, so seconds pass; trackers that    *)
(* are asked again and again answer some time.                              *)
LiveSpec ==
  /\ Spec
  /\ WF_vars(Register)
  /\ WF_vars(\E answers \in [Torrents -> Answers] : Turn(1, answers))
  /\ \A t \in Torrents : SF_vars(\E answers \in [Torrents -> Answers] : Turn(1, answers) /\ answers[t].ok)

-----------------------------------------------------------------------------

(* The variables keep their types. *)
TypeOK ==
  /\ \A t \in Torrents :
       /\ dls[t].interval \in {a.interval : a \in Answers} /\ dls[t].complete \in BOOLEAN
       /\ dls[t].dl \in Nat /\ dls[t].left \in Nat /\ age[t] \in Nat
       /\ \A p \in Range(dls[t].peers) : p.host \in Hosts /\ p.id \in {p.host.id, NoId}
  /\ reported \in Nat /\ nstatus \in 1..MAXCONN /\ strangers \in Nat /\ serving \in BOOLEAN

(* The peers of all torrents. *)
PeerCount(d) ==
  LET upto[t \in 0..NTorrents] == IF t = 0 THEN 0 ELSE upto[t - 1] + Len(d[t].peers)
  IN  upto[NTorrents]

(* The entries in use are the server's, the peers' of all torrents and      *)
(* those of connections that have not named one: none is lost to the limit. *)
EntriesCounted == nstatus = 1 + strangers + PeerCount(dls)

(* A peer a tracker names by its id is connected to once, however often it  *)
(* is named, and btget does not connect to itself that way.                 *)
ListedOnce ==
  \A t \in Torrents : LET ps == dls[t].peers IN
    \A i \in DOMAIN ps : ps[i].kind = "list" =>
      /\ ps[i].id # MyId
      /\ \A j \in DOMAIN ps : ps[j].kind = "list" /\ ps[j].id = ps[i].id => i = j

(* Every peer a tracker has just named is tried unless it is there already  *)
(* or there is no room: one that is skipped does not end the list.          *)
AllTried ==
  \A t \in Torrents : heard[t].kind = "list" =>
    \A h \in Range(heard[t].hosts) :
      h.id = MyId \/ nstatus = MAXCONN \/ \E p \in Range(dls[t].peers) : p.id = h.id

(* No tracker waits for us longer than its interval: each torrent has its   *)
(* own timer, and one whose tracker never answered is asked every second.   *)
Timely == \A t \in Torrents : age[t] <= dls[t].interval

(* "completed" is told once at most, for what this life of btget has        *)
(* completed and not for what was complete when it was loaded.              *)
CompletedOnce ==
  \A t \in Torrents : told[t] = IF dls[t].complete /\ dls[t].dl > 0 THEN 1 ELSE 0

(* A download that ends is told to its tracker. *)
CompletedTold == \A t \in Torrents : (dls[t].left = 0 /\ dls[t].dl > 0) ~> told[t] = 1

(* Trackers that did not answer at the start are asked until they do. *)
GetsRegistered == \A t \in Torrents : <>(dls[t].interval > 0)
=============================================================================
