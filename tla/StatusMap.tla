------------------------------ MODULE StatusMap ------------------------------
(***************************************************************************)
(* The sockets of libbt: the table poll() is given, the map from sockets   *)
(* to its entries (context.c), and btget's loop over it, which opens and   *)
(* closes connections while it goes through the events.                    *)
(***************************************************************************)
EXTENDS Integers, SequencesExt, FiniteSetsExt

CONSTANTS
  SOCKID_MAX, MAXCONN,  \* 1024 and 100 in the code
  Refused               \* TRUE: connect() may fail at once

StatusMapAssumption == SOCKID_MAX \in Nat \ {0} /\ MAXCONN \in Nat \ {0}

Sockets == 0..SOCKID_MAX-1
TMPLOC == SOCKID_MAX
ss == 0  \* the server's socket

VARIABLES
  status,    \* entries [fd, events, revents], nstatus of them
  statmap,   \* socket -> entry, counted from 0, or -1
  sockpeer,  \* socket -> "none", or its peer's state: "init", "live", "error"
  xset,      \* sockets with work to do without an event
  fds,       \* sockets the kernel has given us
  at,        \* where the loop is: [phase, i]
  died       \* a DIE_UNLESS has failed

vars == <<status, statmap, sockpeer, xset, fds, at, died>>

Entry(fd, events) == [fd |-> fd, events |-> events, revents |-> {}]

(* ctx_startserver() has run. *)
Init ==
  /\ status = <<Entry(ss, {"IN"})>>
  /\ statmap = [fd \in Sockets \cup {TMPLOC} |-> IF fd = ss THEN 0 ELSE -1]
  /\ sockpeer = [fd \in Sockets |-> "none"] /\ xset = {} /\ fds = {ss}
  /\ at = [phase |-> "poll", i |-> 0] /\ died = FALSE

-----------------------------------------------------------------------------
(* context.c, on T = [status, statmap].                                     *)

Table == [status |-> status, statmap |-> statmap]

AddStatus(T, fd) ==
  [status |-> Append(T.status, Entry(fd, {})), statmap |-> [T.statmap EXCEPT ![fd] = Len(T.status)]]

SetEvents(T, fd, ev) == [T EXCEPT !.status[T.statmap[fd] + 1].events = @ \cup ev]
ClrEvents(T, fd, ev) == [T EXCEPT !.status[T.statmap[fd] + 1].events = @ \ ev]

(* The socket's own number stays in the map. *)
DelStatus(T, fd) ==
  LET sid == T.statmap[fd] IN
  [status |-> RemoveAt(T.status, sid + 1),
   statmap |-> [f \in DOMAIN T.statmap |->
     IF f # TMPLOC /\ T.statmap[f] > sid THEN T.statmap[f] - 1 ELSE T.statmap[f]]]

FixTmp(T, fd) ==
  LET e == T.statmap[TMPLOC] IN
  [status |-> [T.status EXCEPT ![e + 1].fd = fd],
   statmap |-> [T.statmap EXCEPT ![fd] = e, ![TMPLOC] = -1]]

UseTable(T) == status' = T.status /\ statmap' = T.statmap

-----------------------------------------------------------------------------

GoTo(phase, i) == at' = [phase |-> phase, i |-> i]

(* poll() reports what was asked for, and a hang-up of any connection. *)
Poll ==
  /\ at.phase = "poll" /\ ~died
  /\ \E rev \in [DOMAIN status -> SUBSET {"IN", "OUT", "HUP"}] :
       /\ \A i \in DOMAIN status : /\ rev[i] \ {"HUP"} \subseteq status[i].events
                                   /\ status[i].fd = ss => rev[i] \subseteq {"IN"}
       /\ status' = [i \in DOMAIN status |-> [status[i] EXCEPT !.revents = rev[i]]]
  /\ GoTo("execute", 0)
  /\ UNCHANGED <<statmap, sockpeer, xset, fds, died>>

(* Mutant: the socket stays among those to execute. *)
ClientErrorKeepsX(T, cs, x) ==
  /\ UseTable(DelStatus(T, cs))
  /\ sockpeer' = [sockpeer EXCEPT ![cs] = "none"]
  /\ fds' = fds \ {cs} /\ xset' = x

(* client_error, with client_finit and peer_shutdown. *)
ClientError(T, cs, x) ==
  /\ UseTable(IF T.statmap[cs] # -1 THEN DelStatus(T, cs) ELSE T)
  /\ sockpeer' = [sockpeer EXCEPT ![cs] = "none"]
  /\ fds' = fds \ {cs} /\ xset' = x \ {cs}

(* The sockets with work to do, in order: an error ends the connection, and *)
(* one with nothing more to do waits for its events again.                  *)
Execute ==
  LET todo == {cs \in xset : cs >= at.i} IN
  /\ at.phase = "execute"
  /\ IF todo = {} THEN GoTo("events", 0) /\ UNCHANGED <<status, statmap, sockpeer, xset, fds, died>>
     ELSE LET cs == Min(todo) IN
          /\ GoTo("execute", cs + 1) /\ UNCHANGED died
          /\ \E queued, more, err \in BOOLEAN :
               /\ sockpeer[cs] = "error" => err
               /\ LET T == IF queued THEN SetEvents(Table, cs, {"OUT"}) ELSE Table IN
                  IF err THEN ClientError(T, cs, xset)
                  ELSE /\ UseTable(T) /\ xset' = (IF more THEN xset ELSE xset \ {cs})
                       /\ UNCHANGED <<sockpeer, fds>>

FreeFds == Sockets \ fds

(* accept() and client_init(): over the limit the caller is dropped. *)
Accept ==
  \/ UNCHANGED <<status, statmap, sockpeer, xset, fds>>
  \/ /\ FreeFds # {} /\ Len(status) < MAXCONN
     /\ LET cs == Min(FreeFds) IN
        /\ UseTable(SetEvents(AddStatus(Table, cs), cs, {"IN"}))
        /\ sockpeer' = [sockpeer EXCEPT ![cs] = "live"] /\ fds' = fds \cup {cs}
     /\ UNCHANGED xset

(* One entry of a connection: it is read, then written, then looked at for  *)
(* errors; a connection just made sends and is read from then on.           *)
ClientEvents(cs, rev) ==
  \E queued, drained, readerr, writeerr \in BOOLEAN :
    LET in == "IN" \in rev
        out == "OUT" \in rev
        T1 == IF in /\ queued THEN SetEvents(Table, cs, {"OUT"}) ELSE Table
        T2 == IF out /\ sockpeer[cs] = "init" THEN SetEvents(T1, cs, {"IN"}) ELSE T1
        T3 == IF out /\ drained THEN ClrEvents(T2, cs, {"OUT"}) ELSE T2
        x == IF out /\ drained THEN xset \cup {cs} ELSE xset
    IN /\ (queued => in) /\ (drained => out) /\ (readerr => in) /\ (writeerr => out /\ ~drained)
       /\ sockpeer[cs] = "error" /\ in => readerr
       /\ IF readerr \/ writeerr \/ "HUP" \in rev THEN ClientError(T3, cs, x)
          ELSE /\ UseTable(T3) /\ xset' = x /\ UNCHANGED fds
               /\ sockpeer' = [sockpeer EXCEPT ![cs] = IF out /\ @ = "init" THEN "live" ELSE @]

(* The entry after one that goes moves into its place and is passed over;   *)
(* poll() will report it again.                                             *)
Events ==
  /\ at.phase = "events"
  /\ IF at.i >= Len(status)
     THEN GoTo("after", 0) /\ UNCHANGED <<status, statmap, sockpeer, xset, fds, died>>
     ELSE LET e == status[at.i + 1] IN
          /\ GoTo("events", at.i + 1)
          /\ died' = (statmap[e.fd] # at.i \/ ("IN" \in e.revents /\ "IN" \notin e.events))
          /\ IF died' THEN UNCHANGED <<status, statmap, sockpeer, xset, fds>>
             ELSE IF e.fd # ss THEN ClientEvents(e.fd, e.revents)
             ELSE IF "IN" \in e.revents THEN Accept
             ELSE UNCHANGED <<status, statmap, sockpeer, xset, fds>>

(* Another peer's message has failed this one (send_have, send_cancel). *)
Fail(fd) ==
  /\ at.phase = "events" /\ sockpeer[fd] = "live" /\ ~died
  /\ sockpeer' = [sockpeer EXCEPT ![fd] = "error"]
  /\ UNCHANGED <<status, statmap, xset, fds, at, died>>

(* The tracker names a peer (ctx_reregister, btresponse, peer_add): it has  *)
(* an entry under TMPLOC until it has a socket.                             *)
PeerAdd(how) ==
  LET T == AddStatus(Table, TMPLOC)
      s == Min(FreeFds)
  IN
  /\ at.phase = "after" /\ ~died /\ Len(status) < MAXCONN /\ FreeFds # {}
  /\ UNCHANGED <<xset, at>>
  /\ CASE how = "fails" -> /\ died' = TRUE  \* ctx_delstatus(TMPLOC): DIE_UNLESS(fd<SOCKID_MAX)
                           /\ UseTable(T) /\ UNCHANGED <<sockpeer, fds>>
       [] how = "later" -> /\ UseTable(SetEvents(FixTmp(T, s), s, {"OUT"}))
                           /\ sockpeer' = [sockpeer EXCEPT ![s] = "init"]
                           /\ fds' = fds \cup {s} /\ UNCHANGED died
       [] OTHER -> /\ UseTable(SetEvents(FixTmp(T, s), s, {"IN"}))
                   /\ sockpeer' = [sockpeer EXCEPT ![s] = "live"]
                   /\ fds' = fds \cup {s} /\ UNCHANGED died

Again == at.phase = "after" /\ ~died /\ GoTo("poll", 0) /\ UNCHANGED <<status, statmap, sockpeer, xset, fds, died>>

Next ==
  \/ Poll \/ Execute \/ (~died /\ Events) \/ Again
  \/ \E how \in {"later", "now"} \cup (IF Refused THEN {"fails"} ELSE {}) : PeerAdd(how)
  \/ \E fd \in Sockets : Fail(fd)

Spec == Init /\ [][Next]_vars

-----------------------------------------------------------------------------

(* The variables keep their types. *)
TypeOK ==
  /\ status \in Seq([fd : Sockets \cup {TMPLOC}, events : SUBSET {"IN", "OUT"},
                     revents : SUBSET {"IN", "OUT", "HUP"}])
  /\ Len(status) <= MAXCONN /\ xset \subseteq Sockets /\ fds \subseteq Sockets

(* The map leads from every entry's socket back to the entry: what btget's  *)
(* loop asserts on every event, with entries added and removed under it.    *)
MapSync == ~died => \A i \in DOMAIN status : statmap[status[i].fd] = i - 1

(* Every connection is polled, once, and nothing else but the server is;    *)
(* only connections are executed.                                           *)
PolledOnce ==
  ~died =>
  /\ \A i, j \in DOMAIN status : status[i].fd = status[j].fd => i = j
  /\ {status[i].fd : i \in DOMAIN status} = {ss} \cup {fd \in Sockets : sockpeer[fd] # "none"}
  /\ fds = {ss} \cup {fd \in Sockets : sockpeer[fd] # "none"}
  /\ xset \subseteq {fd \in Sockets : sockpeer[fd] # "none"}

(* A connection is always waiting for something: for the end of its connect *)
(* or for what its peer sends.                                              *)
Listens ==
  ~died => \A i \in DOMAIN status :
    LET e == status[i] IN
    IF e.fd # ss /\ sockpeer[e.fd] = "init" THEN e.events = {"OUT"} ELSE "IN" \in e.events
=============================================================================
