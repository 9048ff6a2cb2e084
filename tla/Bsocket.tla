------------------------------- MODULE Bsocket -------------------------------
(***************************************************************************)
(* The sockets of the node (bsocket.cc) under the two threads that wait    *)
(* on them: serviced (btdht/services.cc), which accepts one client at a    *)
(* time, and bdhtnet on the UDP socket.  A waiting socket has its          *)
(* descriptor in the set the next select() is given, and stands in the     *)
(* queue that the pass after select() goes through.                        *)
(* bconnect() has no caller in the node and is left out, and with it       *)
(* BSF_CONN; no two threads share a socket.                                *)
(***************************************************************************)
EXTENDS Integers, FiniteSets, Sequences

CONSTANTS
  MaxFd,    \* bound on descriptors
  MaxConns, \* bound on clients
  Slow,     \* the client's buffer may be full: send() fails with EAGAIN
  Gone      \* the client may have left: send() fails for good

BsocketAssumption ==
  MaxFd \in Nat /\ MaxFd >= 4 /\ MaxConns \in Nat /\ Slow \in BOOLEAN /\ Gone \in BOOLEAN

Socks == {"listener", "client", "udp"}
Threads == {"serviced", "bdhtnet"}

VARIABLES
  sock,    \* b_fd, b_flag, b_jrd and b_jwr of each
  bqueue,
  readfds, writefds, \* b_nextfds
  thread,  \* "running", "ready" or "asleep", and on what
  state,   \* b_state of serviced
  timer,   \* a deadline of serviced's lookup is pending
  open, backlog, data, packet, \* the kernel: open descriptors, clients waiting,
           \* what the client sent, and whether a datagram is there
  conns,   \* clients so far
  crashed  \* an assertion failed

net == <<bqueue, readfds, writefds>>
kernel == <<open, backlog, data, packet, conns>>
vars == <<sock, net, thread, state, timer, kernel, crashed>>

None == "none"
Fresh(fd) == [fd |-> fd, flag |-> {}, jrd |-> None, jwr |-> None]

Init ==
  /\ sock = [s \in Socks |-> Fresh(CASE s = "listener" -> 1 [] s = "udp" -> 2 [] OTHER -> -1)]
  /\ bqueue = <<>> /\ readfds = {} /\ writefds = {}
  /\ thread = [t \in Threads |-> [run |-> "ready", on |-> <<None, None>>]]
  /\ state = 0 /\ timer = FALSE
  /\ open = {1, 2} /\ backlog = 0 /\ data = None /\ packet = FALSE /\ conns = 0
  /\ crashed = FALSE

Running(t) == ~crashed /\ thread[t].run = "running"
Quiet == ~crashed /\ \A t \in Threads : thread[t].run # "running"

-----------------------------------------------------------------------------
(* The runtime, sockets and sets as one record st. *)
Now == [sock |-> sock, bqueue |-> bqueue, readfds |-> readfds, writefds |-> writefds,
        thread |-> thread]

Become(st) ==
  /\ sock' = st.sock /\ bqueue' = st.bqueue /\ readfds' = st.readfds
  /\ writefds' = st.writefds /\ thread' = st.thread

Tsleep(th, t, on) ==
  IF th[t].run = "asleep" THEN th ELSE [th EXCEPT ![t] = [run |-> "asleep", on |-> on]]

Bwakeup(th, t, on) ==
  IF th[t] = [run |-> "asleep", on |-> on] THEN [th EXCEPT ![t].run = "ready"] ELSE th

(* q_read() and enqueue() *)
QRead(st, s, t) ==
  LET waits == [st EXCEPT !.thread = Tsleep(@, t, <<s, "read">>), !.sock[s].jrd = t]
  IN  IF "read" \in st.sock[s].flag THEN waits
      ELSE [waits EXCEPT !.readfds = @ \cup {st.sock[s].fd},
                         !.sock[s].flag = @ \cup {"read", "queue"},
                         !.bqueue = IF "queue" \in st.sock[s].flag THEN @ ELSE Append(@, s)]

QWrite(st, s, t) ==
  LET waits == [st EXCEPT !.thread = Tsleep(@, t, <<s, "write">>), !.sock[s].jwr = t]
  IN  IF "write" \in st.sock[s].flag THEN waits
      ELSE [waits EXCEPT !.writefds = @ \cup {st.sock[s].fd},
                         !.sock[s].flag = @ \cup {"write", "queue"},
                         !.bqueue = IF "queue" \in st.sock[s].flag THEN @ ELSE Append(@, s)]

(* Mutant: what is ready is not counted down. *)
ReadyUncounted(st, s) == st.count > 1

Ready(st, s) == st.count > 0

(* bpoll() of one socket in the pass: st has the count of ready descriptors *)
(* that are still to be found and the sets select() returned.               *)
PollRead(st, s, flag) ==
  IF "read" \notin flag THEN st
  ELSE LET t == st.sock[s].jrd IN
       IF Ready(st, s) /\ st.sock[s].fd \in st.canRead
       THEN [st EXCEPT !.thread = Bwakeup(@, t, <<s, "read">>), !.sock[s].jrd = None,
                       !.count = @ - 1]
       ELSE QRead(st, s, t)

PollWrite(st, s, flag) ==
  IF "write" \notin flag THEN st
  ELSE LET t == st.sock[s].jwr IN
       IF Ready(st, s) /\ st.sock[s].fd \in st.canWrite
       THEN [st EXCEPT !.thread = Bwakeup(@, t, <<s, "write">>), !.sock[s].jwr = None,
                       !.count = @ - 1]
       ELSE QWrite(st, s, t)

Poll(st, s) ==
  LET flag == st.sock[s].flag IN
  IF st.sock[s].fd = -1 THEN [st EXCEPT !.count = -1]
  ELSE PollWrite(PollRead([st EXCEPT !.sock[s].flag = {}], s, flag), s, flag)

(* The pass over the queue. *)
Pass(st) ==
  LET after[i \in 0..Len(bqueue)] == IF i = 0 THEN st ELSE Poll(after[i - 1], bqueue[i])
  IN  after[Len(bqueue)]

Readable(s) ==
  CASE s = "listener" -> backlog > 0 [] s = "udp" -> packet [] OTHER -> data # None

SetsOpen == readfds \cup writefds \subseteq open

(* bselect(): a closed descriptor in a set fails "assert(count != -1)".     *)
Select ==
  /\ Quiet /\ bqueue # <<>>
  /\ crashed' = ~SetsOpen
  /\ IF ~SetsOpen THEN UNCHANGED <<sock, net, thread>>
     ELSE LET canRead == {sock[s].fd : s \in {s \in Socks : Readable(s)}} \cap readfds IN
          \E canWrite \in {{}, writefds} :
            Become(Pass([sock |-> sock, bqueue |-> <<>>, readfds |-> {}, writefds |-> {},
                         thread |-> thread, canRead |-> canRead, canWrite |-> canWrite,
                         count |-> Cardinality(canRead) + Cardinality(canWrite)]))
  /\ UNCHANGED <<state, timer, kernel>>

-----------------------------------------------------------------------------
Run(t) ==
  /\ Quiet /\ thread[t].run = "ready"
  /\ thread' = [thread EXCEPT ![t].run = "running"]
  /\ UNCHANGED <<sock, net, state, timer, kernel, crashed>>

(* bdhtnet::bdocall(): datagrams until there are none. *)
NetReceive ==
  /\ Running("bdhtnet")
  /\ packet' = FALSE
  /\ Become(QRead(Now, "udp", "bdhtnet"))
  /\ UNCHANGED <<state, timer, open, backlog, data, conns, crashed>>

(* baccept() closes the last connection even if there is no new one.        *)
Accept ==
  /\ Running("serviced") /\ state = 0 /\ backlog > 0
  /\ LET fd == CHOOSE f \in 1 .. MaxFd \ open : \A g \in 1 .. MaxFd \ open : f <= g IN
     /\ open' = (open \cup {fd}) \ {sock["client"].fd}
     /\ sock' = [sock EXCEPT !["client"].fd = fd]
  /\ backlog' = backlog - 1 /\ data' = None /\ state' = 1
  /\ UNCHANGED <<net, thread, timer, packet, conns, crashed>>

AcceptNone ==
  /\ Running("serviced") /\ state = 0 /\ backlog = 0
  /\ open' = open \ {sock["client"].fd}
  /\ data' = None
  /\ Become(QRead([Now EXCEPT !.sock["client"].fd = -1], "listener", "serviced"))
  /\ UNCHANGED <<state, timer, backlog, packet, conns, crashed>>

(* States 1 to 4: fewer than 20 bytes, or a table without nodes, and the    *)
(* client is given up; otherwise a lookup starts.                           *)
Receive ==
  /\ Running("serviced") /\ state = 1 /\ data # None
  /\ state' \in (IF data = "id" THEN {0, 5} ELSE {0})
  /\ data' = (IF data = "closed" THEN data ELSE None)
  /\ UNCHANGED <<sock, net, thread, timer, open, backlog, packet, conns, crashed>>

ReceiveNone ==
  /\ Running("serviced") /\ state = 1 /\ data = None
  /\ Become(QRead(Now, "client", "serviced"))
  /\ UNCHANGED <<state, timer, kernel, crashed>>

(* State 7 *)
Done == 0

(* State 5: vcall() is done or sleeps on its timer; what it found is sent.  *)
Lookup ==
  /\ Running("serviced") /\ state = 5
  /\ \E asleep \in BOOLEAN :
       LET called == IF asleep THEN [Now EXCEPT !.thread = Tsleep(@, "serviced", <<"lookup", None>>)]
                     ELSE Now
           rearmed(st) == [st EXCEPT !.thread["serviced"].run = "running"]
       IN
       /\ timer' = (timer \/ asleep)
       /\ \/ Become(called) /\ state' = (IF asleep THEN 5 ELSE Done)
          \/ Gone /\ Become(rearmed(called)) /\ state' = 0
          \/ Slow /\ Become(rearmed(QWrite(called, "client", "serviced"))) /\ state' = 0
  /\ UNCHANGED <<kernel, crashed>>

(* The timer wakes serviced on whatever it sleeps on. *)
Expire ==
  /\ Quiet /\ timer /\ timer' = FALSE
  /\ thread' = Bwakeup(thread, "serviced", thread["serviced"].on)
  /\ UNCHANGED <<sock, net, state, kernel, crashed>>

-----------------------------------------------------------------------------
Connect ==
  /\ Quiet /\ conns < MaxConns /\ conns' = conns + 1 /\ backlog' = backlog + 1
  /\ UNCHANGED <<sock, net, thread, state, timer, open, data, packet, crashed>>

ClientSends ==
  /\ Quiet /\ data = None /\ sock["client"].fd # -1
  /\ data' \in {"short", "id", "closed"}
  /\ UNCHANGED <<sock, net, thread, state, timer, open, backlog, packet, conns, crashed>>

Datagram ==
  /\ Quiet /\ packet' = TRUE
  /\ UNCHANGED <<sock, net, thread, state, timer, open, backlog, data, conns, crashed>>

Serve == NetReceive \/ Accept \/ AcceptNone \/ Receive \/ ReceiveNone \/ Lookup

Next == Select \/ (\E t \in Threads : Run(t)) \/ Serve \/ Expire \/ Connect \/ ClientSends \/ Datagram

Spec == Init /\ [][Next]_vars

(* The main loop gives the threads and the i/o daemon their turns (RunnableRuns
   of Bthread), whatever the others do in between; timers fire. *)
FairSpec == Spec /\ SF_vars(Select) /\ WF_vars(Serve) /\ WF_vars(Expire)
                 /\ \A t \in Threads : SF_vars(Run(t))

-----------------------------------------------------------------------------
TypeOK ==
  /\ sock \in [Socks -> [fd : -1 .. MaxFd, flag : SUBSET {"read", "write", "queue"},
                         jrd : Threads \cup {None}, jwr : Threads \cup {None}]]
  /\ readfds \cup writefds \subseteq 1 .. MaxFd
  /\ state \in {0, 1, 5}

(* BSF_QUEUE and the queue agree, and no socket stands in it twice.         *)
QueuedOnce ==
  \A s \in Socks :
    Cardinality({i \in DOMAIN bqueue : bqueue[i] = s}) = (IF "queue" \in sock[s].flag THEN 1 ELSE 0)

(* A thread asleep on a socket is found by the next pass: the socket knows  *)
(* it, stands in the queue, and its descriptor is in the set.               *)
WaiterWatched ==
  SetsOpen => \A t \in Threads, s \in Socks :
    thread[t] = [run |-> "asleep", on |-> <<s, "read">>] =>
      /\ sock[s].jrd = t /\ {"read", "queue"} \subseteq sock[s].flag
      /\ sock[s].fd \in readfds

(* The pass puts a waiter whose socket was not ready back to sleep, also   *)
(* when something else has woken it meanwhile: that never takes a lookup's  *)
(* wake-up away, and the reader of a socket that was ready does wake up,    *)
(* unless a wait for writing is left on the socket from a failed send.      *)
PassKeepsWakeups ==
  Quiet /\ bqueue # bqueue' =>
    /\ state = 5 /\ thread["serviced"].run = "ready" => thread'["serviced"].run = "ready"
    /\ \A t \in Threads, s \in Socks :
         /\ ~crashed' /\ sock[s].jwr = None /\ Readable(s)
         /\ thread[t] = [run |-> "asleep", on |-> <<s, "read">>]
         => thread'[t].run = "ready"

(* What a client sends is read. *)
ClientHeard == (state = 1 /\ data # None) ~> (state # 1 \/ data = None)
=============================================================================
