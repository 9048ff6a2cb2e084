------------------------------- MODULE Client -------------------------------
(***************************************************************************)
(* One connection of btget past its handshake: the buffered stream under   *)
(* it (stream.c, strbuf.c), the framing of messages, the turns btget's     *)
(* loop gives it and the upload queue.  Bytes come in units: a unit of     *)
(* input is the length of a message or its body, a unit of output a        *)
(* message, or half a block.                                               *)
(***************************************************************************)
EXTENDS Integers, SequencesExt

CONSTANTS
  Messages,   \* what the remote sends: KEEP, HAVE, REQ, BAD (unknown), BIG (longer than
              \* MAXMESSAGE), NEG (of a negative length), EOF (it closes)
  MaxAgain,   \* 10 in the code: empty reads in a row
  QUEUESIZE,  \* 30 in the code
  LOW,        \* 8096 bytes in the code: output that does not keep blocks back
  Others,     \* TRUE: other peers' turns write to this one
  MaxNet, MaxOut  \* bounds on what is in the socket and in the output buffer

ClientAssumption ==
  /\ Messages \subseteq {"KEEP", "HAVE", "REQ", "BAD", "BIG", "NEG", "EOF"} /\ Others \in BOOLEAN
  /\ MaxAgain \in Nat \ {0} /\ QUEUESIZE \in Nat \ {0} /\ LOW \in Nat /\ MaxNet \in Nat /\ MaxOut \in Nat

VARIABLES
  net,   \* [units, half, eof]: what recv() finds, the message half sent, the remote closed
  ios,   \* kStream: [ibuf, out, error, count]
  queue, \* requests queued for upload
  turn,  \* [cmd, at]: the turn of client_run() under way, or what btget died in
  x,     \* the socket is in x_set
  pollout, open,
  execs  \* history: EXECUTE turns since something was read, up to MaxAgain

vars == <<net, ios, queue, turn, x, pollout, open, execs>>

NoTurn == [cmd |-> "none", at |-> "none"]
Size(m) == IF m = "KEEP" THEN 1 ELSE 2

Init ==
  /\ net = [units |-> <<>>, half |-> "none", eof |-> FALSE]
  /\ ios = [ibuf |-> <<>>, out |-> 0, error |-> "none", count |-> 0]
  /\ queue = 0 /\ turn = NoTurn /\ x = FALSE /\ pollout = FALSE /\ open = TRUE
  /\ execs = 0

-----------------------------------------------------------------------------
(* The stream, on S = [units, ios, ok].                                     *)

(* kStream_read() with nothing to be had: the end of the stream is taken    *)
(* for no data, and eleven such reads in a row for an error.                *)
Again(i) ==
  [i EXCEPT !.count = @ + 1, !.error = IF i.count + 1 > MaxAgain THEN "NETWORK" ELSE "EAGAIN"]

(* kStream_fpeek: reads all there is until n units are buffered.            *)
Fpeek(u, i, n) ==
  IF Len(i.ibuf) >= n THEN [units |-> u, ios |-> i, ok |-> TRUE]
  ELSE LET got == [i EXCEPT !.ibuf = @ \o u, !.count = IF u = <<>> THEN @ ELSE 0] IN
       IF Len(got.ibuf) >= n THEN [units |-> <<>>, ios |-> got, ok |-> TRUE]
       ELSE [units |-> <<>>, ios |-> Again(got), ok |-> FALSE]

Fread(u, i, n) ==
  LET S == Fpeek(u, i, n) IN
  IF S.ok THEN [S EXCEPT !.ios.ibuf = SubSeq(@, n + 1, Len(@))] ELSE S

(* kStream_flush: k units go out, or the write fails. *)
Flush(i, k, gone) ==
  IF gone THEN [i EXCEPT !.error = "PIPE"]
  ELSE [i EXCEPT !.out = @ - k, !.error = IF k < i.out THEN "EAGAIN" ELSE @]

Fwrite(i, n, k, gone) == Flush([i EXCEPT !.out = @ + n], k, gone)
Taken(gone, n) == IF gone THEN {0} ELSE 0..n
Refused == IF net.eof THEN BOOLEAN ELSE {FALSE}  \* a remote that closed may not take more

-----------------------------------------------------------------------------
(* recv_peermsg.  It may write n units in answer.                           *)

Message == Head(ios.ibuf).m

Ends(u, i, q, r) ==
  /\ net' = [net EXCEPT !.units = u] /\ ios' = i /\ queue' = q
  /\ turn' = IF r = 1 THEN turn
             ELSE [turn EXCEPT !.at = IF r < 0 /\ i.error # "EAGAIN" THEN "fail" ELSE "queue"]

(* An assertion fails: abort(). *)
Dies(u, i) ==
  /\ net' = [net EXCEPT !.units = u] /\ ios' = i /\ queue' = queue
  /\ turn' = [turn EXCEPT !.at = "died"]

(* Is another message waiting?  Its length is taken with its own four bytes: *)
(* -4 to -1 pass for a message that is there.  (The four lengths up to       *)
(* MAXMESSAGE, which only pass for a first message, are left out.)           *)
NextWaits(u, i, q) ==
  LET S == Fpeek(u, i, 1)
      m == Head(S.ios.ibuf).m
  IN IF ~S.ok THEN Ends(S.units, S.ios, q, 0)
     ELSE \/ m \in {"BIG", "NEG"} /\ Ends(S.units, [S.ios EXCEPT !.error = "LARGE"], q, -1)
          \/ m = "NEG" /\ Ends(S.units, S.ios, q, 1)
          \/ /\ m \notin {"BIG", "NEG"}
             /\ Ends(S.units, S.ios, q, IF Len(S.ios.ibuf) >= Size(m) THEN 1 ELSE 0)

HasRoom == queue < QUEUESIZE - 1

Handle(m, u, i) ==
  CASE m = "BAD" -> Ends(u, i, queue, -2)
    [] m = "REQ" -> IF HasRoom THEN NextWaits(u, i, queue + 1)
                    ELSE Ends(u, [i EXCEPT !.error = "OVERFLOW"], queue, -2)
    [] OTHER -> \E n \in 0..1, gone \in Refused : \E k \in Taken(gone, i.out + n) :
                  /\ i.out + n - k <= MaxOut
                  /\ LET o == IF n = 0 THEN i ELSE Fwrite(i, n, k, gone) IN
                     \/ NextWaits(u, o, queue)  \* an interest is sent, requests if it succeeds
                     \/ n = 1 /\ gone /\ Ends(u, o, queue, -1)

RecvPeermsg ==
  /\ turn.at = "recv"
  /\ LET S == Fpeek(net.units, ios, 1)
         m == Head(S.ios.ibuf).m
         body == Fread(S.units, S.ios, Size(m))
     IN IF ~S.ok THEN Ends(S.units, S.ios, queue, -1)
        ELSE IF m = "BIG" THEN Ends(S.units, [S.ios EXCEPT !.error = "LARGE"], queue, -1)
        ELSE IF m = "NEG" THEN Dies(S.units, S.ios)
        ELSE IF m = "KEEP" THEN Ends(body.units, body.ios, queue, 0)
        ELSE IF ~body.ok THEN Ends(body.units, body.ios, queue, -1)
        ELSE Handle(m, body.units, body.ios)
  /\ execs' = (IF net'.units = net.units THEN execs ELSE 0)
  /\ UNCHANGED <<x, pollout, open>>

-----------------------------------------------------------------------------
(* client_run() from peer_process_queue() on, and what btget's loop does    *)
(* after it.                                                                *)

(* Mutant: output is left to the next message. *)
WatchNot(i) == pollout
Watch(i) == pollout \/ i.out > 0

(* Only a turn for x_set that found no more to do takes the socket out of    *)
(* it, and client_error().                                                   *)
KeepsX(r) == r > 0 \/ (turn.cmd = "READABLE" /\ r = 0)

Return(i, r) ==
  /\ ios' = i /\ turn' = NoTurn /\ pollout' = Watch(i)
  /\ open' = (r >= 0)
  /\ x' = (x /\ KeepsX(r))
  /\ UNCHANGED execs

ProcessQueue ==
  /\ turn.at = "queue"
  /\ UNCHANGED net
  /\ IF ios.out > LOW \/ queue = 0 THEN Return(ios, 0) /\ UNCHANGED queue
     ELSE /\ queue' = queue - 1
          /\ \E gone \in Refused : \E k \in Taken(gone, ios.out + 2) :
               /\ ios.out + 2 - k <= MaxOut
               /\ Return(Fwrite(ios, 2, k, gone),
                         IF gone THEN -1 ELSE IF turn.cmd = "EXECUTE" THEN 1 ELSE 0)

FailTurn == turn.at = "fail" /\ Return(ios, -1) /\ UNCHANGED <<net, queue>>

Idle == open /\ turn = NoTurn
Begin(cmd) == turn' = [cmd |-> cmd, at |-> "recv"] /\ UNCHANGED <<net, ios, queue, x, pollout, open>>

Readable == Idle /\ (net.units # <<>> \/ net.eof) /\ Begin("READABLE") /\ UNCHANGED execs
Execute == Idle /\ x /\ Begin("EXECUTE") /\ execs' = execs + (IF execs < MaxAgain THEN 1 ELSE 0)

(* client_write: poll() says that some of it can be written. *)
Writable ==
  /\ Idle /\ pollout
  /\ \E k \in 0..ios.out, gone \in Refused :
       /\ k > 0 \/ ios.out = 0
       /\ LET i == Flush(ios, k, gone)
              fails == (gone \/ k = 0) /\ i.error # "EAGAIN"
          IN /\ ios' = i /\ open' = ~fails
             /\ pollout' = (i.out > 0) /\ x' = (x \/ i.out = 0)
  /\ UNCHANGED <<net, queue, turn, execs>>

(* A have or a cancel out of another peer's turn. *)
OthersTurn ==
  /\ Idle /\ Others /\ ios.out < MaxOut
  /\ \E k \in 0..ios.out + 1 : ios' = Fwrite(ios, 1, k, FALSE)
  /\ UNCHANGED <<net, queue, turn, x, pollout, open, execs>>

-----------------------------------------------------------------------------
(* The remote: its messages arrive unit by unit, whatever we are at.        *)

Put(m, i, half) == net' = [net EXCEPT !.units = Append(@, [m |-> m, i |-> i]), !.half = half]

Alive == open /\ turn.at # "died"

Arrive ==
  /\ Alive /\ ~net.eof /\ Len(net.units) < MaxNet
  /\ IF net.half # "none" THEN Put(net.half, 2, "none")
     ELSE \E m \in Messages \ {"EOF"} : Put(m, 1, IF m = "KEEP" THEN "none" ELSE m)
  /\ UNCHANGED <<ios, queue, turn, x, pollout, open, execs>>

Close ==
  /\ Alive /\ ~net.eof /\ "EOF" \in Messages /\ net' = [net EXCEPT !.eof = TRUE]
  /\ UNCHANGED <<ios, queue, turn, x, pollout, open, execs>>

Next ==
  \/ Readable \/ Execute \/ Writable \/ RecvPeermsg \/ ProcessQueue \/ FailTurn
  \/ OthersTurn \/ Arrive \/ Close

Spec == Init /\ [][Next]_vars

(* The loop goes on and poll() reports what it is asked for; the remote     *)
(* takes what we write and goes on sending, but not so fast for ever that a *)
(* turn never ends: client_run() reads as long as there is a message.       *)
Fairness ==
  /\ WF_vars(RecvPeermsg) /\ WF_vars(ProcessQueue) /\ WF_vars(FailTurn)
  /\ WF_vars(Readable) /\ SF_vars(Execute) /\ SF_vars(Writable) /\ SF_vars(Arrive)
LiveSpec == Spec /\ Fairness /\ []<>(turn.at # "recv")

-----------------------------------------------------------------------------

Unit == [m : {"KEEP", "HAVE", "REQ", "BAD", "BIG", "NEG"}, i : 1..2]

(* The variables keep their types. *)
TypeOK ==
  /\ net.units \in Seq(Unit) /\ ios.ibuf \in Seq(Unit) /\ ios.out \in 0..MaxOut
  /\ ios.error \in {"none", "EAGAIN", "NETWORK", "LARGE", "OVERFLOW", "PIPE"}
  /\ queue \in 0..QUEUESIZE-1 /\ turn.at \in {"none", "recv", "queue", "fail", "died"}

(* The reader is always at the start of a message, however its bytes came   *)
(* in, and what is buffered and what is in the socket follow each other.    *)
Framed ==
  open => LET s == ios.ibuf \o net.units IN
          /\ s # <<>> => s[1].i = 1
          /\ \A j \in 1..Len(s)-1 : s[j+1].i = 1 <=> (s[j].i = Size(s[j].m))

(* A message that is complete in the buffer does not wait for the next one  *)
(* to arrive: poll() does not tell of it.  Not so behind a keep-alive, nor  *)
(* behind an unknown message that did not end the connection.               *)
NothingLeftBehind ==
  Idle /\ ios.ibuf # <<>> => Len(ios.ibuf) < Size(Message)

(* Output is left only on a socket that is watched for room.  *)
OutputWatched == Idle /\ ios.out > 0 => pollout

(* client_write() on a buffer that was emptied meanwhile writes nothing: it *)
(* must find EAGAIN from before, or takes the 0 for an error.               *)
EmptyFlushSafe == open /\ turn.at = "none" /\ pollout => ios.error # "none"

(* A connection ends only when the remote has closed it or sent what it must*)
(* not, or after MaxAgain turns out of x_set in a row, for our output, with *)
(* nothing to read: each counts an empty read.  One that only receives is   *)
(* not given up for its empty reads.                                        *)
KeptWhileSound ==
  ~open => \/ net.eof \/ ios.error \in {"LARGE", "OVERFLOW"} \/ "BAD" \in Messages
           \/ ios.error = "NETWORK" /\ execs = MaxAgain

(* Queued blocks are sent in the end while the remote goes on sending.      *)
Uploads == []<>(queue = 0 \/ ~Alive \/ (turn.at = "queue" /\ ios.out <= LOW))
=============================================================================
