---------------------------- MODULE BthreadProofs ----------------------------
(***************************************************************************)
(* Proofs about Bthread, for any set of jobs, any wake-ups between them    *)
(* and any bound on the clock.                                             *)
(***************************************************************************)
EXTENDS Bthread, TLAPS

USE BthreadAssumption

(* Where the entries of a run queue are after a push and after a pop. *)
LEMMA AppendProperties ==
  ASSUME NEW S, NEW s \in Seq(S), NEW x \in S
  PROVE  /\ Append(s, x) \in Seq(S)
         /\ Len(Append(s, x)) = Len(s) + 1
         /\ DOMAIN s = 1 .. Len(s)
         /\ DOMAIN Append(s, x) = 1 .. Len(s) + 1
         /\ \A i \in 1 .. Len(s) : Append(s, x)[i] = s[i]
         /\ Append(s, x)[Len(s) + 1] = x
  OBVIOUS

LEMMA PopProperties ==
  ASSUME NEW S, NEW s \in Seq(S), s # <<>>
  PROVE  /\ Head(s) \in S
         /\ Head(s) = s[1]
         /\ Tail(s) \in Seq(S)
         /\ Len(Tail(s)) = Len(s) - 1
         /\ Len(s) \in Nat \ {0}
         /\ DOMAIN s = 1 .. Len(s)
         /\ DOMAIN Tail(s) = 1 .. Len(s) - 1
         /\ \A i \in 1 .. Len(s) - 1 : Tail(s)[i] = s[i + 1]
  OBVIOUS

-----------------------------------------------------------------------------
(* The steps that do not touch the run queue, b_runable and b_swaitident. *)

(* Every variable stays in its type: each action assigns from the types of *)
(* what it reads.                                                          *)
LEMMA TypeStep == TypeOK /\ [Next]_vars => TypeOK'
<1> SUFFICES ASSUME TypeOK, [Next]_vars PROVE TypeOK'
  OBVIOUS
<1>1. CASE PollDrop
  <2>1. Tail(runq) \in Seq(Threads)
    BY <1>1, PopProperties DEF PollDrop, TypeOK
  <2> QED BY <1>1, <2>1 DEF PollDrop, TypeOK, time
<1>2. CASE PollRun
  <2>1. Head(runq) \in Threads /\ Tail(runq) \in Seq(Threads)
    BY <1>2, PopProperties DEF PollRun, TypeOK
  <2>2. Append(Tail(runq), Head(runq)) \in Seq(Threads)
    BY <2>1, AppendProperties
  <2> QED BY <1>2, <2>1, <2>2 DEF PollRun, Rotated, TypeOK, time
<1>w. ASSUME NEW t \in Threads, NEW id, Bwakeup(t, id)
      PROVE  /\ runq' \in Seq(Threads)
             /\ runable' \in [Threads -> BOOLEAN]
             /\ ident' \in [Threads -> Ident]
             /\ bcount' \in BOOLEAN
  <2>1. Append(runq, t) \in Seq(Threads)
    BY AppendProperties DEF TypeOK
  <2> QED BY <1>w, <2>1 DEF Bwakeup, TypeOK, Ident
<1>s. ASSUME NEW t \in Threads, NEW id \in Ident, Tsleep(t, id)
      PROVE  /\ runq' \in Seq(Threads)
             /\ runable' \in [Threads -> BOOLEAN]
             /\ ident' \in [Threads -> Ident]
             /\ bcount' \in BOOLEAN
  BY <1>s DEF Tsleep, TypeOK
<1>3. CASE TimerStart
  BY <1>3 DEF TimerStart, TypeOK, sched
<1>4. ASSUME NEW e \in timers, TimerFire(e) PROVE TypeOK'
  <2>1. e.thread \in Threads
    BY DEF TypeOK, Threads
  <2>2. CASE Bwakeup(e.thread, ident[e.thread])
    BY SMTT(30), <1>4, <1>w, <2>1, <2>2 DEF TimerFire, TypeOK
  <2>3. CASE UNCHANGED sched
    BY <1>4, <2>3 DEF TimerFire, TypeOK, sched
  <2> QED BY <1>4, <2>2, <2>3 DEF TimerFire
<1>5. ASSUME NEW e \in timers, TimerStale(e) PROVE TypeOK'
  BY <1>5 DEF TimerStale, TypeOK, sched
<1>6. CASE TimerDone
  BY <1>6 DEF TimerDone, Return, TypeOK, sched, time
<1>7. CASE IoStart \/ IdleStart
  BY <1>7 DEF IoStart, IdleStart, TypeOK, sched, time
<1>8. CASE IdleSkip
  BY <1>8 DEF IdleSkip, Return, TypeOK, time
<1>9. ASSUME NEW j \in SockJobs, SelectReady(j) PROVE TypeOK'
  <2>1. j \in Threads
    BY DEF SockJobs, Threads
  <2> QED BY <1>9, <1>w, <2>1 DEF SelectReady, TypeOK, time
<1>10. ASSUME NEW j \in SockJobs, SelectRequeue(j) PROVE TypeOK'
  <2>1. j \in Threads /\ "sock" \in Ident
    BY DEF SockJobs, Threads, Ident
  <2> QED BY <1>10, <1>s, <2>1 DEF SelectRequeue, TypeOK, time
<1>11. CASE SelectDone
  BY <1>11 DEF SelectDone, Return, TypeOK, sched, time
<1>12. ASSUME NEW j \in Jobs, JobStep(j) PROVE TypeOK'
  <2> j \in Threads
    BY DEF Threads
  <2>1. ASSUME NEW t \in Jobs, NEW id \in Ident, JobWake(j, t, id) PROVE TypeOK'
    BY <2>1, <1>w DEF JobWake, TypeOK, time, Threads
  <2>2. CASE JobSend(j)
    BY <2>2 DEF JobSend, TypeOK, sched
  <2>3. ASSUME NEW id \in Ident, JobSelecting(j, id) PROVE TypeOK'
    <3>1. stamp[j] + Delay[j] \in Nat
      BY DEF TypeOK
    <3> QED BY <2>3, <1>s, <3>1 DEF JobSelecting, Enqueue, TypeOK
  <2>4. ASSUME NEW t \in tnow + 1 .. MaxClock, JobTimeWait(j, t) PROVE TypeOK'
    <3>1. t \in Nat /\ "twait" \in Ident
      BY DEF TypeOK, Ident
    <3> QED BY <2>4, <1>s, <3>1 DEF JobTimeWait, Enqueue, TypeOK
  <2>5. ASSUME NEW id \in Ident, JobSleep(j, id) PROVE TypeOK'
    BY <2>5, <1>s DEF JobSleep, TypeOK, time
  <2>6. CASE JobRearm(j)
    BY <2>6 DEF JobRearm, TypeOK, time
  <2>7. CASE JobReturn(j) \/ JobHardError(j)
    BY <2>7 DEF JobReturn, JobHardError, Return, TypeOK, sched, time
  <2> QED BY <1>12, <2>1, <2>2, <2>3, <2>4, <2>5, <2>6, <2>7 DEF JobStep
<1>13. CASE Tick \/ SetBack
  BY <1>13 DEF Tick, SetBack, TypeOK, sched
<1>14. CASE UNCHANGED vars
  BY <1>14 DEF vars, TypeOK
<1> QED
  BY <1>1, <1>2, <1>3, <1>4, <1>5, <1>6, <1>7, <1>8, <1>9, <1>10, <1>11, <1>12, <1>13, <1>14
  DEF Next, TimerStep, SelectStep

LEMMA TypeInit == Init => TypeOK
  BY DEF Init, TypeOK, Ident, Threads

(* Type correctness, for any set of jobs: every variable of the runtime     *)
(* keeps its type, b_swaitident its range, and only jobs have timers.       *)
THEOREM TypeCorrect == Spec => []TypeOK
<1>1. Init => TypeOK
  BY TypeInit
<1>2. TypeOK /\ [Next]_vars => TypeOK'
  BY TypeStep
<1> QED BY <1>1, <1>2, PTL DEF Spec
-----------------------------------------------------------------------------
(* Scheduling.  QInv is inductive beside TypeOK: the daemons never sleep,   *)
(* and while nothing was woken since bidlethread's last turn, every         *)
(* runnable job that is not running has an entry ahead of bidlethread's.    *)
DaemonsRun == \A d \in Daemons : runable[d]

OneIdleEntry ==
  \A i, k \in DOMAIN runq : runq[i] = "bidlethread" /\ runq[k] = "bidlethread" => i = k

(* The thread that runs has been pushed back, bidlethread at the tail. *)
RunningQueued == phase = "call" => InQueue(jnow)

IdleLast ==
  phase = "call" /\ jnow = "bidlethread" => runq # <<>> /\ runq[Len(runq)] = "bidlethread"

Sleepy == Jobs \ HardError

Waiting(j) == j \in Sleepy /\ runable[j] /\ ~(phase = "call" /\ jnow = j)

AheadOfIdle ==
  ~bcount => \A j \in Jobs, k \in DOMAIN runq :
    Waiting(j) /\ runq[k] = "bidlethread" => \E i \in DOMAIN runq : i < k /\ runq[i] = j

IdleAsleep ==
  phase = "call" /\ jnow = "bidlethread" /\ ~bcount => \A j \in Sleepy : ~runable[j]

QInv ==
  /\ RunnableQueued /\ DaemonsRun /\ OneIdleEntry /\ RunningQueued /\ IdleLast
  /\ AheadOfIdle /\ IdleAsleep

(* A step that leaves the scheduling state alone. *)
LEMMA QInvKeep ==
  ASSUME TypeOK, QInv, UNCHANGED sched, jnow' = jnow,
         phase' = "call" => phase = "call",
         phase = "call" /\ phase' # "call" /\ jnow \in Sleepy => ~runable[jnow]
  PROVE  QInv'
<1>1. (RunnableQueued /\ DaemonsRun /\ OneIdleEntry)'
  BY DEF QInv, RunnableQueued, DaemonsRun, OneIdleEntry, InQueue, sched
<1>2. (RunningQueued /\ IdleLast /\ IdleAsleep)'
  BY DEF QInv, RunningQueued, IdleLast, IdleAsleep, InQueue, sched
<1>3. AheadOfIdle'
  <2>1. \A j \in Jobs : Waiting(j)' => Waiting(j)
    BY DEF Waiting, sched
  <2> QED BY <2>1 DEF QInv, AheadOfIdle, sched
<1> QED BY <1>1, <1>2, <1>3 DEF QInv

(* bwakeup() puts a new entry behind all others and sets _b_count. *)
LEMMA QInvWake ==
  ASSUME TypeOK, QInv, NEW t \in Jobs, NEW id, Bwakeup(t, id),
         jnow' = jnow, phase' = phase, phase = "call" => jnow # "bidlethread"
  PROVE  QInv'
<1>1. /\ DOMAIN runq = 1 .. Len(runq) /\ Len(runq) \in Nat
      /\ DOMAIN runq' = 1 .. Len(runq) + 1
      /\ \A i \in 1 .. Len(runq) : runq'[i] = runq[i]
      /\ runq'[Len(runq) + 1] = t
  BY AppendProperties DEF Bwakeup, TypeOK, Threads
<1>2. t # "bidlethread" /\ t \notin Daemons
  BY DEF Daemons
<1>3. \A u \in Threads : InQueue(u) => InQueue(u)'
  BY <1>1 DEF InQueue
<1>4. InQueue(t)'
  <2>1. Len(runq) + 1 \in DOMAIN runq'
    BY <1>1
  <2> QED BY <1>1, <2>1 DEF InQueue
<1>5. RunnableQueued'
  BY <1>3, <1>4 DEF QInv, RunnableQueued, Bwakeup, TypeOK
<1>6. DaemonsRun'
  BY <1>2 DEF QInv, DaemonsRun, Bwakeup, TypeOK, Threads
<1>7. OneIdleEntry'
  BY <1>1, <1>2 DEF QInv, OneIdleEntry
<1>8. (RunningQueued /\ IdleLast)'
  BY <1>1 DEF QInv, RunningQueued, IdleLast, InQueue
<1>9. (AheadOfIdle /\ IdleAsleep)'
  BY DEF AheadOfIdle, IdleAsleep, Bwakeup
<1> QED BY <1>5, <1>6, <1>7, <1>8, <1>9 DEF QInv

(* tsleep() leaves the entries where they are. *)
LEMMA QInvSleep ==
  ASSUME TypeOK, QInv, NEW t \in Jobs, NEW id, Tsleep(t, id),
         jnow' = jnow, phase' = phase
  PROVE  QInv'
<1>1. \A u \in Threads : runable'[u] => runable[u]
  BY DEF Tsleep, TypeOK
<1>2. (RunnableQueued /\ OneIdleEntry /\ RunningQueued /\ IdleLast)'
  BY <1>1 DEF QInv, RunnableQueued, OneIdleEntry, RunningQueued, IdleLast, InQueue, Tsleep
<1>3. DaemonsRun'
  BY DEF QInv, DaemonsRun, Tsleep, TypeOK, Threads, Daemons
<1>4. (AheadOfIdle /\ IdleAsleep)'
  BY <1>1 DEF QInv, AheadOfIdle, IdleAsleep, Waiting, Tsleep, Threads, Sleepy
<1> QED BY <1>2, <1>3, <1>4 DEF QInv

(* Dropping the entry of a sleeping thread moves the others up by one. *)
LEMMA QInvDrop == ASSUME TypeOK, QInv, PollDrop PROVE QInv'
<1>1. /\ DOMAIN runq = 1 .. Len(runq) /\ Len(runq) \in Nat \ {0}
      /\ DOMAIN runq' = 1 .. Len(runq) - 1
      /\ \A i \in 1 .. Len(runq) - 1 : runq'[i] = runq[i + 1]
      /\ ~runable[runq[1]]
  BY PopProperties DEF PollDrop, TypeOK
<1>2. \A i \in 2 .. Len(runq) : i - 1 \in DOMAIN runq' /\ runq'[i - 1] = runq[i]
  BY <1>1
<1>3. \A t \in Threads : runable[t] /\ InQueue(t) => InQueue(t)'
  <2> SUFFICES ASSUME NEW t \in Threads, runable[t], NEW i \in DOMAIN runq, runq[i] = t
               PROVE  InQueue(t)'
    BY DEF InQueue
  <2>1. i \in 2 .. Len(runq)
    BY <1>1
  <2> QED BY <1>2, <2>1 DEF InQueue
<1>4. RunnableQueued'
  BY <1>3 DEF QInv, RunnableQueued, PollDrop
<1>5. (DaemonsRun /\ RunningQueued /\ IdleLast /\ IdleAsleep)'
  BY DEF QInv, DaemonsRun, RunningQueued, IdleLast, IdleAsleep, PollDrop
<1>6. OneIdleEntry'
  <2> SUFFICES ASSUME NEW i \in DOMAIN runq', NEW k \in DOMAIN runq',
                      runq'[i] = "bidlethread", runq'[k] = "bidlethread"
               PROVE  i = k
    BY DEF OneIdleEntry
  <2>1. i + 1 \in DOMAIN runq /\ k + 1 \in DOMAIN runq
    BY <1>1
  <2>2. runq[i + 1] = "bidlethread" /\ runq[k + 1] = "bidlethread"
    BY <1>1
  <2>3. i + 1 = k + 1
    BY <2>1, <2>2 DEF QInv, OneIdleEntry
  <2> QED BY <1>1, <2>3
<1>7. AheadOfIdle'
  <2> SUFFICES ASSUME ~bcount, NEW j \in Jobs, NEW k \in DOMAIN runq',
                      Waiting(j), runq'[k] = "bidlethread"
               PROVE  \E i \in DOMAIN runq' : i < k /\ runq'[i] = j
    BY DEF AheadOfIdle, Waiting, PollDrop
  <2>1. k + 1 \in DOMAIN runq /\ runq[k + 1] = "bidlethread"
    BY <1>1
  <2>2. PICK i \in DOMAIN runq : i < k + 1 /\ runq[i] = j
    BY <2>1 DEF QInv, AheadOfIdle
  <2>3. i \in 2 .. Len(runq)
    BY <1>1, <2>2 DEF Waiting
  <2>4. i - 1 < k
    BY <1>1, <2>2, <2>3
  <2> QED BY <1>2, <2>2, <2>3, <2>4
<1> QED BY <1>4, <1>5, <1>6, <1>7 DEF QInv

(* The thread to run goes from the head to the tail.  When it is           *)
(* bidlethread, nothing was ahead of it, so no job waits.                  *)
LEMMA QInvRun == ASSUME TypeOK, QInv, PollRun PROVE QInv'
<1> DEFINE n == Len(runq)
<1>1. /\ DOMAIN runq = 1 .. n /\ n \in Nat \ {0}
      /\ DOMAIN runq' = 1 .. n
      /\ \A i \in 1 .. n - 1 : runq'[i] = runq[i + 1]
      /\ runq'[n] = runq[1]
      /\ jnow' = runq[1] /\ runable[runq[1]]
      /\ runq' # <<>> /\ Len(runq') = n
  <2>1. /\ Head(runq) \in Threads /\ Head(runq) = runq[1]
        /\ Tail(runq) \in Seq(Threads) /\ Len(Tail(runq)) = n - 1
        /\ n \in Nat \ {0} /\ DOMAIN runq = 1 .. n
        /\ \A i \in 1 .. n - 1 : Tail(runq)[i] = runq[i + 1]
    BY PopProperties DEF PollRun, TypeOK
  <2>2. /\ Len(runq') = n
        /\ DOMAIN runq' = 1 .. n
        /\ \A i \in 1 .. n - 1 : runq'[i] = Tail(runq)[i]
        /\ runq'[n] = Head(runq)
    <3> HIDE DEF n
    <3>1. runq' = Append(Tail(runq), Head(runq))
      BY DEF PollRun, Rotated
    <3>2. n - 1 + 1 = n
      BY <2>1
    <3> QED BY <2>1, <3>1, <3>2, AppendProperties
  <2> QED BY <2>1, <2>2 DEF PollRun
<1> HIDE DEF n
<1>2. \A i \in 2 .. n : i - 1 \in DOMAIN runq' /\ runq'[i - 1] = runq[i]
  BY <1>1
<1>3. \A t \in Threads : InQueue(t) => InQueue(t)'
  <2> SUFFICES ASSUME NEW t \in Threads, NEW i \in DOMAIN runq, runq[i] = t
               PROVE  InQueue(t)'
    BY DEF InQueue
  <2>1. i = 1 \/ i \in 2 .. n
    BY <1>1
  <2>2. n \in DOMAIN runq'
    BY <1>1
  <2> QED BY <1>1, <1>2, <2>1, <2>2 DEF InQueue
<1>4. (RunnableQueued /\ DaemonsRun)'
  BY <1>3 DEF QInv, RunnableQueued, DaemonsRun, PollRun
<1>5. (RunningQueued /\ IdleLast)'
  <2>1. n \in DOMAIN runq'
    BY <1>1
  <2> QED BY <1>1, <2>1 DEF RunningQueued, IdleLast, InQueue
<1>6. OneIdleEntry'
  <2> SUFFICES ASSUME NEW i \in DOMAIN runq', NEW k \in DOMAIN runq',
                      runq'[i] = "bidlethread", runq'[k] = "bidlethread"
               PROVE  i = k
    BY DEF OneIdleEntry
  <2> DEFINE from(x) == IF x = n THEN 1 ELSE x + 1
  <2>1. from(i) \in DOMAIN runq /\ from(k) \in DOMAIN runq
    BY <1>1
  <2>2. runq[from(i)] = "bidlethread" /\ runq[from(k)] = "bidlethread"
    BY <1>1
  <2>3. from(i) = from(k)
    <3> HIDE DEF from
    <3> QED BY <2>1, <2>2 DEF QInv, OneIdleEntry
  <2> QED BY <1>1, <2>3
<1>7. AheadOfIdle'
  <2> SUFFICES ASSUME ~bcount, NEW j \in Jobs, NEW k \in DOMAIN runq',
                      Waiting(j)', runq'[k] = "bidlethread"
               PROVE  \E i \in DOMAIN runq' : i < k /\ runq'[i] = j
    BY DEF AheadOfIdle, PollRun
  <2>1. j # runq[1] /\ runable[j] /\ Waiting(j)
    BY <1>1 DEF Waiting, PollRun
  <2>2. CASE k = n
    <3>1. 1 \in DOMAIN runq /\ runq[1] = "bidlethread"
      BY <1>1, <2>2
    <3>2. \E i \in DOMAIN runq : i < 1 /\ runq[i] = j
      BY <2>1, <3>1 DEF QInv, AheadOfIdle
    <3> QED BY <1>1, <3>2
  <2>3. CASE k # n
    <3>1. k + 1 \in DOMAIN runq /\ runq[k + 1] = "bidlethread" /\ k \in 1 .. n
      BY <1>1, <2>3
    <3>2. PICK i \in DOMAIN runq : i < k + 1 /\ runq[i] = j
      BY <2>1, <3>1 DEF QInv, AheadOfIdle
    <3>3. i \in 2 .. n
      BY <1>1, <2>1, <3>2
    <3>4. i - 1 < k
      BY <3>1, <3>2, <3>3
    <3> QED BY <1>2, <3>2, <3>3, <3>4
  <2> QED BY <2>2, <2>3
<1>8. IdleAsleep'
  <2> SUFFICES ASSUME ~bcount, runq[1] = "bidlethread", NEW j \in Sleepy, runable[j]
               PROVE  FALSE
    BY <1>1 DEF IdleAsleep, PollRun
  <2>1. j \in Jobs /\ Waiting(j) /\ 1 \in DOMAIN runq
    BY <1>1 DEF Waiting, Sleepy, PollRun
  <2>2. PICK i \in DOMAIN runq : i < 1
    BY <2>1 DEF QInv, AheadOfIdle
  <2> QED BY <1>1, <2>2
<1> QED BY <1>4, <1>5, <1>6, <1>7, <1>8 DEF QInv

(* bidlethread clears _b_count during its own turn, when it is last. *)
LEMMA QInvSkip == ASSUME TypeOK, QInv, IdleSkip PROVE QInv'
<1>1. DOMAIN runq = 1 .. Len(runq) /\ Len(runq) \in Nat \ {0}
  BY DEF QInv, IdleLast, IdleSkip, TypeOK
<1>2. (RunnableQueued /\ DaemonsRun /\ OneIdleEntry)'
  BY DEF QInv, RunnableQueued, DaemonsRun, OneIdleEntry, InQueue, IdleSkip
<1>3. (RunningQueued /\ IdleLast /\ IdleAsleep)'
  BY DEF RunningQueued, IdleLast, IdleAsleep, IdleSkip, Return
<1>4. AheadOfIdle'
  <2> SUFFICES ASSUME NEW j \in Jobs, runable[j], NEW k \in DOMAIN runq, runq[k] = "bidlethread"
               PROVE  \E i \in DOMAIN runq : i < k /\ runq[i] = j
    BY DEF AheadOfIdle, Waiting, IdleSkip
  <2>1. Len(runq) \in DOMAIN runq /\ runq[Len(runq)] = "bidlethread"
    BY <1>1 DEF QInv, IdleLast, IdleSkip
  <2>2. k = Len(runq)
    BY <2>1 DEF QInv, OneIdleEntry
  <2>3. PICK i \in DOMAIN runq : runq[i] = j
    BY DEF QInv, RunnableQueued, InQueue, Threads
  <2>4. j # "bidlethread"
    BY DEF Daemons
  <2> QED BY <1>1, <2>1, <2>2, <2>3, <2>4
<1> QED BY <1>2, <1>3, <1>4 DEF QInv

(* A job that sets its own b_runable is running, so it has its entry. *)
LEMMA QInvRearm == ASSUME TypeOK, QInv, NEW j \in Jobs, JobRearm(j) PROVE QInv'
<1>1. phase = "call" /\ jnow = j /\ jnow # "bidlethread" /\ InQueue(j)
  BY DEF JobRearm, Running, QInv, RunningQueued, Daemons
<1>2. \A u \in Threads : runable'[u] => runable[u] \/ u = j
  BY DEF JobRearm, TypeOK
<1>3. (RunnableQueued /\ OneIdleEntry /\ RunningQueued /\ IdleLast /\ IdleAsleep)'
  BY <1>1, <1>2 DEF QInv, RunnableQueued, OneIdleEntry, RunningQueued, IdleLast, IdleAsleep,
                    InQueue, JobRearm
<1>4. DaemonsRun'
  BY DEF QInv, DaemonsRun, JobRearm, TypeOK, Threads
<1>5. AheadOfIdle'
  <2>1. \A u \in Jobs : Waiting(u)' => Waiting(u)
    BY <1>1, <1>2 DEF Waiting, JobRearm, Threads
  <2> QED BY <2>1 DEF QInv, AheadOfIdle, JobRearm
<1> QED BY <1>3, <1>4, <1>5 DEF QInv

LEMMA QInvStep == TypeOK /\ QInv /\ [Next]_vars => QInv'
<1> SUFFICES ASSUME TypeOK, QInv, [Next]_vars PROVE QInv'
  OBVIOUS
<1>0. \A j \in Jobs : j \notin Daemons /\ j # "bidlethread"
  BY DEF Daemons
<1>1. CASE PollDrop
  BY <1>1, QInvDrop
<1>2. CASE PollRun
  BY <1>2, QInvRun
<1>3. CASE TimerStart
  BY <1>3, <1>0, QInvKeep DEF TimerStart, Sleepy, Daemons
<1>4. ASSUME NEW e \in timers, TimerFire(e) PROVE QInv'
  <2>1. e.thread \in Jobs /\ phase = "check" /\ jnow' = jnow /\ phase' = phase
    BY <1>4 DEF TimerFire, TypeOK
  <2>2. CASE Bwakeup(e.thread, ident[e.thread])
    BY <2>1, <2>2, QInvWake
  <2>3. CASE UNCHANGED sched
    BY <2>1, <2>3, QInvKeep
  <2> QED BY <1>4, <2>2, <2>3 DEF TimerFire
<1>5. ASSUME NEW e \in timers, TimerStale(e) PROVE QInv'
  BY <1>5, QInvKeep DEF TimerStale
<1>6. CASE TimerDone
  BY <1>6, QInvKeep DEF TimerDone, Return
<1>7. CASE IoStart \/ IdleStart
  BY <1>7, <1>0, QInvKeep DEF IoStart, IdleStart, Sleepy, Daemons
<1>8. CASE IdleSkip
  BY <1>8, QInvSkip
<1>9. ASSUME NEW j \in SockJobs, SelectReady(j) \/ SelectRequeue(j) PROVE QInv'
  <2>1. j \in Jobs
    BY DEF SockJobs
  <2>2. CASE SelectReady(j)
    BY <2>1, <2>2, QInvWake DEF SelectReady
  <2>3. CASE SelectRequeue(j)
    BY <2>1, <2>3, QInvSleep DEF SelectRequeue
  <2> QED BY <1>9, <2>2, <2>3
<1>10. CASE SelectDone
  BY <1>10, QInvKeep DEF SelectDone, Return
<1>11. ASSUME NEW j \in Jobs, JobStep(j) PROVE QInv'
  <2>1. ASSUME NEW t \in Jobs, NEW id \in Ident, JobWake(j, t, id) PROVE QInv'
    BY <2>1, <1>0, QInvWake DEF JobWake, Running
  <2>2. CASE JobSend(j)
    BY <2>2, QInvKeep DEF JobSend
  <2>3. ASSUME NEW id \in Ident, JobSelecting(j, id) PROVE QInv'
    BY <2>3, QInvSleep DEF JobSelecting
  <2>4. ASSUME NEW t \in tnow + 1 .. MaxClock, JobTimeWait(j, t) PROVE QInv'
    BY <2>4, QInvSleep DEF JobTimeWait
  <2>5. ASSUME NEW id \in Ident, JobSleep(j, id) PROVE QInv'
    BY <2>5, QInvSleep DEF JobSleep
  <2>6. CASE JobRearm(j)
    BY <2>6, QInvRearm
  <2>7. CASE JobReturn(j)
    BY <2>7, QInvKeep DEF JobReturn, Return, Running
  <2>8. CASE JobHardError(j)
    BY <2>8, QInvKeep DEF JobHardError, Return, Running, Sleepy
  <2> QED BY <1>11, <2>1, <2>2, <2>3, <2>4, <2>5, <2>6, <2>7, <2>8 DEF JobStep
<1>12. CASE Tick \/ SetBack
  BY <1>12, QInvKeep DEF Tick, SetBack
<1>13. CASE UNCHANGED vars
  BY <1>13, QInvKeep DEF vars, sched
<1> QED
  BY <1>1, <1>2, <1>3, <1>4, <1>5, <1>6, <1>7, <1>8, <1>9, <1>10, <1>11, <1>12, <1>13
  DEF Next, TimerStep, SelectStep

LEMMA QInvInit == Init => QInv
<1> SUFFICES ASSUME Init PROVE QInv
  OBVIOUS
<1>1. RunnableQueued /\ DaemonsRun
  BY DEF Init, RunnableQueued, DaemonsRun, InQueue, Threads
<1>2. OneIdleEntry
  BY DEF Init, OneIdleEntry
<1>3. RunningQueued /\ IdleLast /\ AheadOfIdle /\ IdleAsleep
  BY DEF Init, RunningQueued, IdleLast, AheadOfIdle, IdleAsleep
<1> QED BY <1>1, <1>2, <1>3 DEF QInv

LEMMA Scheduling == Spec => [](TypeOK /\ QInv)
<1>1. Init => TypeOK /\ QInv
  BY TypeInit, QInvInit
<1>2. TypeOK /\ QInv /\ [Next]_vars => TypeOK' /\ QInv'
  BY TypeStep, QInvStep
<1> QED BY <1>1, <1>2, PTL DEF Spec

(* A runnable thread is never out of the run queue. *)
THEOREM RunnableQueuedHolds == Spec => []RunnableQueued
<1>1. TypeOK /\ QInv => RunnableQueued
  BY DEF QInv
<1> QED BY <1>1, Scheduling, PTL

(* bpoll() always finds a thread to run: its assert(0) is unreachable, the  *)
(* three daemons being runnable for good.                                   *)
THEOREM PollFindsJobHolds == Spec => []PollFindsJob
<1>1. TypeOK /\ QInv => PollFindsJob
  <2> SUFFICES ASSUME TypeOK, QInv PROVE PollFindsJob
    OBVIOUS
  <2>1. runable["btimerd"] /\ InQueue("btimerd")
    BY DEF QInv, DaemonsRun, RunnableQueued, Daemons, Threads
  <2> QED BY <2>1 DEF PollFindsJob, InQueue
<1> QED BY <1>1, Scheduling, PTL

(* bidlethread enters select() only when every job sleeps, those that       *)
(* return without sleeping apart.                                           *)
THEOREM IdleOnlyWhenAsleepHolds == Spec => IdleOnlyWhenAsleep
<1>1. TypeOK /\ QInv /\ [Next]_vars => [IdleStart => \A j \in Jobs \ HardError : ~runable[j]]_vars
  BY DEF QInv, IdleAsleep, IdleStart, Sleepy
<1> QED BY <1>1, Scheduling, PTL DEF Spec, IdleOnlyWhenAsleep

-----------------------------------------------------------------------------
(* Timers.  While the wall clock does not go back a job never arms a        *)
(* deadline before one it has pending: the deadline of a request is its     *)
(* send plus a fixed delay, and the jobs that also wait for a given time    *)
(* run only when what they armed has passed.                                *)
IdentOK == \A j \in Jobs : ident[j] \in SleepOn[j] \cup {"NULL", BootIdent[j]}

ClockOK == BootTime <= tnow /\ tnow <= clock /\ \A j \in Jobs : stamp[j] <= clock

SoloIdle == \A j \in Solo : runable[j] \/ ident[j] = "NULL" => btick[j] <= tnow

RetryTick == \A j \in Jobs \ Solo : btick[j] <= stamp[j] + Delay[j]

TInv ==
  /\ IdentOK /\ ClockOK /\ SoloIdle /\ RetryTick
  /\ TimerOrder /\ DeadlineArmed /\ TimersAhead

(* What the assumptions on Solo say of what a job sleeps on. *)
LEMMA SoloFacts ==
  ASSUME NEW j \in Solo
  PROVE  /\ j \in Jobs /\ j \notin SockJobs
         /\ SleepOn[j] \subseteq {"find", "twait", "NULL"} /\ BootIdent[j] = "NULL"
<1>1. j \in Jobs
  BY DEF Solo
<1>2. SleepOn[j] \subseteq {"find", "twait", "NULL"} /\ BootIdent[j] = "NULL"
  BY Zenon, BthreadAssumption
<1>3. j \notin SockJobs
  BY <1>2 DEF SockJobs
<1> QED BY <1>1, <1>2, <1>3

(* A step that leaves the clocks and the timers alone keeps TInv when the  *)
(* jobs it makes runnable have no deadline ahead.                          *)
LEMMA TInvSched ==
  ASSUME TypeOK, TInv, UNCHANGED time, phase = "check" => phase' = "check",
         IdentOK',
         \A j \in Solo : (runable'[j] \/ ident'[j] = "NULL") =>
           runable[j] \/ ident[j] = "NULL"
  PROVE  TInv'
<1>1. (ClockOK /\ SoloIdle /\ RetryTick)'
  BY DEF TInv, ClockOK, SoloIdle, RetryTick, time
<1>2. (TimerOrder /\ DeadlineArmed /\ TimersAhead)'
  BY DEF TInv, TimerOrder, DeadlineArmed, TimersAhead, time
<1> QED BY <1>1, <1>2 DEF TInv

LEMMA TInvWake ==
  ASSUME TypeOK, TInv, UNCHANGED time, phase = "check" => phase' = "check",
         NEW t \in Jobs, NEW id \in {"NULL", "self", "sock"}, Bwakeup(t, id)
  PROVE  TInv'
<1>1. IdentOK'
  BY DEF TInv, IdentOK, Bwakeup, TypeOK, Threads
<1>2. \A j \in Solo : (runable'[j] \/ ident'[j] = "NULL") => runable[j] \/ ident[j] = "NULL"
  <2> SUFFICES ASSUME NEW j \in Solo, ident[j] # "NULL", j = t PROVE FALSE
    BY SoloFacts DEF Bwakeup, TypeOK, Threads
  <2>1. ident[j] \in {"find", "twait", "NULL"}
    BY SoloFacts DEF TInv, IdentOK
  <2> QED BY <2>1 DEF Bwakeup
<1> QED BY <1>1, <1>2, TInvSched

(* tsleep(id) on a runnable job. *)
LEMMA SleepIdent ==
  ASSUME TypeOK, TInv, NEW j \in Jobs, NEW id \in SleepOn[j], Tsleep(j, id)
  PROVE  /\ IdentOK'
         /\ runable[j] /\ ~runable'[j] /\ ident'[j] = id
         /\ \A k \in Jobs \ {j} : runable'[k] = runable[k] /\ ident'[k] = ident[k]
  BY DEF Tsleep, TInv, IdentOK, TypeOK, Threads

LEMMA TInvSleep ==
  ASSUME TypeOK, TInv, UNCHANGED time, phase = "check" => phase' = "check",
         NEW j \in Jobs, NEW id \in SleepOn[j], Tsleep(j, id)
  PROVE  TInv'
<1>1. \A k \in Solo : (runable'[k] \/ ident'[k] = "NULL") => runable[k] \/ ident[k] = "NULL"
  BY SMTT(30), SleepIdent, SoloFacts
<1> QED BY <1>1, SleepIdent, TInvSched

(* A timer that is armed is the latest of its thread and is still ahead. *)
LEMMA TInvArm ==
  ASSUME TypeOK, TInv, NEW j \in Jobs, NEW id \in SleepOn[j], NEW tick \in Nat,
         Tsleep(j, id), Enqueue(j, tick), phase' = phase,
         id # "NULL", tick > tnow,
         j \in Solo \/ tick = stamp[j] + Delay[j]
  PROVE  TInv'
<1>1. IdentOK'
  BY SleepIdent
<1>2. btick[j] <= tick
  <2>1. btick[j] \in Nat /\ tnow \in Nat
    BY DEF TypeOK
  <2>2. CASE j \in Solo
    <3>1. btick[j] <= tnow
      BY <2>2, SleepIdent DEF TInv, SoloIdle
    <3> QED BY <2>1, <3>1
  <2>3. CASE j \notin Solo
    BY <2>3 DEF TInv, RetryTick
  <2> QED BY <2>2, <2>3
<1>3. /\ btick' = [btick EXCEPT ![j] = tick]
      /\ timers' = timers \cup {[tick |-> tick, thread |-> j]}
      /\ UNCHANGED <<stamp, tnow, clock>>
  BY DEF Enqueue
<1>4. btick'[j] = tick /\ \A k \in Jobs \ {j} : btick'[k] = btick[k]
  BY <1>3 DEF TypeOK
<1>5. ClockOK'
  BY <1>3 DEF TInv, ClockOK
<1>6. SoloIdle'
  <2> SUFFICES ASSUME NEW k \in Solo, runable'[k] \/ ident'[k] = "NULL" PROVE btick'[k] <= tnow'
    BY DEF SoloIdle
  <2>1. k \in Jobs \ {j}
    BY SleepIdent, SoloFacts
  <2>2. runable'[k] = runable[k] /\ ident'[k] = ident[k]
    BY <2>1, SleepIdent
  <2>3. btick[k] <= tnow
    BY <2>2 DEF TInv, SoloIdle
  <2> QED BY <1>3, <1>4, <2>1, <2>3
<1>7. RetryTick'
  <2> SUFFICES ASSUME NEW k \in Jobs \ Solo PROVE btick'[k] <= stamp'[k] + Delay[k]
    BY DEF RetryTick
  <2>1. CASE k = j
    <3>1. btick'[k] = stamp'[k] + Delay[k]
      BY <1>3, <1>4, <2>1
    <3> QED BY <1>4, <2>1, <3>1
  <2>2. CASE k # j
    BY <1>3, <1>4, <2>2 DEF TInv, RetryTick
  <2> QED BY <2>1, <2>2
<1>8. TimerOrder'
  <2> SUFFICES ASSUME NEW e \in timers' PROVE e.tick <= btick'[e.thread]
    BY DEF TimerOrder
  <2>1. CASE e \in timers
    <3>1. e.tick <= btick[e.thread] /\ e.thread \in Jobs /\ e.tick \in Nat /\ btick[j] \in Nat
      BY <2>1 DEF TInv, TimerOrder, TypeOK
    <3> QED BY SMTT(30), <1>2, <1>4, <3>1
  <2>2. CASE e = [tick |-> tick, thread |-> j]
    BY <1>4, <2>2
  <2> QED BY <1>3, <2>1, <2>2
<1>9. DeadlineArmed'
  BY <1>3, <1>4 DEF TInv, DeadlineArmed
<1>10. TimersAhead'
  BY <1>3 DEF TInv, TimersAhead
<1> QED BY <1>1, <1>5, <1>6, <1>7, <1>8, <1>9, <1>10 DEF TInv

(* check_timer() takes an entry off that is due or was superseded. *)
LEMMA TInvTake ==
  ASSUME TypeOK, TInv, NEW e \in timers, tnow >= btick[e.thread] \/ tnow >= e.tick,
         timers' = timers \ {e}, UNCHANGED <<btick, stamp, tnow, clock>>,
         phase = "check", phase' = "check",
         \A j \in Jobs : \/ ident'[j] = ident[j] /\ runable'[j] = runable[j]
                         \/ ident'[j] = "NULL" /\ btick[j] <= tnow
  PROVE  TInv'
<1>1. e.thread \in Jobs /\ e.tick \in Nat /\ tnow \in Nat /\ btick[e.thread] \in Nat
      /\ e = [tick |-> e.tick, thread |-> e.thread]
  BY DEF TypeOK
<1>2. (IdentOK /\ ClockOK /\ RetryTick)'
  BY DEF TInv, IdentOK, ClockOK, RetryTick
<1>3. SoloIdle'
  BY DEF TInv, SoloIdle, Solo
<1>4. (TimerOrder /\ TimersAhead)'
  BY DEF TInv, TimerOrder, TimersAhead
<1>5. DeadlineArmed'
  <2> SUFFICES ASSUME NEW j \in Jobs, btick[j] > tnow PROVE [tick |-> btick[j], thread |-> j] \in timers'
    BY DEF DeadlineArmed
  <2>1. [tick |-> btick[j], thread |-> j] \in timers
    BY DEF TInv, DeadlineArmed
  <2>2. CASE e = [tick |-> btick[j], thread |-> j]
    BY <1>1, <2>2 DEF TypeOK
  <2> QED BY <2>1, <2>2
<1> QED BY <1>2, <1>3, <1>4, <1>5 DEF TInv

LEMMA TInvStep ==
  ASSUME StepBack = FALSE
  PROVE  TypeOK /\ TInv /\ [Next]_vars => TInv'
<1> SUFFICES ASSUME TypeOK, TInv, [Next]_vars PROVE TInv'
  OBVIOUS
<1>a. \A t \in Jobs : t \in Threads
  BY DEF Threads
<1>k. TInv => IdentOK
  BY DEF TInv
<1>1. CASE PollDrop \/ PollRun \/ IdleSkip \/ IoStart \/ IdleStart \/ SelectDone
  BY <1>1, <1>k, TInvSched
  DEF PollDrop, PollRun, IdleSkip, IoStart, IdleStart, SelectDone, Return, IdentOK, sched
<1>2. CASE TimerStart
  <2>1. tnow' = clock /\ tnow <= clock /\ tnow \in Nat /\ clock \in Nat
    BY <1>2 DEF TimerStart, TInv, ClockOK, TypeOK
  <2>2. (IdentOK /\ ClockOK /\ RetryTick)'
    BY <1>2, <2>1 DEF TimerStart, TInv, IdentOK, ClockOK, RetryTick, sched
  <2>3. SoloIdle'
    <3>1. \A j \in Solo : j \in Jobs /\ btick[j] \in Nat
      BY DEF Solo, TypeOK
    <3> QED BY <1>2, <2>1, <3>1 DEF TimerStart, TInv, SoloIdle, sched
  <2>4. DeadlineArmed'
    <3>1. \A j \in Jobs : btick[j] \in Nat
      BY DEF TypeOK
    <3> QED BY <1>2, <2>1, <3>1 DEF TimerStart, TInv, DeadlineArmed
  <2>5. (TimerOrder /\ TimersAhead)'
    BY <1>2 DEF TimerStart, TInv, TimerOrder, TimersAhead
  <2> QED BY <2>2, <2>3, <2>4, <2>5 DEF TInv
<1>3. ASSUME NEW e \in timers, TimerFire(e) PROVE TInv'
  <2>1. e.thread \in Jobs
    BY DEF TypeOK
  <2>2. \A j \in Jobs : \/ ident'[j] = ident[j] /\ runable'[j] = runable[j]
                        \/ ident'[j] = "NULL" /\ btick[j] <= tnow
    <3>1. CASE Bwakeup(e.thread, ident[e.thread])
      <4>1. btick[e.thread] <= tnow
        BY <1>3, <2>1 DEF TimerFire, TypeOK
      <4> QED BY <3>1, <4>1, <2>1, <1>a DEF Bwakeup, TypeOK
    <3>2. CASE UNCHANGED sched
      BY <3>2 DEF sched
    <3> QED BY <1>3, <3>1, <3>2 DEF TimerFire
  <2> QED BY <1>3, <2>2, TInvTake DEF TimerFire
<1>4. ASSUME NEW e \in timers, TimerStale(e) PROVE TInv'
  BY <1>4, TInvTake DEF TimerStale, sched
<1>5. CASE TimerDone
  <2>1. \A e \in timers : e.tick > tnow
    <3> SUFFICES ASSUME NEW f \in timers PROVE f.tick > tnow
      OBVIOUS
    <3>1. PICK e \in timers : First(e) /\ tnow < e.tick
      BY <1>5 DEF TimerDone
    <3>2. e.tick \in Nat /\ f.tick \in Nat /\ tnow \in Nat /\ e.tick <= f.tick
      BY <3>1 DEF First, TypeOK
    <3> QED BY <3>1, <3>2
  <2>2. (IdentOK /\ ClockOK /\ SoloIdle /\ RetryTick /\ TimerOrder /\ DeadlineArmed)'
    BY <1>5 DEF TimerDone, TInv, IdentOK, ClockOK, SoloIdle, RetryTick, TimerOrder,
                DeadlineArmed, sched, time
  <2>3. TimersAhead'
    BY <1>5, <2>1 DEF TimerDone, TimersAhead, time
  <2> QED BY <2>2, <2>3 DEF TInv
<1>6. ASSUME NEW j \in SockJobs, SelectReady(j) \/ SelectRequeue(j) PROVE TInv'
  <2>1. j \in Jobs /\ "sock" \in SleepOn[j]
    BY DEF SockJobs
  <2>2. CASE SelectReady(j)
    BY <2>1, <2>2, TInvWake DEF SelectReady
  <2>3. CASE SelectRequeue(j)
    BY <2>1, <2>3, TInvSleep DEF SelectRequeue
  <2> QED BY <1>6, <2>2, <2>3
<1>7. ASSUME NEW j \in Jobs, JobStep(j) PROVE TInv'
  <2>1. ASSUME NEW t \in Jobs, NEW id \in Ident, JobWake(j, t, id) PROVE TInv'
    <3>1. id \in {"NULL", "self"}
      BY <2>1 DEF JobWake
    <3> QED BY <2>1, <3>1, TInvWake DEF JobWake
  <2>2. CASE JobSend(j)
    <3>1. stamp' = [stamp EXCEPT ![j] = clock] /\ stamp[j] <= clock
          /\ UNCHANGED <<runable, ident, btick, timers, tnow, clock, phase>>
      BY <2>2 DEF JobSend, TInv, ClockOK, sched
    <3>2. (IdentOK /\ ClockOK /\ SoloIdle /\ TimerOrder /\ DeadlineArmed /\ TimersAhead)'
      BY <3>1 DEF TInv, IdentOK, ClockOK, SoloIdle, TimerOrder, DeadlineArmed, TimersAhead, TypeOK
    <3>3. RetryTick'
      <4> SUFFICES ASSUME NEW k \in Jobs \ Solo PROVE btick[k] <= stamp'[k] + Delay[k]
        BY <3>1 DEF RetryTick
      <4>1. /\ btick[k] <= stamp[k] + Delay[k] /\ btick[k] \in Nat
            /\ stamp[k] \in Nat /\ Delay[k] \in Nat /\ clock \in Nat
        BY DEF TInv, RetryTick, TypeOK
      <4>2. stamp'[k] \in Nat /\ stamp[k] <= stamp'[k]
        BY <3>1, <4>1 DEF TypeOK
      <4> QED BY <4>1, <4>2
    <3> QED BY <3>2, <3>3 DEF TInv
  <2>3. ASSUME NEW id \in Ident, JobSelecting(j, id) PROVE TInv'
    <3>1. stamp[j] + Delay[j] \in Nat
      BY DEF TypeOK
    <3> QED BY <2>3, <3>1, TInvArm DEF JobSelecting, Pending
  <2>4. ASSUME NEW t \in tnow + 1 .. MaxClock, JobTimeWait(j, t) PROVE TInv'
    <3>1. t \in Nat /\ "twait" \in SleepOn[j] /\ j \in Solo
      BY <2>4 DEF JobTimeWait, Solo, TypeOK
    <3> QED BY <2>4, <3>1, TInvArm DEF JobTimeWait
  <2>5. ASSUME NEW id \in Ident, JobSleep(j, id) PROVE TInv'
    BY <2>5, TInvSleep DEF JobSleep
  <2>6. CASE JobRearm(j)
    <3>1. j \notin Solo
      BY <2>6, SoloFacts DEF JobRearm, Rearming
    <3>2. \A k \in Solo : runable'[k] = runable[k]
      BY <2>6, <3>1, <1>a, SoloFacts DEF JobRearm, TypeOK
    <3>3. UNCHANGED <<time, ident, phase>> /\ IdentOK'
      BY <2>6, <1>k DEF JobRearm, IdentOK
    <3> QED BY <3>2, <3>3, TInvSched
  <2>7. CASE JobReturn(j) \/ JobHardError(j)
    BY <2>7, <1>k, TInvSched DEF JobReturn, JobHardError, Return, Running, IdentOK, sched
  <2> QED BY <1>7, <2>1, <2>2, <2>3, <2>4, <2>5, <2>6, <2>7 DEF JobStep
<1>8. CASE Tick
  <2>1. clock' = clock + 1 /\ clock \in Nat /\ tnow \in Nat /\ \A j \in Jobs : stamp[j] \in Nat
    BY <1>8 DEF Tick, TypeOK
  <2>2. ClockOK'
    BY <1>8, <2>1 DEF Tick, TInv, ClockOK
  <2> QED BY <1>8, <2>2 DEF Tick, TInv, IdentOK, SoloIdle, RetryTick, TimerOrder,
             DeadlineArmed, TimersAhead, sched
<1>9. CASE UNCHANGED vars
  BY <1>9, <1>k, TInvSched DEF vars, time, IdentOK
<1> QED
  BY <1>1, <1>2, <1>3, <1>4, <1>5, <1>6, <1>7, <1>8, <1>9
  DEF Next, TimerStep, SelectStep, SetBack

LEMMA TInvInit == Init => TInv
<1> SUFFICES ASSUME Init PROVE TInv
  OBVIOUS
<1>1. IdentOK /\ ClockOK /\ SoloIdle /\ RetryTick
  BY DEF Init, IdentOK, ClockOK, SoloIdle, RetryTick, Threads, Solo
<1>2. TimerOrder /\ DeadlineArmed /\ TimersAhead
  BY DEF Init, TimerOrder, DeadlineArmed, TimersAhead
<1> QED BY <1>1, <1>2 DEF TInv

LEMMA Timing ==
  ASSUME StepBack = FALSE
  PROVE  Spec => [](TypeOK /\ TInv)
<1>1. Init => TypeOK /\ TInv
  BY TypeInit, TInvInit
<1>2. TypeOK /\ TInv /\ [Next]_vars => TypeOK' /\ TInv'
  BY TypeStep, TInvStep
<1> QED BY <1>1, <1>2, PTL DEF Spec

(* assert(THEADER->tt_tick <= item->b_tick) of check_timer() holds as long  *)
(* as the wall clock is never set back.                                     *)
THEOREM TimerOrderHolds ==
  ASSUME StepBack = FALSE
  PROVE  Spec => []TimerOrder
<1>1. TypeOK /\ TInv => TimerOrder
  BY DEF TInv
<1> QED BY <1>1, Timing, PTL

(* No superseded entry takes the last deadline of a thread along: until it  *)
(* has passed it is in the timer queue.                                     *)
THEOREM DeadlineArmedHolds ==
  ASSUME StepBack = FALSE
  PROVE  Spec => []DeadlineArmed
<1>1. TypeOK /\ TInv => DeadlineArmed
  BY DEF TInv
<1> QED BY <1>1, Timing, PTL

(* assert(twait >= 0) of bidlethread: outside check_timer() every timer is  *)
(* ahead of the cached clock.                                               *)
THEOREM TimersAheadHolds ==
  ASSUME StepBack = FALSE
  PROVE  Spec => []TimersAhead
<1>1. TypeOK /\ TInv => TimersAhead
  BY DEF TInv
<1> QED BY <1>1, Timing, PTL

(* What check_timer() and bidlethread assert, and that no deadline is lost, *)
(* as long as the wall clock is not set back.                               *)
THEOREM TimersSoundHolds ==
  ASSUME StepBack = FALSE
  PROVE  Spec => []TimersSound
BY TimerOrderHolds, DeadlineArmedHolds, TimersAheadHolds, PTL DEF TimersSound

(* The run queue keeps every runnable thread, bpoll() finds one, and        *)
(* bidlethread waits only when all sleep, for any threads, wait identifiers *)
(* and wake-ups, with or without a clock that is set back.                  *)
THEOREM ServedSoundHolds == Spec => ServedSound
BY TypeCorrect, RunnableQueuedHolds, PollFindsJobHolds, IdleOnlyWhenAsleepHolds, PTL DEF ServedSound
=============================================================================
