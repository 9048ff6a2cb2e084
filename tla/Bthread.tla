------------------------------- MODULE Bthread -------------------------------
(***************************************************************************)
(* The cooperative runtime of kadmin: the run queue (bthread.cc), the      *)
(* timer daemon (btimerd.cc), the idle daemon (bidle.cc), the i/o daemon   *)
(* (biothread.cc) and the main loop that drives them (bloader.cc).         *)
(*                                                                         *)
(* A job's bdocall() runs to completion: nothing preempts it.  It is       *)
(* modelled as the operations it performs on the runtime, in any order its *)
(* code can take: wake another thread, read the clock for a deadline, go   *)
(* to sleep in one of the ways it uses, return to the main loop.           *)
(***************************************************************************)
EXTENDS Integers, Sequences, FiniteSets

CONSTANTS
  Jobs,       \* the threads that sleep: bdhtnet, pingd, bootupd, ...
  SleepOn,    \* SleepOn[j]: the wait identifiers j passes to tsleep()
  Wakes,      \* Wakes[j]: the <<thread, identifier>> pairs j passes to bwakeup()
  Delay,      \* Delay[j]: seconds between a send of j and its retry timer
  BootQueue,  \* the threads main() has woken before the first bpoll(), in order
  BootIdent,  \* BootIdent[j]: b_swaitident of j before it first runs
  BootTime,   \* time(NULL) when the program starts
  MaxClock,   \* bound on the wall clock
  MaxQueue,   \* bound on the run queue: a hard error is explored up to this length
  StepBack,   \* may the wall clock be set back (settimeofday)?
  HardError   \* the jobs that return without sleeping when recvfrom() fails hard

Daemons == {"biothread", "btimerd", "bidlethread"}
Threads == Daemons \cup Jobs

(* Wait identifiers are addresses in the code.  "NULL"; "self", the address *)
(* of the sleeping thread; "find", the address of its kfind or kgetpeers;   *)
(* "twait", the static of btime_wait(); "sock", &b_jrd or &b_jwr.           *)
Ident == {"NULL", "self", "find", "twait", "sock"}

(* Jobs that call btime_wait(): bootupd, checkerd, bclock. *)
Solo == {j \in Jobs : "twait" \in SleepOn[j]}

(* Jobs a socket may hold in b_jrd or b_jwr: bdhtnet, serviced. *)
SockJobs == {j \in Jobs : "sock" \in SleepOn[j]}

(* serviced puts its own b_runable back after a failed bsend(). *)
Rearming == {j \in SockJobs : "find" \in SleepOn[j]}

ASSUME BthreadAssumption ==
  /\ Jobs \cap Daemons = {}
  /\ SleepOn \in [Jobs -> SUBSET Ident]
  /\ Wakes \in [Jobs -> SUBSET (Jobs \X {"NULL", "self"})]
  /\ Delay \in [Jobs -> Nat \ {0}]
  /\ BootQueue \in Seq(Threads)
  /\ \A d \in Daemons : \E i \in DOMAIN BootQueue : BootQueue[i] = d
  /\ \A i, k \in DOMAIN BootQueue : BootQueue[i] = BootQueue[k] => i = k
  /\ BootIdent \in [Jobs -> {"NULL", "self"}]
  /\ BootTime \in Nat /\ MaxClock \in Nat /\ MaxQueue \in Nat
  /\ StepBack \in BOOLEAN
  /\ HardError \subseteq SockJobs
  /\ \A j \in Solo : SleepOn[j] \subseteq {"find", "twait", "NULL"} /\ BootIdent[j] = "NULL"

VARIABLES
  runq,     \* __q_running
  runable,  \* b_runable of each thread
  ident,    \* b_swaitident of each thread
  btick,    \* b_tick of each job: the deadline it armed last
  stamp,    \* b_last_update / b_last_seen of each job: time(NULL) at its last send
  timers,   \* __q_timer
  tnow,     \* btimerd::_tnow, what now_time() returns
  clock,    \* what time(NULL) returns
  bcount,   \* _b_count > 0
  jnow,     \* _jnow
  phase,    \* where the main loop is
  requeued  \* the jobs this pass over the sockets has put back to sleep

vars == <<runq, runable, ident, btick, stamp, timers, tnow, clock, bcount, jnow, phase,
          requeued>>
sched == <<runq, runable, ident, bcount>>
time == <<btick, stamp, timers, tnow, clock>>

InQueue(t) == \E i \in DOMAIN runq : runq[i] = t

-----------------------------------------------------------------------------
Init ==
  /\ runq = BootQueue
  /\ runable = [t \in Threads |-> \E i \in DOMAIN BootQueue : BootQueue[i] = t]
  /\ ident = [t \in Threads |-> IF t \in Jobs THEN BootIdent[t] ELSE "NULL"]
  /\ btick = [j \in Jobs |-> 0]
  /\ stamp = [j \in Jobs |-> BootTime]
  /\ timers = {}
  /\ tnow = BootTime
  /\ clock = BootTime
  /\ bcount = TRUE
  /\ jnow = "none"
  /\ phase = "poll"
  /\ requeued = {}

(* Mutant: bwakeup() forgets __q_running.push(this). *)
BwakeupNoPush(t, id) ==
  /\ ~runable[t]
  /\ ident[t] = id
  /\ runable' = [runable EXCEPT ![t] = TRUE]
  /\ ident' = [ident EXCEPT ![t] = "NULL"]
  /\ bcount' = TRUE
  /\ UNCHANGED runq

(* bwakeup(id) on a thread that is asleep on id; on any other it does nothing. *)
Bwakeup(t, id) ==
  /\ ~runable[t]
  /\ ident[t] = id
  /\ runq' = Append(runq, t)
  /\ runable' = [runable EXCEPT ![t] = TRUE]
  /\ ident' = [ident EXCEPT ![t] = "NULL"]
  /\ bcount' = TRUE

(* tsleep(id) on a runnable thread: its entry stays in the run queue. *)
Tsleep(t, id) ==
  /\ runable[t]
  /\ runable' = [runable EXCEPT ![t] = FALSE]
  /\ ident' = [ident EXCEPT ![t] = id]
  /\ UNCHANGED <<runq, bcount>>

(* btimerd::enqueue(tick), called by the running job for itself. *)
Enqueue(j, tick) ==
  /\ btick' = [btick EXCEPT ![j] = tick]
  /\ timers' = timers \cup {[tick |-> tick, thread |-> j]}
  /\ UNCHANGED <<stamp, tnow, clock>>

-----------------------------------------------------------------------------
(* The main loop: bpoll() drops the entries of sleeping threads and runs    *)
(* the first runnable one, queueing it again before it runs.                *)
PollDrop ==
  /\ phase = "poll" /\ runq # <<>>
  /\ ~runable[Head(runq)]
  /\ runq' = Tail(runq)
  /\ UNCHANGED <<runable, ident, bcount, time, jnow, phase, requeued>>

(* Mutant: bpoll() does not push the thread it runs back. *)
Popped == Tail(runq)

Rotated == Append(Tail(runq), Head(runq))

PollRun ==
  /\ phase = "poll" /\ runq # <<>>
  /\ runable[Head(runq)]
  /\ runq' = Rotated
  /\ jnow' = Head(runq)
  /\ phase' = "call"
  /\ UNCHANGED <<runable, ident, bcount, time, requeued>>

Return == phase' = "poll" /\ requeued' = {} /\ UNCHANGED jnow

-----------------------------------------------------------------------------
(* btimerd: check_timer() reads the clock, then takes the timers in order   *)
(* of deadline.  A thread is woken when the deadline it armed LAST has      *)
(* passed; an entry that was superseded by a later one is only erased.      *)
First(e) == e \in timers /\ \A f \in timers : e.tick <= f.tick

TimerStart ==
  /\ phase = "call" /\ jnow = "btimerd"
  /\ tnow' = clock
  /\ phase' = "check"
  /\ UNCHANGED <<sched, btick, stamp, timers, clock, jnow, requeued>>

(* Mutant: timeout() wakes the thread on NULL, whatever it sleeps on. *)
TimerFireNull(e) ==
  /\ phase = "check" /\ First(e)
  /\ tnow >= btick[e.thread]
  /\ \/ Bwakeup(e.thread, "NULL")
     \/ (runable[e.thread] \/ ident[e.thread] # "NULL") /\ UNCHANGED sched
  /\ timers' = timers \ {e}
  /\ UNCHANGED <<btick, stamp, tnow, clock, jnow, phase, requeued>>

TimerFire(e) ==
  /\ phase = "check" /\ First(e)
  /\ tnow >= btick[e.thread]
  /\ \/ Bwakeup(e.thread, ident[e.thread])
     \/ runable[e.thread] /\ UNCHANGED sched
  /\ timers' = timers \ {e}
  /\ UNCHANGED <<btick, stamp, tnow, clock, jnow, phase, requeued>>

(* Mutant: dropping a superseded entry cancels every timer of its thread. *)
TimerStaleCancel(e) ==
  /\ phase = "check" /\ First(e)
  /\ tnow < btick[e.thread]
  /\ tnow >= e.tick
  /\ timers' = {f \in timers : f.thread # e.thread}
  /\ UNCHANGED <<sched, btick, stamp, tnow, clock, jnow, phase, requeued>>

TimerStale(e) ==
  /\ phase = "check" /\ First(e)
  /\ tnow < btick[e.thread]
  /\ tnow >= e.tick
  /\ timers' = timers \ {e}
  /\ UNCHANGED <<sched, btick, stamp, tnow, clock, jnow, phase, requeued>>

TimerDone ==
  /\ phase = "check"
  /\ timers # {} => \E e \in timers : First(e) /\ tnow < btick[e.thread] /\ tnow < e.tick
  /\ Return
  /\ UNCHANGED <<sched, time>>

-----------------------------------------------------------------------------
(* biothread selects without waiting; bidlethread waits in select() until   *)
(* the earliest timer, but only when nothing was woken since its last turn. *)
IoStart ==
  /\ phase = "call" /\ jnow = "biothread"
  /\ phase' = "select"
  /\ UNCHANGED <<sched, time, jnow, requeued>>

IdleSkip ==
  /\ phase = "call" /\ jnow = "bidlethread"
  /\ bcount
  /\ bcount' = FALSE
  /\ Return
  /\ UNCHANGED <<runq, runable, ident, time>>

(* Mutant: bidlethread does not look at _b_count. *)
IdleStartAlways ==
  /\ phase = "call" /\ jnow = "bidlethread"
  /\ phase' = "select"
  /\ UNCHANGED <<sched, time, jnow, requeued>>

IdleStart ==
  /\ phase = "call" /\ jnow = "bidlethread"
  /\ ~bcount
  /\ phase' = "select"
  /\ UNCHANGED <<sched, time, jnow, requeued>>

(* bsocket::bselect() after select(): the waiter of a ready socket is woken; *)
(* the waiter of any other goes through q_read()/q_write() again, which puts *)
(* it to sleep on the socket if something else had woken it.  A socket is    *)
(* looked at once in a pass, so it does not wake what it has put to sleep.   *)
SelectReady(j) ==
  /\ phase = "select" /\ j \notin requeued
  /\ Bwakeup(j, "sock")
  /\ UNCHANGED <<time, jnow, phase, requeued>>

SelectRequeue(j) ==
  /\ phase = "select"
  /\ j \in Rearming
  /\ Tsleep(j, "sock")
  /\ requeued' = requeued \cup {j}
  /\ UNCHANGED <<time, jnow, phase>>

SelectDone ==
  /\ phase = "select"
  /\ Return
  /\ UNCHANGED <<sched, time>>

-----------------------------------------------------------------------------
(* What a job does while its bdocall() runs. *)
Running(j) == phase = "call" /\ jnow = j

JobWake(j, t, id) ==
  /\ Running(j)
  /\ <<t, id>> \in Wakes[j]
  /\ Bwakeup(t, id)
  /\ UNCHANGED <<time, jnow, phase, requeued>>

(* A request is sent: b_last_update (or b_last_seen) = time(NULL). *)
JobSend(j) ==
  /\ Running(j) /\ runable[j]
  /\ SleepOn[j] \cap {"find", "self"} # {}
  /\ stamp' = [stamp EXCEPT ![j] = clock]
  /\ UNCHANGED <<sched, btick, timers, tnow, clock, jnow, phase, requeued>>

Pending(j) == stamp[j] + Delay[j] > tnow

(* delay_resume(b_last_update+5); tsleep(this): only while that deadline is *)
(* ahead of now_time(), otherwise the requests have timed out.              *)
JobSelecting(j, id) ==
  /\ Running(j)
  /\ id \in SleepOn[j] \cap {"find", "self"}
  /\ Pending(j)
  /\ stamp[j] + Delay[j] <= MaxClock
  /\ Enqueue(j, stamp[j] + Delay[j])
  /\ Tsleep(j, id)
  /\ UNCHANGED <<jnow, phase, requeued>>

(* btime_wait(t): every caller first tests that t is still to come. *)
JobTimeWait(j, t) ==
  /\ Running(j)
  /\ j \in Solo
  /\ t > tnow
  /\ Tsleep(j, "twait")
  /\ Enqueue(j, t)
  /\ UNCHANGED <<jnow, phase, requeued>>

(* tsleep() with no timer: waiting for a socket, or for a bwakeup(NULL). *)
JobSleep(j, id) ==
  /\ Running(j)
  /\ id \in SleepOn[j] \cap {"NULL", "sock"}
  /\ Tsleep(j, id)
  /\ UNCHANGED <<time, jnow, phase, requeued>>

(* serviced::bdocall sets b_runable itself when bsend() fails. *)
JobRearm(j) ==
  /\ Running(j)
  /\ j \in Rearming
  /\ ~runable[j] /\ ident[j] = "find"
  /\ runable' = [runable EXCEPT ![j] = TRUE]
  /\ UNCHANGED <<runq, ident, bcount, time, jnow, phase, requeued>>

(* bdocall() loops while b_runable, so it returns asleep. *)
JobReturn(j) ==
  /\ Running(j)
  /\ ~runable[j]
  /\ Return
  /\ UNCHANGED <<sched, time>>

(* bdhtnet::bdocall returns runnable when recvfrom() fails with no EAGAIN.   *)
(* All its entries then stay in the run queue, and the next wake-up after a  *)
(* sleep adds one more: the queue has no bound of its own.                   *)
JobHardError(j) ==
  /\ Running(j)
  /\ Len(runq) <= MaxQueue
  /\ j \in HardError
  /\ runable[j]
  /\ Return
  /\ UNCHANGED <<sched, time>>

JobStep(j) ==
  \/ \E t \in Jobs, id \in Ident : JobWake(j, t, id)
  \/ JobSend(j)
  \/ \E id \in Ident : JobSelecting(j, id)
  \/ \E t \in tnow + 1 .. MaxClock : JobTimeWait(j, t)
  \/ \E id \in Ident : JobSleep(j, id)
  \/ JobRearm(j)
  \/ JobReturn(j)
  \/ JobHardError(j)

-----------------------------------------------------------------------------
(* The wall clock runs on its own. *)
Tick ==
  /\ clock < MaxClock
  /\ clock' = clock + 1
  /\ UNCHANGED <<sched, btick, stamp, timers, tnow, jnow, phase, requeued>>

SetBack ==
  /\ StepBack
  /\ clock > BootTime
  /\ clock' = clock - 1
  /\ UNCHANGED <<sched, btick, stamp, timers, tnow, jnow, phase, requeued>>

TimerStep == TimerStart \/ (\E e \in timers : TimerFire(e) \/ TimerStale(e)) \/ TimerDone
SelectStep ==
  \/ IoStart \/ IdleSkip \/ IdleStart \/ SelectDone
  \/ \E j \in SockJobs : SelectReady(j) \/ SelectRequeue(j)

Next ==
  \/ PollDrop \/ PollRun
  \/ TimerStep
  \/ SelectStep
  \/ \E j \in Jobs : JobStep(j)
  \/ Tick \/ SetBack

Spec == Init /\ [][Next]_vars

(* A turn of the main loop always ends: a bdocall() goes to sleep and       *)
(* returns, check_timer() empties what is due, a select() comes back; and   *)
(* time passes.  serviced may rearm itself a few times before it returns,   *)
(* which only strong fairness of its return excludes forever.               *)
Fairness ==
  /\ WF_vars(PollDrop) /\ WF_vars(PollRun)
  /\ WF_vars(TimerStep)
  /\ WF_vars(IoStart) /\ WF_vars(IdleSkip) /\ WF_vars(IdleStart) /\ WF_vars(SelectDone)
  /\ \A j \in Jobs :
       /\ WF_vars(\E id \in Ident : JobSelecting(j, id) \/ JobSleep(j, id))
       /\ SF_vars(JobReturn(j))
  /\ WF_vars(Tick)

FairSpec == Spec /\ Fairness

-----------------------------------------------------------------------------
TypeOK ==
  /\ runq \in Seq(Threads)
  /\ runable \in [Threads -> BOOLEAN]
  /\ ident \in [Threads -> Ident]
  /\ btick \in [Jobs -> Nat]
  /\ stamp \in [Jobs -> Nat]
  /\ timers \in SUBSET [tick : Nat, thread : Jobs]
  /\ tnow \in Nat /\ clock \in Nat
  /\ bcount \in BOOLEAN
  /\ jnow \in Threads \cup {"none"}
  /\ phase \in {"poll", "call", "check", "select"}
  /\ requeued \subseteq Rearming

(* A runnable thread is in the run queue: bwakeup() refuses a runnable      *)
(* thread, so one that lost its entry would never be scheduled again.       *)
RunnableQueued == \A t \in Threads : runable[t] => InQueue(t)

(* bpoll() never reaches its assert(0): whatever it drops, it comes to a    *)
(* runnable thread.                                                         *)
PollFindsJob == \E i \in DOMAIN runq : runable[runq[i]]

(* assert(THEADER->tt_tick <= item->b_tick) of check_timer().               *)
TimerOrder == \A e \in timers : e.tick <= btick[e.thread]

(* A thread's last deadline is in the timer queue until it has passed: the  *)
(* entries that were superseded never take it along.                        *)
DeadlineArmed ==
  \A j \in Jobs : btick[j] > tnow => [tick |-> btick[j], thread |-> j] \in timers

(* assert(twait >= 0) of bidlethread: between two turns of btimerd no timer *)
(* is overdue by the cached clock.                                          *)
TimersAhead == phase # "check" => \A e \in timers : e.tick > tnow

(* What btimerd asserts, and what a deadline is for, as long as the wall    *)
(* clock is not set back.                                                   *)
TimersSound == TimerOrder /\ DeadlineArmed /\ TimersAhead

(* bidlethread never waits in select() with a job to run, although it only  *)
(* knows whether something was woken since its last turn.  A job that       *)
(* returned without sleeping is the exception.                              *)
IdleOnlyWhenAsleep == [][IdleStart => \A j \in Jobs \ HardError : ~runable[j]]_vars

(* A runnable thread gets its turn. *)
RunnableRuns == \A t \in Threads : runable[t] ~> (jnow = t /\ phase = "call")

(* A sleeping thread with a timer is woken, by that timer at the latest. *)
TimedJobWakes ==
  \A j \in Jobs : (\E e \in timers : e.thread = j) ~> runable[j]

(* No thread starves: neither a runnable one nor one that waits for time.   *)
JobsRun == RunnableRuns /\ TimedJobWakes

(* With wake-ups from select(), waiters that are put back to sleep and a    *)
(* thread that makes itself runnable again, the run queue still holds every *)
(* runnable thread, and bidlethread waits only with nothing to run, also    *)
(* when time goes back (bthread.cc, bsocket.cc, bidle.cc).                  *)
ServedSound == [](TypeOK /\ RunnableQueued /\ PollFindsJob) /\ IdleOnlyWhenAsleep
=============================================================================
