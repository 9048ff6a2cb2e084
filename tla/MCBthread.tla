------------------------------ MODULE MCBthread ------------------------------
(* Bthread for TLC, with the threads of kadmin. *)
EXTENDS Bthread

(* The wake-ups the source makes: bdhtnet delivers to the threads that wait *)
(* on themselves and reports contacts to pingd; a lookup does the latter    *)
(* too, and its first request starts bdhtnet.  bootupd is taken between its *)
(* lookups, of which serviced shows the waits.                              *)
MCSleepOn == [bdhtnet |-> {"sock"}, pingd |-> {"self", "NULL"},
              bootupd |-> {"twait", "NULL"}, serviced |-> {"find", "sock"}]
MCWakes == [bdhtnet |-> {<<"pingd", "self">>, <<"pingd", "NULL">>},
            pingd |-> {<<"bdhtnet", "NULL">>},
            bootupd |-> {<<"pingd", "NULL">>, <<"bdhtnet", "NULL">>},
            serviced |-> {<<"pingd", "NULL">>, <<"bdhtnet", "NULL">>}]

On(f, js) == [j \in js |-> f[j]]
Wake(js) == [j \in js |-> {w \in MCWakes[j] : w[1] \in js}]

(* The receiver, pingd with its timers and a daemon that waits for the time. *)
JobsA == {"bdhtnet", "pingd", "bootupd"}
SleepOnA == On(MCSleepOn, JobsA)
WakesA == Wake(JobsA)
DelayA == [j \in JobsA |-> 1]
BootA == <<"biothread", "bidlethread", "btimerd", "bootupd">>
IdentA == [j \in JobsA |-> IF j = "pingd" THEN "self" ELSE "NULL"]

(* serviced, which waits for its socket and for its lookup, and a receiver   *)
(* whose recvfrom() may fail hard.                                           *)
JobsB == {"bdhtnet", "serviced"}
SleepOnB == On(MCSleepOn, JobsB)
WakesB == Wake(JobsB)
DelayB == [j \in JobsB |-> 1]
BootB == <<"biothread", "bidlethread", "btimerd", "serviced">>
IdentB == [j \in JobsB |-> "NULL"]

NoJobs == {}
NetErr == {"bdhtnet"}
=============================================================================
