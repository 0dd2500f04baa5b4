---------------------------- MODULE Notifications ----------------------------
(***************************************************************************)
(* Notifications: a request writes the notification and then, not in the   *)
(* same transaction, queues its fan-out; the job looks up the audience and *)
(* inserts a recipient row for each student, batch by batch, and is tried  *)
(* again as a whole when it fails.  The queue is in the API process        *)
(* ("memory") or in Redis with a worker process of its own, as the         *)
(* configuration says.                                                     *)
(***************************************************************************)
EXTENDS Integers, FiniteSets

CONSTANTS
    Notes, Students,
    Batch,          \* rows of one insert
    MaxAttempts,    \* attempts of a fan-out
    MaxChanges,     \* changes of the audience (bound)
    MaxStops        \* shutdowns and crashes (bound)

ASSUME NotificationsAssumption ==
    /\ IsFiniteSet(Students)
    /\ Batch \in Nat \ {0} /\ MaxAttempts \in Nat \ {0} /\ MaxChanges \in Nat /\ MaxStops \in Nat

VARIABLES
    driver,     \* config.queueDriver
    mode,       \* of the process that runs the jobs: "up", "closing" or "down"
    pub,        \* of each notification the request that publishes it: "none" (not yet),
                \* "created" (its row is written), "queued" (an audit row follows) or "ended"
    job,        \* of each notification its fan-out: where it is, how often it has failed, and
                \* whether it was taken for stalled once
    todo,       \* students an active fan-out has yet to insert, when it has looked them up
    inbox,      \* notification_recipients: "none", "unread" or "read"
    audience,   \* active students that the audience describes now
    changes, stops,
    steady,     \* history: of each notification the students in the audience ever since its row
    ever        \* history: and those that have been in it at some moment since

vars == <<driver, mode, pub, job, todo, inbox, audience, changes, stops, steady, ever>>

Init ==
    /\ driver \in {"memory", "redis"} /\ mode = "up"
    /\ pub = [n \in Notes |-> "none"]
    /\ job = [n \in Notes |-> [at |-> "none", failures |-> 0, stalled |-> FALSE]]
    /\ todo = [n \in Notes |-> {}]
    /\ inbox = [n \in Notes |-> [s \in Students |-> "none"]]
    /\ audience \in SUBSET Students
    /\ changes = 0 /\ stops = 0
    /\ steady = [n \in Notes |-> {}] /\ ever = [n \in Notes |-> {}]

TypeOK ==
    /\ driver \in {"memory", "redis"} /\ mode \in {"up", "closing", "down"}
    /\ pub \in [Notes -> {"none", "created", "queued", "ended"}]
    /\ job \in [Notes -> [at : {"none", "waiting", "active", "inserting", "done", "failed", "lost"},
                          failures : 0 .. MaxAttempts, stalled : BOOLEAN]]
    /\ todo \in [Notes -> SUBSET Students]
    /\ inbox \in [Notes -> [Students -> {"none", "unread", "read"}]]
    /\ audience \subseteq Students /\ changes \in 0 .. MaxChanges /\ stops \in 0 .. MaxStops
    /\ steady \in [Notes -> SUBSET Students] /\ ever \in [Notes -> SUBSET Students]
    /\ \A n \in Notes : /\ steady[n] \subseteq ever[n] /\ (pub[n] = "none" => ever[n] = {})
                        /\ pub[n] \in {"none", "created"} => job[n].at = "none" /\ job[n].failures = 0
                        /\ todo[n] # {} => job[n].at = "inserting"
                        /\ job[n].failures = MaxAttempts => job[n].at = "failed"

Active(n) == job[n].at \in {"active", "inserting"}
Recipients(n) == {s \in Students : inbox[n][s] # "none"}
Requesting(n) == pub[n] \in {"created", "queued"}

\* Where a notification can come from: the API, which with the memory driver is the process that
\* runs the jobs, or a job for a video, which goes on while that process is being closed.
Publishing == driver = "redis" \/ mode # "down"

History == UNCHANGED <<steady, ever>>
MoveJob(n, at) == job' = [job EXCEPT ![n].at = at]

(***************************************************************************)
(* publishNotification, sendAnnouncement                                   *)
(***************************************************************************)

CreateNotification(n) ==
    /\ Publishing /\ pub[n] = "none"
    /\ pub' = [pub EXCEPT ![n] = "created"]
    /\ steady' = [steady EXCEPT ![n] = audience] /\ ever' = [ever EXCEPT ![n] = audience]
    /\ UNCHANGED <<driver, mode, job, todo, inbox, audience, changes, stops>>

\* The queue takes the job (a memory queue that is closed drops it without a word), or the request
\* ends with an error (of an automatic notification it is logged only): the row stays, and nothing
\* queues its fan-out later.
EnqueueNotificationFanout(n) ==
    /\ pub[n] = "created"
    /\ \/ /\ pub' = [pub EXCEPT ![n] = "queued"]
          /\ MoveJob(n, IF driver = "memory" /\ mode = "closing" THEN "lost" ELSE "waiting")
       \/ pub' = [pub EXCEPT ![n] = "ended"] /\ UNCHANGED job
    /\ History /\ UNCHANGED <<driver, mode, todo, inbox, audience, changes, stops>>

\* The audit row of an announcement, or nothing.
Answer(n) ==
    /\ pub[n] = "queued"
    /\ pub' = [pub EXCEPT ![n] = "ended"]
    /\ History /\ UNCHANGED <<driver, mode, job, todo, inbox, audience, changes, stops>>

(***************************************************************************)
(* The fan-out job: runNotificationJob, deliverNotification                *)
(***************************************************************************)

Take(n) ==
    /\ mode = "up" /\ job[n].at = "waiting"
    /\ MoveJob(n, "active")
    /\ History /\ UNCHANGED <<driver, mode, pub, todo, inbox, audience, changes, stops>>

\* Every attempt looks the audience up anew.
ResolveAudience(n) ==
    /\ job[n].at = "active"
    /\ MoveJob(n, "inserting")
    /\ todo' = [todo EXCEPT ![n] = audience]
    /\ History /\ UNCHANGED <<driver, mode, pub, inbox, audience, changes, stops>>

\* Mutant: rows that are there already are written again.
InsertAgain(n) ==
    /\ job[n].at = "inserting"
    /\ \E rows \in SUBSET todo[n] :
        /\ Cardinality(rows) = Batch \/ (rows = todo[n] /\ rows # {} /\ Cardinality(rows) < Batch)
        /\ inbox' = [inbox EXCEPT ![n] = [s \in Students |-> IF s \in rows THEN "unread" ELSE @[s]]]
        /\ todo' = [todo EXCEPT ![n] = @ \ rows]
    /\ History /\ UNCHANGED <<driver, mode, pub, job, audience, changes, stops>>

\* Mutant: the first batch is taken for all.
InsertFirst(n) ==
    /\ job[n].at = "inserting"
    /\ \E rows \in SUBSET todo[n] :
        /\ Cardinality(rows) = Batch \/ (rows = todo[n] /\ rows # {} /\ Cardinality(rows) < Batch)
        /\ inbox' = [inbox EXCEPT ![n] = [s \in Students |-> IF s \in rows THEN "unread" ELSE @[s]]]
        /\ todo' = [todo EXCEPT ![n] = {}]
    /\ History /\ UNCHANGED <<driver, mode, pub, job, audience, changes, stops>>

\* The next batch, in the order of the database; rows that are there already are skipped.
InsertBatch(n) ==
    /\ job[n].at = "inserting"
    /\ \E rows \in SUBSET todo[n] :
        /\ Cardinality(rows) = Batch \/ (rows = todo[n] /\ rows # {} /\ Cardinality(rows) < Batch)
        /\ inbox' = [inbox EXCEPT ![n] = [s \in Students |->
                        IF s \in rows /\ @[s] = "none" THEN "unread" ELSE @[s]]]
        /\ todo' = [todo EXCEPT ![n] = @ \ rows]
    /\ History /\ UNCHANGED <<driver, mode, pub, job, audience, changes, stops>>

\* Mutant: the job does not wait for its last batch.
CompleteEarly(n) ==
    /\ job[n].at = "inserting"
    /\ MoveJob(n, "done")
    /\ History /\ UNCHANGED <<driver, mode, pub, todo, inbox, audience, changes, stops>>

Complete(n) ==
    /\ job[n].at = "inserting" /\ todo[n] = {}
    /\ MoveJob(n, "done")
    /\ History /\ UNCHANGED <<driver, mode, pub, todo, inbox, audience, changes, stops>>

\* Mutant: an attempt that fails is not counted.
AttemptForgotten(n) ==
    /\ Active(n)
    /\ MoveJob(n, "waiting")
    /\ todo' = [todo EXCEPT ![n] = {}]
    /\ History /\ UNCHANGED <<driver, mode, pub, inbox, audience, changes, stops>>

\* A query fails.  The job waits for its next attempt, fails for good, or, in a memory queue that
\* is being closed, goes away.
AttemptFails(n) ==
    LET failures == job[n].failures + 1
    IN  /\ Active(n)
        /\ job' = [job EXCEPT
                      ![n].at = IF failures = MaxAttempts THEN "failed"
                                ELSE IF driver = "memory" /\ mode = "closing" THEN "lost" ELSE "waiting",
                      ![n].failures = failures]
        /\ todo' = [todo EXCEPT ![n] = {}]
        /\ History /\ UNCHANGED <<driver, mode, pub, inbox, audience, changes, stops>>

(***************************************************************************)
(* The inbox of a student                                                  *)
(***************************************************************************)

MarkRead(s, n) ==
    /\ inbox[n][s] = "unread"
    /\ inbox' = [inbox EXCEPT ![n][s] = "read"]
    /\ History /\ UNCHANGED <<driver, mode, pub, job, todo, audience, changes, stops>>

MarkAllRead(s) ==
    /\ \E n \in Notes : inbox[n][s] = "unread"
    /\ inbox' = [n \in Notes |-> [inbox[n] EXCEPT ![s] = IF @ = "unread" THEN "read" ELSE @]]
    /\ History /\ UNCHANGED <<driver, mode, pub, job, todo, audience, changes, stops>>

\* A student is enrolled, granted or enabled, or is no longer.
AudienceChanges(s) ==
    /\ changes < MaxChanges /\ changes' = changes + 1
    /\ audience' = IF s \in audience THEN audience \ {s} ELSE audience \cup {s}
    /\ steady' = [n \in Notes |-> steady[n] \cap audience']
    /\ ever' = [n \in Notes |-> IF pub[n] = "none" THEN {} ELSE ever[n] \cup audience']
    /\ UNCHANGED <<driver, mode, pub, job, todo, inbox, stops>>

(***************************************************************************)
(* Shutdowns, crashes and restarts                                         *)
(***************************************************************************)

\* Closing a memory queue, which the API does once its requests are answered, drops what waits in
\* it.  A worker process stops taking jobs, which stay in Redis.
Shutdown ==
    /\ mode = "up" /\ stops < MaxStops /\ stops' = stops + 1
    /\ mode' = "closing"
    /\ job' = [n \in Notes |-> IF driver = "memory" /\ job[n].at = "waiting"
                               THEN [job[n] EXCEPT !.at = "lost"] ELSE job[n]]
    /\ History /\ UNCHANGED <<driver, pub, todo, inbox, audience, changes>>

\* The jobs under way are waited for, and so are notifications that come from them.
Exit ==
    /\ mode = "closing" /\ \A n \in Notes : ~Active(n) /\ (driver = "memory" => ~Requesting(n))
    /\ mode' = "down"
    /\ History /\ UNCHANGED <<driver, pub, job, todo, inbox, audience, changes, stops>>

\* The process that runs the jobs dies, or its shutdown takes too long.  What was in memory is
\* gone; a job of Redis is taken for stalled and waits again, the first time.
Crash ==
    /\ mode # "down" /\ stops < MaxStops /\ stops' = stops + 1
    /\ mode' = "down"
    /\ pub' = [n \in Notes |-> IF driver = "memory" /\ Requesting(n) THEN "ended" ELSE pub[n]]
    /\ job' = [n \in Notes |->
                  IF driver = "memory" /\ (Active(n) \/ job[n].at = "waiting")
                  THEN [job[n] EXCEPT !.at = "lost"]
                  ELSE IF Active(n)
                  THEN [job[n] EXCEPT !.at = IF job[n].stalled THEN "failed" ELSE "waiting", !.stalled = TRUE]
                  ELSE job[n]]
    /\ todo' = [n \in Notes |-> {}]
    /\ History /\ UNCHANGED <<driver, inbox, audience, changes>>

\* The API process dies beside the worker, or the worker's process with a job for a video.
ApiCrash ==
    /\ driver = "redis" /\ stops < MaxStops /\ stops' = stops + 1
    /\ \E dead \in SUBSET {n \in Notes : Requesting(n)} \ {{}} :
        pub' = [n \in Notes |-> IF n \in dead THEN "ended" ELSE pub[n]]
    /\ History /\ UNCHANGED <<driver, mode, job, todo, inbox, audience, changes>>

\* Only uploads are resumed at the start of the embedded worker.
Boot ==
    /\ mode = "down"
    /\ mode' = "up"
    /\ History /\ UNCHANGED <<driver, pub, job, todo, inbox, audience, changes, stops>>

Worker(n) == Take(n) \/ ResolveAudience(n) \/ InsertBatch(n) \/ Complete(n) \/ AttemptFails(n)

Next ==
    \/ \E n \in Notes : CreateNotification(n) \/ EnqueueNotificationFanout(n) \/ Answer(n) \/ Worker(n)
    \/ \E s \in Students : MarkAllRead(s) \/ AudienceChanges(s) \/ \E n \in Notes : MarkRead(s, n)
    \/ Shutdown \/ Exit \/ Crash \/ ApiCrash \/ Boot

\* The process is started again, a job that is taken goes on, and so is a job that waits.
Spec == Init /\ [][Next]_vars /\ WF_vars(Boot \/ Exit) /\ \A n \in Notes : WF_vars(Worker(n))

(***************************************************************************)
(* Properties                                                              *)
(***************************************************************************)

\* A fan-out that is done has reached everybody who was in the audience from the notification's
\* row on, and nobody who never was since, whatever batches and attempts it took and whoever came
\* or left between them.
DeliveredToAudience ==
    \A n \in Notes : /\ job[n].at = "done" => steady[n] \subseteq Recipients(n)
                     /\ Recipients(n) \subseteq ever[n]

\* What a student has read stays read, and what has been delivered stays: a later attempt that
\* comes across the row leaves it alone.
ReadStaysRead ==
    [][\A n \in Notes, s \in Students :
        /\ inbox[n][s] = "read" => inbox'[n][s] = "read"
        /\ inbox[n][s] # "none" => inbox'[n][s] # "none"]_inbox

\* A fan-out that is queued ends, through failures, shutdowns and crashes: it is done, has used up
\* its attempts or stalled twice, or was in the memory of a process that stopped.
FanoutSettles ==
    \A n \in Notes : job[n].at = "waiting" ~> job[n].at \in {"done", "failed", "lost"}

=============================================================================
