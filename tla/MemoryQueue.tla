---------------------------- MODULE MemoryQueue ----------------------------
(***************************************************************************)
(* The in-process job queue that replaces BullMQ when no Redis is          *)
(* configured.  Everything runs on one thread: a call, a timer and the     *)
(* code after an await each run to their end, and a step of this module is *)
(* one of those, with the pump it calls.  The handler's own work lies      *)
(* between the step that starts a job and the one that settles it.         *)
(***************************************************************************)
EXTENDS Integers, Sequences

CONSTANTS
    Ids,            \* job ids
    NoId,           \* "no job" in a free slot
    Slots,          \* there are as many as the queue's concurrency
    MaxAttempts,    \* MemoryJobOptions.attempts
    Callers,        \* those who may await onIdle
    MaxAdds         \* calls of add that are accepted (bound)

ASSUME IdsAssumption == NoId \notin Ids
ASSUME AttemptsAssumption == MaxAttempts \in Nat \ {0}
ASSUME AddsAssumption == MaxAdds \in Nat

VARIABLES
    handler,    \* process() was called
    phase,      \* "open", "closing" (closed is set, the running jobs are awaited), "closed"
    waiting,    \* the entries that wait for a slot, first come first served
    known,      \* ids that are waiting, running or scheduled for a retry
    timers,     \* retryTimers: the entries whose attempt failed
    run,        \* running: what each slot executes
    waiters,    \* idleWaiters
    adds        \* accepted calls so far (bound)

vars == <<handler, phase, waiting, known, timers, run, waiters, adds>>

Entry(id, a) == [id |-> id, attempt |-> a]
Slot(pc, e)  == [pc |-> pc, job |-> e]
Free         == Slot("free", Entry(NoId, 0))

Init ==
    /\ handler = FALSE
    /\ phase = "open"
    /\ waiting = <<>>
    /\ known = {} /\ timers = {}
    /\ run = [s \in Slots |-> Free]
    /\ waiters = {}
    /\ adds = 0

FreeSlots(r) == {s \in Slots : r[s].pc = "free"}

\* pump, with the queue q and the slots r: the first n jobs start, each in a free slot,
\* until the queue is empty or every slot is taken.  `h` is the handler after the step.
Pump(h, q, r) ==
    IF h /\ phase = "open"
    THEN \E n \in 0 .. Len(q) : \E slot \in [1 .. n -> FreeSlots(r)] :
            /\ \A i, j \in 1 .. n : slot[i] = slot[j] => i = j
            /\ n = Len(q) \/ \A s \in FreeSlots(r) : \E i \in 1 .. n : slot[i] = s
            /\ waiting' = SubSeq(q, n + 1, Len(q))
            /\ run' = [s \in Slots |->
                          IF \E i \in 1 .. n : slot[i] = s
                          THEN Slot("handling", q[CHOOSE i \in 1 .. n : slot[i] = s])
                          ELSE r[s]]
    ELSE waiting' = q /\ run' = r

(***************************************************************************)
(* The calls.                                                              *)
(***************************************************************************)
Process ==
    /\ ~handler
    /\ handler' = TRUE
    /\ Pump(TRUE, waiting, run)
    /\ UNCHANGED <<phase, known, timers, waiters, adds>>

\* The calls that return false change nothing.
Add(id) ==
    /\ phase = "open" /\ id \notin known /\ adds < MaxAdds
    /\ known' = known \cup {id}
    /\ adds' = adds + 1
    /\ Pump(handler, Append(waiting, Entry(id, 1)), run)
    /\ UNCHANGED <<handler, phase, timers, waiters>>

\* A call that finds nothing pending resolves at once.
OnIdle(c) ==
    /\ c \notin waiters /\ known # {}
    /\ waiters' = waiters \cup {c}
    /\ UNCHANGED <<handler, phase, waiting, known, timers, run, adds>>

\* close() up to its await.  A second call would find nothing left to clear.
Close ==
    /\ phase = "open"
    /\ phase' = "closing"
    /\ timers' = {} /\ waiting' = <<>>
    /\ UNCHANGED <<handler, known, run, waiters, adds>>

\* close() after its await: every running job has settled.
CloseDone ==
    /\ phase = "closing"
    /\ FreeSlots(run) = Slots
    /\ phase' = "closed"
    /\ known' = {} /\ waiters' = {}
    /\ UNCHANGED <<handler, waiting, timers, run, adds>>

(***************************************************************************)
(* The jobs.  execute() goes on when the handler's promise settles, and    *)
(* the slot becomes free in the callback of finally, some time later.      *)
(***************************************************************************)
Settle(s) == run' = [run EXCEPT ![s].pc = "settled"]

HandlerReturns(s) ==
    /\ run[s].pc = "handling"
    /\ known' = known \ {run[s].job.id}
    /\ Settle(s)
    /\ UNCHANGED <<handler, phase, waiting, timers, waiters, adds>>

\* Mutant: the id is forgotten while the job waits for its retry.
HandlerThrowsForgetting(s, retryable) ==
    LET job == run[s].job IN
    /\ run[s].pc = "handling"
    /\ known' = known \ {job.id}
    /\ IF phase = "open" /\ retryable /\ job.attempt < MaxAttempts
       THEN timers' = timers \cup {job}
       ELSE UNCHANGED timers
    /\ Settle(s)
    /\ UNCHANGED <<handler, phase, waiting, waiters, adds>>

\* Mutant: a retry is scheduled although the queue was closed.
HandlerThrowsAfterClose(s, retryable) ==
    LET job == run[s].job IN
    /\ run[s].pc = "handling"
    /\ IF retryable /\ job.attempt < MaxAttempts
       THEN timers' = timers \cup {job} /\ UNCHANGED known
       ELSE known' = known \ {job.id} /\ UNCHANGED timers
    /\ Settle(s)
    /\ UNCHANGED <<handler, phase, waiting, waiters, adds>>

\* The handler rejects; retryable: not with a NonRetryableJobError.
HandlerThrows(s, retryable) ==
    LET job == run[s].job IN
    /\ run[s].pc = "handling"
    /\ IF phase = "open" /\ retryable /\ job.attempt < MaxAttempts
       THEN timers' = timers \cup {job} /\ UNCHANGED known
       ELSE known' = known \ {job.id} /\ UNCHANGED timers
    /\ Settle(s)
    /\ UNCHANGED <<handler, phase, waiting, waiters, adds>>

\* Mutant: those who await onIdle are told only when the queue closes.
FinallySilent(s) ==
    /\ run[s].pc = "settled"
    /\ Pump(handler, waiting, [run EXCEPT ![s] = Free])
    /\ UNCHANGED <<handler, phase, known, timers, waiters, adds>>

\* The slot is free, the next job starts, and whoever awaits onIdle is told.
Finally(s) ==
    /\ run[s].pc = "settled"
    /\ Pump(handler, waiting, [run EXCEPT ![s] = Free])
    /\ waiters' = IF known = {} THEN {} ELSE waiters
    /\ UNCHANGED <<handler, phase, known, timers, adds>>

\* Mutant: the job is put in the queue and the queue is not pumped.
TimerFiresUnpumped(e) ==
    /\ e \in timers
    /\ timers' = timers \ {e}
    /\ waiting' = Append(waiting, Entry(e.id, e.attempt + 1))
    /\ UNCHANGED <<handler, phase, known, run, waiters, adds>>

TimerFires(e) ==
    /\ e \in timers
    /\ timers' = timers \ {e}
    /\ Pump(handler, Append(waiting, Entry(e.id, e.attempt + 1)), run)
    /\ UNCHANGED <<handler, phase, known, waiters, adds>>

Next ==
    \/ Process
    \/ \E id \in Ids : Add(id)
    \/ \E c \in Callers : OnIdle(c)
    \/ Close \/ CloseDone
    \/ \E s \in Slots :
          \/ HandlerReturns(s)
          \/ \E retryable \in BOOLEAN : HandlerThrows(s, retryable)
          \/ Finally(s)
    \/ \E e \in timers : TimerFires(e)

Spec == Init /\ [][Next]_vars

\* The worker that owns the queue calls process, handlers settle, callbacks and timers
\* run.  Nobody has to add a job or close the queue.
HandlerSettles(s) ==
    HandlerReturns(s) \/ \E retryable \in BOOLEAN : HandlerThrows(s, retryable)

Fairness ==
    /\ WF_vars(Process) /\ WF_vars(CloseDone)
    /\ \A s \in Slots : WF_vars(HandlerSettles(s)) /\ WF_vars(Finally(s))
    /\ WF_vars(\E e \in timers : TimerFires(e))

FairSpec == Spec /\ Fairness

(***************************************************************************)
(* Properties.                                                             *)
(***************************************************************************)
EntryType == [id : Ids, attempt : 1 .. MaxAttempts]
SlotType  == {Free} \cup [pc : {"handling", "settled"}, job : EntryType]

\* The values every variable may take; in particular no attempt is numbered above the
\* limit.
TypeOK ==
    /\ handler \in BOOLEAN
    /\ phase \in {"open", "closing", "closed"}
    /\ waiting \in Seq(EntryType)
    /\ known \in SUBSET Ids
    /\ timers \in SUBSET EntryType
    /\ run \in [Slots -> SlotType]
    /\ waiters \in SUBSET Callers
    /\ adds \in 0 .. MaxAdds

Handling == {s \in Slots : run[s].pc = "handling"}
Queued   == {waiting[i].id : i \in DOMAIN waiting}
Delayed  == {e.id : e \in timers}
Handled  == {run[s].job.id : s \in Handling}

WaitsOnce  == \A i, j \in DOMAIN waiting : waiting[i].id = waiting[j].id => i = j
DelaysOnce == \A e, f \in timers : e.id = f.id => e = f
RunsOnce   == \A s, t \in Handling : run[s].job.id = run[t].job.id => s = t
OnePlace   == Queued \cap Delayed = {} /\ Queued \cap Handled = {} /\ Delayed \cap Handled = {}
KnownHeld  == /\ Queued \cup Delayed \cup Handled \subseteq known
              /\ phase = "open" => known \subseteq Queued \cup Delayed \cup Handled

\* "Ids that are waiting, running or scheduled for a retry": the de-duplication of add
\* rests on known being exactly that, and every job being in one of the three places,
\* once, so that no job runs beside itself and none is refused that has ended.
HeldOnce == WaitsOnce /\ DelaysOnce /\ RunsOnce /\ OnePlace /\ KnownHeld

\* No job waits beside a free slot: every step that frees a slot or puts a job in the
\* queue also pumps, since nothing else would start that job.
NoIdleSlot ==
    handler /\ phase = "open" /\ waiting # <<>> => FreeSlots(run) = {}

\* onIdle "resolves once no job is waiting, running or scheduled for a retry", and never
\* before.
Quiet == waiting = <<>> /\ timers = {} /\ Handling = {}
IdleMeansIdle == [][waiters \subseteq waiters' \/ Quiet']_vars

\* Whoever awaits onIdle is answered, be it through a close, once jobs stop being added.
WaitersAnswered == \A c \in Callers : c \in waiters ~> c \notin waiters

\* What the rest of the backend relies on: the queue implements JobQueue.
State(id) == IF id \in Handled THEN "running"
             ELSE IF id \in Queued \cup Delayed THEN "pending" ELSE "absent"
\* The entry of a job that waits holds the attempt it will begin.
Tries(id) ==
    IF id \in Handled THEN run[CHOOSE s \in Handling : run[s].job.id = id].job.attempt
    ELSE IF id \in Delayed THEN (CHOOSE e \in timers : e.id = id).attempt
    ELSE IF id \in Queued THEN waiting[CHOOSE i \in DOMAIN waiting : waiting[i].id = id].attempt - 1
    ELSE 0
JobState == [id \in Ids |-> State(id)]
JobTries == [id \in Ids |-> Tries(id)]
Jobs == INSTANCE JobQueue WITH open <- (phase = "open"), state <- JobState, tries <- JobTries
ImplementsJobQueue == Jobs!Spec

============================================================================
