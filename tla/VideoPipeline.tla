--------------------------- MODULE VideoPipeline ---------------------------
(***************************************************************************)
(* The upload-to-HLS pipeline of the backend when no Redis is configured:  *)
(* one process serves the API, keeps the video queue in memory, runs the   *)
(* video worker and the maintenance sweep.  The rows of the tables videos, *)
(* upload_jobs and video_assets and the files under the storage root       *)
(* survive a crash; everything else is lost with the process.              *)
(*                                                                         *)
(* Every `await` of the code that touches the database or the disk is the  *)
(* end of a step, so requests, encodes and the sweep interleave there.     *)
(***************************************************************************)
EXTENDS Integers, FiniteSets

CONSTANTS
    Videos,         \* ids of the videos
    NoVideo,        \* "no video" in the records below
    MaxJobs,        \* upload jobs that may be created in all (bound)
    TotalChunks,    \* chunks of an upload
    Requests,       \* API requests that may be in flight together (bound)
    Workers,        \* slots of the queue: VIDEO_WORKER_CONCURRENCY
    MaxAttempts,    \* JobPolicy.video.attempts
    FaultPoints,    \* steps of a run at which the disk or the database may fail
    MaxStops,       \* crashes and shutdowns (bound)
    MaxSweeps       \* runs of the task cleanup-stale-uploads (bound)

Jobs == 1 .. MaxJobs        \* in the order of created_at
Chunks == 0 .. TotalChunks - 1

VideoStatus == {"NONE", "UPLOADING", "PROCESSING", "READY", "FAILED"}
JobStatus == {"NONE", "UPLOADING", "QUEUED", "PROCESSING", "COMPLETED", "FAILED",
              "CANCELLED"}

\* processVideoJob up to its publishing transaction, and after it.
EarlySteps == {"mark", "assemble", "encode", "unpublish", "publish", "previous",
               "commit"}
LateSteps == {"dropPrevious", "clean", "announce"}
\* runVideoJob's catch block and the queue's.
ErrorSteps == {"error", "permanent", "failed", "backoff"}

ASSUME VideosAssumption == NoVideo \notin Videos
ASSUME BoundsAssumption ==
    /\ MaxJobs \in Nat \ {0} /\ TotalChunks \in Nat \ {0}
    /\ MaxStops \in Nat /\ MaxSweeps \in Nat
ASSUME AttemptsAssumption == MaxAttempts \in Nat \ {0}
ASSUME FaultsAssumption ==
    FaultPoints \subseteq {"read"} \cup EarlySteps \cup LateSteps
                        \cup {"error", "permanent", "failed"}

VARIABLES
    (* The database *)
    vstat,      \* videos.status
    asset,      \* video_assets.storage_key: the job whose output it names, 0 if no row
    jstat,      \* upload_jobs.status
    jvid,       \* upload_jobs.video_id
    old,        \* jobs whose updated_at is past the sweep's threshold
    announced,  \* jobs whose readiness was published as a notification
    (* The disk *)
    chunks,     \* tmp/uploads/<job>/<index>.part
    source,     \* jobs with an assembled source in tmp/work/<job>
    hls,        \* videos/<video>/<job>: the published directories of a video
    touched,    \* old jobs that got a chunk after they became old
    (* The process *)
    mode,       \* "up", "closing" (SIGTERM seen, queues closed) or "down"
    req,        \* the API requests in flight
    sweep,      \* the maintenance run
    waiting,    \* MemoryQueue.waiting, as a set of entries
    timers,     \* MemoryQueue.retryTimers, with the entry each holds
    known,      \* MemoryQueue.known
    run,        \* MemoryQueue.running: what each slot executes
    (* Bounds and history *)
    stops, sweeps,
    revived,    \* history: FAILED jobs that the queue was left to try again
    published   \* history: jobs whose publishing transaction committed

db      == <<vstat, asset, jstat, jvid, old, announced>>
disk    == <<chunks, source, hls, touched>>
queue   == <<waiting, timers, known, run>>
bounds  == <<stops, sweeps, revived>>
vars    == <<db, disk, mode, req, sweep, queue, bounds, published>>

Entry(j, a) == [job |-> j, attempt |-> a]
Slot(pc, j, a, p) == [pc |-> pc, job |-> j, attempt |-> a, prev |-> p]
Request(pc, v, j, i, P) == [pc |-> pc, vid |-> v, job |-> j, idx |-> i, prev |-> P]
SweepAt(pc, j, S) == [pc |-> pc, job |-> j, todo |-> S]
IdleRun     == Slot("idle", 0, 0, 0)
IdleRequest == Request("idle", NoVideo, 0, 0, {})
IdleSweep   == SweepAt("idle", 0, {})

Init ==
    /\ vstat = [v \in Videos |-> "NONE"]
    /\ asset = [v \in Videos |-> 0]
    /\ jstat = [j \in Jobs |-> "NONE"]
    /\ jvid = [j \in Jobs |-> NoVideo]
    /\ old = {} /\ announced = {}
    /\ chunks = [j \in Jobs |-> {}]
    /\ source = {} /\ touched = {}
    /\ hls = [v \in Videos |-> {}]
    /\ mode = "up"
    /\ req = [r \in Requests |-> IdleRequest]
    /\ sweep = IdleSweep
    /\ waiting = {} /\ timers = {} /\ known = {}
    /\ run = [w \in Workers |-> IdleRun]
    /\ stops = 0 /\ sweeps = 0
    /\ revived = {} /\ published = {}

(***************************************************************************)
(* Helpers.                                                                *)
(***************************************************************************)
JobsOf(v) == {j \in Jobs : jvid[j] = v}

\* uploadJobs ordered by created_at desc, take 1.
IsLatestJob(j, v) == j \in JobsOf(v) /\ \A i \in JobsOf(v) : i <= j

\* activeUploadJob: the latest job, and only while it is UPLOADING.
IsActiveUpload(j, v) == IsLatestJob(j, v) /\ jstat[j] = "UPLOADING"

\* The row the next uploadJob.create inserts.
IsNextJob(j) == jstat[j] = "NONE" /\ \A i \in Jobs : i < j => jstat[i] # "NONE"

\* Every write to a row of upload_jobs refreshes its updated_at.
Touch(S) == old' = old \ S /\ touched' = touched \ S

\* MemoryQueue.add: a job that is already pending, or a closed queue, is left alone.
Enqueue(j) ==
    IF mode = "up" /\ j \notin known
    THEN known' = known \cup {j} /\ waiting' = waiting \cup {Entry(j, 1)}
    ELSE UNCHANGED <<known, waiting>>

(***************************************************************************)
(* The API.  A request reads, then acts on what it read: between two of    *)
(* its steps anything else may happen.                                     *)
(***************************************************************************)
Goto(r, pc) == req' = [req EXCEPT ![r] = Request(pc, req[r].vid, req[r].job, req[r].idx,
                                                 req[r].prev)]
Respond(r)  == req' = [req EXCEPT ![r] = IdleRequest]

\* POST /videos: the video and its first upload job in one transaction.
CreateVideoUpload(v, j) ==
    /\ mode = "up" /\ vstat[v] = "NONE" /\ IsNextJob(j)
    /\ vstat' = [vstat EXCEPT ![v] = "UPLOADING"]
    /\ jstat' = [jstat EXCEPT ![j] = "UPLOADING"]
    /\ jvid' = [jvid EXCEPT ![j] = v]
    /\ Touch({j})
    /\ UNCHANGED <<asset, announced, chunks, source, hls, mode, req, sweep, queue,
                   bounds, published>>

\* PUT .../upload/chunks/:index reads the active job ...
ReceiveChunk(r, v, j, i) ==
    /\ mode = "up" /\ req[r].pc = "idle" /\ IsActiveUpload(j, v)
    /\ req' = [req EXCEPT ![r] = Request("chunk", v, j, i, {})]
    /\ UNCHANGED <<db, disk, mode, sweep, queue, bounds, published>>

\* ... and, when the body has arrived whole, renames it into the job's directory,
\* which it has created if need be.  No row is written.
ChunkStored(r) ==
    LET j == req[r].job IN
    /\ req[r].pc = "chunk"
    /\ chunks' = [chunks EXCEPT ![j] = @ \cup {req[r].idx}]
    /\ touched' = IF j \in old THEN touched \cup {j} ELSE touched
    /\ Respond(r)
    /\ UNCHANGED <<db, source, hls, mode, sweep, queue, bounds, published>>

ChunkFailed(r) ==
    /\ req[r].pc = "chunk"
    /\ Respond(r)
    /\ UNCHANGED <<db, disk, mode, sweep, queue, bounds, published>>

\* POST .../upload/complete reads the active job, then the directory.
CompleteUpload(r, v, j) ==
    /\ mode = "up" /\ req[r].pc = "idle" /\ IsActiveUpload(j, v)
    /\ req' = [req EXCEPT ![r] = Request("check", v, j, 0, {})]
    /\ UNCHANGED <<db, disk, mode, sweep, queue, bounds, published>>

CompleteCheck(r) ==
    /\ req[r].pc = "check"
    /\ IF chunks[req[r].job] = Chunks THEN Goto(r, "accept") ELSE Respond(r)
    /\ UNCHANGED <<db, disk, mode, sweep, queue, bounds, published>>

\* The transaction: nothing is written unless the job is still UPLOADING.
CompleteAccept(r) ==
    LET j == req[r].job IN
    /\ req[r].pc = "accept"
    /\ jstat[j] = "UPLOADING"
    /\ jstat' = [jstat EXCEPT ![j] = "QUEUED"]
    /\ vstat' = [vstat EXCEPT ![req[r].vid] = "PROCESSING"]
    /\ Touch({j})
    /\ Goto(r, "enqueue")
    /\ UNCHANGED <<asset, jvid, announced, chunks, source, hls, mode, sweep, queue,
                   bounds, published>>

CompleteRefused(r) ==
    /\ req[r].pc = "accept"
    /\ jstat[req[r].job] # "UPLOADING"
    /\ Respond(r)
    /\ UNCHANGED <<db, disk, mode, sweep, queue, bounds, published>>

CompleteEnqueue(r) ==
    /\ req[r].pc = "enqueue"
    /\ Enqueue(req[r].job)
    /\ Respond(r)
    /\ UNCHANGED <<db, disk, mode, sweep, timers, run, bounds, published>>

\* Mutant: a video that is being processed may be restarted.
RestartUploadWhileProcessing(r, v) ==
    /\ mode = "up" /\ req[r].pc = "idle"
    /\ vstat[v] \in {"UPLOADING", "PROCESSING", "FAILED"}
    /\ \E j \in Jobs : jstat[j] = "NONE"
    /\ req' = [req EXCEPT ![r] =
                 Request("restart", v, 0, 0,
                         {j \in JobsOf(v) : jstat[j] \in {"UPLOADING", "FAILED"}})]
    /\ UNCHANGED <<db, disk, mode, sweep, queue, bounds, published>>

\* POST .../upload/restart reads the video and its UPLOADING and FAILED jobs ...
RestartUpload(r, v) ==
    /\ mode = "up" /\ req[r].pc = "idle"
    /\ vstat[v] \in {"UPLOADING", "FAILED"}
    /\ \E j \in Jobs : jstat[j] = "NONE"
    /\ req' = [req EXCEPT ![r] =
                 Request("restart", v, 0, 0,
                         {j \in JobsOf(v) : jstat[j] \in {"UPLOADING", "FAILED"}})]
    /\ UNCHANGED <<db, disk, mode, sweep, queue, bounds, published>>

\* ... then cancels what is UPLOADING now and inserts the new job, without looking
\* at the video's status again ...
RestartCommit(r, j) ==
    LET v == req[r].vid
        cancelled == {i \in JobsOf(v) : jstat[i] = "UPLOADING"}
    IN
    /\ req[r].pc = "restart" /\ IsNextJob(j)
    /\ jstat' = [i \in Jobs |-> IF i = j THEN "UPLOADING"
                                ELSE IF i \in cancelled THEN "CANCELLED" ELSE jstat[i]]
    /\ jvid' = [jvid EXCEPT ![j] = v]
    /\ vstat' = [vstat EXCEPT ![v] = "UPLOADING"]
    /\ Touch({j} \cup cancelled)
    /\ Goto(r, "purge")
    /\ UNCHANGED <<asset, announced, chunks, source, hls, mode, sweep, queue, bounds,
                   published>>

RestartFailed(r) ==
    /\ req[r].pc = "restart"
    /\ Respond(r)
    /\ UNCHANGED <<db, disk, mode, sweep, queue, bounds, published>>

\* ... and last removes the chunks of the jobs it read first.
RestartPurge(r) ==
    /\ req[r].pc = "purge"
    /\ chunks' = [j \in Jobs |-> IF j \in req[r].prev THEN {} ELSE chunks[j]]
    /\ Respond(r)
    /\ UNCHANGED <<db, source, hls, touched, mode, sweep, queue, bounds, published>>

RequestStep(r) ==
    \/ ChunkStored(r) \/ ChunkFailed(r)
    \/ CompleteCheck(r) \/ CompleteAccept(r) \/ CompleteRefused(r) \/ CompleteEnqueue(r)
    \/ \E j \in Jobs : RestartCommit(r, j)
    \/ RestartFailed(r) \/ RestartPurge(r)

(***************************************************************************)
(* The maintenance sweep (cleanupStaleUploads).  It runs as a job of a     *)
(* queue of concurrency 1, so there is one at a time.                      *)
(***************************************************************************)

\* Time passes: three days for a job that is UPLOADING, 15 minutes for a QUEUED one.
Age(j) ==
    /\ jstat[j] \in {"UPLOADING", "QUEUED"}
    /\ MaxSweeps > 0 /\ sweeps < MaxSweeps
    /\ j \notin old \/ j \in touched
    /\ old' = old \cup {j}
    /\ touched' = touched \ {j}
    /\ UNCHANGED <<vstat, asset, jstat, jvid, announced, chunks, source, hls, mode, req,
                   sweep, queue, bounds, published>>

SweepBegin ==
    /\ mode = "up" /\ sweep.pc = "idle" /\ sweeps < MaxSweeps
    /\ sweeps' = sweeps + 1
    /\ sweep' = SweepAt("cancel", 0, {j \in old : jstat[j] = "UPLOADING"})
    /\ UNCHANGED <<db, disk, mode, req, queue, stops, revived, published>>

\* The job is cancelled by id, whatever its status is by now.
SweepCancel(j) ==
    LET v == jvid[j] IN
    /\ sweep.pc = "cancel" /\ j \in sweep.todo
    /\ jstat' = [jstat EXCEPT ![j] = "CANCELLED"]
    /\ vstat' = [vstat EXCEPT ![v] = IF @ = "UPLOADING" THEN "FAILED" ELSE @]
    /\ Touch({j})
    /\ sweep' = SweepAt("purge", j, sweep.todo \ {j})
    /\ UNCHANGED <<asset, jvid, announced, chunks, source, hls, mode, req, queue, bounds,
                   published>>

SweepPurge ==
    /\ sweep.pc = "purge"
    /\ chunks' = [chunks EXCEPT ![sweep.job] = {}]
    /\ sweep' = SweepAt("cancel", 0, sweep.todo)
    /\ UNCHANGED <<db, source, hls, touched, mode, req, queue, bounds, published>>

SweepFindStuck ==
    /\ sweep.pc = "cancel" /\ sweep.todo = {}
    /\ sweep' = SweepAt("requeue", 0, {j \in old : jstat[j] = "QUEUED"})
    /\ UNCHANGED <<db, disk, mode, req, queue, bounds, published>>

SweepRequeue(j) ==
    /\ sweep.pc = "requeue" /\ j \in sweep.todo
    /\ Enqueue(j)
    /\ sweep' = SweepAt("requeue", 0, sweep.todo \ {j})
    /\ UNCHANGED <<db, disk, mode, req, timers, run, bounds, published>>

SweepEnd ==
    /\ sweep.pc = "requeue" /\ sweep.todo = {}
    /\ sweep' = IdleSweep
    /\ UNCHANGED <<db, disk, mode, req, queue, bounds, published>>

SweepStep ==
    \/ \E j \in Jobs : SweepCancel(j) \/ SweepRequeue(j)
    \/ SweepPurge \/ SweepFindStuck \/ SweepEnd

(***************************************************************************)
(* The worker: a slot of the queue runs runVideoJob, which runs            *)
(* processVideoJob and deals with its errors.                              *)
(***************************************************************************)
Proceed(w, pc) == run' = [run EXCEPT ![w] = Slot(pc, run[w].job, run[w].attempt, run[w].prev)]

\* The handler is done with the job for good: execute's known.delete.
Finish(w) ==
    /\ run' = [run EXCEPT ![w] = IdleRun]
    /\ known' = known \ {run[w].job}

\* pump: a free slot takes a waiting job.  The order of the queue is left open.
Start(w, e) ==
    /\ mode = "up" /\ run[w].pc = "idle" /\ e \in waiting
    /\ waiting' = waiting \ {e}
    /\ run' = [run EXCEPT ![w] = Slot("read", e.job, e.attempt, 0)]
    /\ UNCHANGED <<db, disk, mode, req, sweep, timers, known, bounds, published>>

\* A job that has nothing to process is skipped; a FAILED one is not.
RunSkip(w) ==
    /\ run[w].pc = "read"
    /\ jstat[run[w].job] \in {"COMPLETED", "CANCELLED", "UPLOADING"}
    /\ Finish(w)
    /\ UNCHANGED <<db, disk, mode, req, sweep, waiting, timers, bounds, published>>

\* Mutant: a job that is done is processed again.
RunReadDone(w) ==
    /\ run[w].pc = "read"
    /\ jstat[run[w].job] \in {"QUEUED", "PROCESSING", "FAILED", "COMPLETED"}
    /\ Proceed(w, "mark")
    /\ UNCHANGED <<db, disk, mode, req, sweep, waiting, timers, known, bounds, published>>

RunRead(w) ==
    /\ run[w].pc = "read"
    /\ jstat[run[w].job] \in {"QUEUED", "PROCESSING", "FAILED"}
    /\ Proceed(w, "mark")
    /\ UNCHANGED <<db, disk, mode, req, sweep, waiting, timers, known, bounds, published>>

RunMark(w) ==
    LET j == run[w].job IN
    /\ run[w].pc = "mark"
    /\ jstat' = [jstat EXCEPT ![j] = "PROCESSING"]
    /\ Touch({j})
    /\ Proceed(w, "assemble")
    /\ UNCHANGED <<vstat, asset, jvid, announced, chunks, source, hls, mode, req, sweep,
                   waiting, timers, known, bounds, published>>

\* assembleSource: a source left by an earlier attempt is taken, else the chunks are
\* concatenated; a chunk that is not there is an ordinary error.
RunAssemble(w) ==
    LET j == run[w].job
        ready == j \in source \/ chunks[j] = Chunks
    IN
    /\ run[w].pc = "assemble"
    /\ source' = IF ready THEN source \cup {j} ELSE source
    /\ Proceed(w, IF ready THEN "encode" ELSE "error")
    /\ UNCHANGED <<db, chunks, hls, touched, mode, req, sweep, waiting, timers, known,
                   bounds, published>>

\* Probe, transcode, segment and encrypt into the private work directory.
RunEncode(w) ==
    /\ run[w].pc = "encode"
    /\ Proceed(w, "unpublish")
    /\ UNCHANGED <<db, disk, mode, req, sweep, waiting, timers, known, bounds, published>>

\* The upload is not a video.
RunNotAVideo(w) ==
    /\ run[w].pc = "encode"
    /\ Proceed(w, "permanent")
    /\ UNCHANGED <<db, disk, mode, req, sweep, waiting, timers, known, bounds, published>>

\* fs.rm of the target directory, then the rename of the output to it.
RunUnpublish(w) ==
    LET j == run[w].job IN
    /\ run[w].pc = "unpublish"
    /\ hls' = [hls EXCEPT ![jvid[j]] = @ \ {j}]
    /\ Proceed(w, "publish")
    /\ UNCHANGED <<db, chunks, source, touched, mode, req, sweep, waiting, timers, known,
                   bounds, published>>

RunPublish(w) ==
    LET j == run[w].job IN
    /\ run[w].pc = "publish"
    /\ hls' = [hls EXCEPT ![jvid[j]] = @ \cup {j}]
    /\ Proceed(w, "previous")
    /\ UNCHANGED <<db, chunks, source, touched, mode, req, sweep, waiting, timers, known,
                   bounds, published>>

Remember(w, p) == run' = [run EXCEPT ![w] = Slot("commit", run[w].job, run[w].attempt, p)]

\* Mutant: the previous asset goes before the transaction.
RunPreviousDropped(w) ==
    LET v == jvid[run[w].job] IN
    /\ run[w].pc = "previous"
    /\ Remember(w, asset[v])
    /\ hls' = [hls EXCEPT ![v] = hls[v] \ {asset[v]}]
    /\ UNCHANGED <<db, chunks, source, touched, mode, req, sweep, waiting, timers, known,
                   bounds, published>>

\* The asset row as it was before this job.
RunPrevious(w) ==
    /\ run[w].pc = "previous"
    /\ Remember(w, asset[jvid[run[w].job]])
    /\ UNCHANGED <<db, disk, mode, req, sweep, waiting, timers, known, bounds, published>>

\* The publishing transaction.
RunCommit(w) ==
    LET j == run[w].job IN
    /\ run[w].pc = "commit"
    /\ asset' = [asset EXCEPT ![jvid[j]] = j]
    /\ vstat' = [vstat EXCEPT ![jvid[j]] = "READY"]
    /\ jstat' = [jstat EXCEPT ![j] = "COMPLETED"]
    /\ published' = published \cup {j}
    /\ Touch({j})
    /\ Proceed(w, "dropPrevious")
    /\ UNCHANGED <<jvid, announced, chunks, source, hls, mode, req, sweep, waiting, timers,
                   known, bounds>>

RunDropPrevious(w) ==
    LET j == run[w].job IN
    /\ run[w].pc = "dropPrevious"
    /\ hls' = IF run[w].prev = j THEN hls
              ELSE [hls EXCEPT ![jvid[j]] = @ \ {run[w].prev}]
    /\ Proceed(w, "clean")
    /\ UNCHANGED <<db, chunks, source, touched, mode, req, sweep, waiting, timers, known,
                   bounds, published>>

\* The chunk directory and the work directory.
RunClean(w) ==
    LET j == run[w].job IN
    /\ run[w].pc = "clean"
    /\ chunks' = [chunks EXCEPT ![j] = {}]
    /\ source' = source \ {j}
    /\ Proceed(w, "announce")
    /\ UNCHANGED <<db, hls, touched, mode, req, sweep, waiting, timers, known, bounds,
                   published>>

\* notifyStudents: publishing the notification is best effort (an archived video is
\* not announced, and publishNotificationSafely swallows errors).
RunAnnounce(w) ==
    LET j == run[w].job IN
    /\ run[w].pc = "announce"
    /\ announced' \in {announced, announced \cup {j}}
    /\ Finish(w)
    /\ UNCHANGED <<vstat, asset, jstat, jvid, old, disk, mode, req, sweep, waiting, timers,
                   bounds, published>>

\* A step rejects; while the process closes, the abort signal kills the encoder.
RunFault(w) ==
    /\ run[w].pc \in FaultPoints \ ErrorSteps \/ (mode = "closing" /\ run[w].pc = "encode")
    /\ Proceed(w, "error")
    /\ UNCHANGED <<db, disk, mode, req, sweep, waiting, timers, known, bounds, published>>

\* runVideoJob's catch block.  After an abort the rows stay as they are, and the
\* closed queue gives the job up.
ErrorAborted(w) ==
    /\ run[w].pc \in {"error", "permanent"} /\ mode = "closing"
    /\ Finish(w)
    /\ UNCHANGED <<db, disk, mode, req, sweep, waiting, timers, bounds, published>>

\* Mutant: one attempt too many.
ErrorRequeuedOnceMore(w) ==
    LET j == run[w].job IN
    /\ run[w].pc = "error" /\ mode = "up" /\ run[w].attempt <= MaxAttempts
    /\ jstat' = [jstat EXCEPT ![j] = "QUEUED"]
    /\ Touch({j})
    /\ Proceed(w, "backoff")
    /\ UNCHANGED <<vstat, asset, jvid, announced, chunks, source, hls, mode, req, sweep,
                   waiting, timers, known, bounds, published>>

\* An ordinary error before the last attempt puts the job back in QUEUED ...
ErrorRequeued(w) ==
    LET j == run[w].job IN
    /\ run[w].pc = "error" /\ mode = "up" /\ run[w].attempt < MaxAttempts
    /\ jstat' = [jstat EXCEPT ![j] = "QUEUED"]
    /\ Touch({j})
    /\ Proceed(w, "backoff")
    /\ UNCHANGED <<vstat, asset, jvid, announced, chunks, source, hls, mode, req, sweep,
                   waiting, timers, known, bounds, published>>

\* ... and the queue schedules the next attempt, unless it was closed meanwhile.
ErrorBackoff(w) ==
    /\ run[w].pc = "backoff"
    /\ IF mode = "up"
       THEN /\ timers' = timers \cup {Entry(run[w].job, run[w].attempt)}
            /\ run' = [run EXCEPT ![w] = IdleRun]
            /\ UNCHANGED known
       ELSE Finish(w) /\ UNCHANGED timers
    /\ UNCHANGED <<db, disk, mode, req, sweep, waiting, bounds, published>>

\* The write of the catch block may fail as well.  Its error replaces the first one, so
\* that even a permanent failure is retried; after the last attempt the job is given up
\* with its rows as they were.
ErrorUnrecorded(w) ==
    /\ run[w].pc \in {"error", "permanent"} \cap FaultPoints /\ mode = "up"
    /\ IF run[w].attempt < MaxAttempts
       THEN Proceed(w, "backoff") /\ UNCHANGED known
       ELSE Finish(w)
    /\ UNCHANGED <<db, disk, mode, req, sweep, waiting, timers, bounds, published>>

\* Mutant: only the job is marked.
ErrorFailedJobOnly(w) ==
    LET j == run[w].job IN
    /\ run[w].pc \in {"error", "permanent"} /\ mode = "up"
    /\ run[w].pc = "error" => run[w].attempt >= MaxAttempts
    /\ jstat' = [jstat EXCEPT ![j] = "FAILED"]
    /\ Touch({j})
    /\ Proceed(w, "failed")
    /\ UNCHANGED <<vstat, asset, jvid, announced, chunks, source, hls, mode, req, sweep,
                   waiting, timers, known, bounds, published>>

\* markVideoFailed: the job and its video, then the work directory.
ErrorFailed(w) ==
    LET j == run[w].job IN
    /\ run[w].pc \in {"error", "permanent"} /\ mode = "up"
    /\ run[w].pc = "error" => run[w].attempt >= MaxAttempts
    /\ jstat' = [jstat EXCEPT ![j] = "FAILED"]
    /\ vstat' = [vstat EXCEPT ![jvid[j]] = "FAILED"]
    /\ Touch({j})
    /\ Proceed(w, "failed")
    /\ UNCHANGED <<asset, jvid, announced, chunks, source, hls, mode, req, sweep, waiting,
                   timers, known, bounds, published>>

ErrorCleaned(w) ==
    /\ run[w].pc = "failed"
    /\ source' = source \ {run[w].job}
    /\ Finish(w)
    /\ UNCHANGED <<db, chunks, hls, touched, mode, req, sweep, waiting, timers, bounds,
                   published>>

\* That removal may fail too, with the source gone or not.  The rows are FAILED by then, but
\* its error replaces the permanent one, and the queue tries the FAILED job again.
ErrorUncleaned(w) ==
    /\ run[w].pc = "failed" /\ "failed" \in FaultPoints
    /\ source' \in {source, source \ {run[w].job}}
    /\ IF run[w].attempt < MaxAttempts
       THEN Proceed(w, "backoff") /\ revived' = revived \cup {run[w].job} /\ UNCHANGED known
       ELSE Finish(w) /\ UNCHANGED revived
    /\ UNCHANGED <<db, chunks, hls, touched, mode, req, sweep, waiting, timers, stops, sweeps,
                   published>>

\* Mutant: the attempt is not counted.
RetryUncounted(e) ==
    /\ mode = "up" /\ e \in timers
    /\ timers' = timers \ {e}
    /\ waiting' = waiting \cup {e}
    /\ UNCHANGED <<db, disk, mode, req, sweep, known, run, bounds, published>>

\* A retry timer fires.
Retry(e) ==
    /\ mode = "up" /\ e \in timers
    /\ timers' = timers \ {e}
    /\ waiting' = waiting \cup {Entry(e.job, e.attempt + 1)}
    /\ UNCHANGED <<db, disk, mode, req, sweep, known, run, bounds, published>>

RunStep(w) ==
    \/ RunSkip(w) \/ RunRead(w) \/ RunMark(w) \/ RunAssemble(w)
    \/ RunEncode(w) \/ RunNotAVideo(w)
    \/ RunUnpublish(w) \/ RunPublish(w) \/ RunPrevious(w) \/ RunCommit(w)
    \/ RunDropPrevious(w) \/ RunClean(w) \/ RunAnnounce(w)
    \/ RunFault(w) \/ ErrorAborted(w) \/ ErrorRequeued(w) \/ ErrorBackoff(w)
    \/ ErrorUnrecorded(w) \/ ErrorFailed(w) \/ ErrorCleaned(w)
    \/ ErrorUncleaned(w)

(***************************************************************************)
(* The process stops and starts.                                           *)
(***************************************************************************)
LoseMemory ==
    /\ mode' = "down"
    /\ req' = [r \in Requests |-> IdleRequest]
    /\ sweep' = IdleSweep
    /\ waiting' = {} /\ timers' = {} /\ known' = {}
    /\ run' = [w \in Workers |-> IdleRun]

Crash ==
    /\ mode = "up" /\ stops < MaxStops
    /\ stops' = stops + 1
    /\ LoseMemory
    /\ UNCHANGED <<db, disk, sweeps, revived, published>>

\* SIGTERM: once the open requests are answered the queues are closed.
Shutdown ==
    /\ mode = "up" /\ stops < MaxStops
    /\ \A r \in Requests : req[r].pc = "idle"
    /\ stops' = stops + 1
    /\ mode' = "closing"
    /\ waiting' = {} /\ timers' = {}
    /\ UNCHANGED <<db, disk, req, sweep, known, run, sweeps, revived,
                   published>>

\* The process exits when its runs have ended, or after 15 seconds.
Exit ==
    /\ mode = "closing"
    /\ LoseMemory
    /\ UNCHANGED <<db, disk, bounds, published>>

\* Mutant: a job that was being processed is not resumed.
BootQueuedOnly ==
    LET pending == {j \in Jobs : jstat[j] = "QUEUED"} IN
    /\ mode = "down"
    /\ mode' = "up"
    /\ known' = pending
    /\ waiting' = {Entry(j, 1) : j \in pending}
    /\ UNCHANGED <<db, disk, req, sweep, timers, run, bounds, published>>

\* startEmbeddedWorker resumes the QUEUED and PROCESSING jobs before the API listens.
Boot ==
    LET pending == {j \in Jobs : jstat[j] \in {"QUEUED", "PROCESSING"}} IN
    /\ mode = "down"
    /\ mode' = "up"
    /\ known' = pending
    /\ waiting' = {Entry(j, 1) : j \in pending}
    /\ UNCHANGED <<db, disk, req, sweep, timers, run, bounds, published>>

Next ==
    \/ \E v \in Videos, j \in Jobs : CreateVideoUpload(v, j)
    \/ \E r \in Requests, v \in Videos, j \in Jobs :
          CompleteUpload(r, v, j) \/ \E i \in Chunks : ReceiveChunk(r, v, j, i)
    \/ \E r \in Requests, v \in Videos : RestartUpload(r, v)
    \/ \E r \in Requests : RequestStep(r)
    \/ \E j \in Jobs : Age(j)
    \/ SweepBegin \/ SweepStep
    \/ \E w \in Workers : RunStep(w) \/ \E e \in waiting : Start(w, e)
    \/ \E e \in timers : Retry(e)
    \/ Crash \/ Shutdown \/ Exit \/ Boot

Spec == Init /\ [][Next]_vars

\* What the runtime keeps doing: promises settle, timers fire, the supervisor
\* restarts a process that stopped.  Nobody has to send a request or crash anything.
Fairness ==
    /\ \A r \in Requests : WF_vars(RequestStep(r))
    /\ WF_vars(SweepStep)
    /\ \A w \in Workers : WF_vars(RunStep(w))
    /\ WF_vars(\E w \in Workers : \E e \in waiting : Start(w, e))
    /\ WF_vars(\E e \in timers : Retry(e))
    /\ WF_vars(Exit) /\ WF_vars(Boot)

FairSpec == Spec /\ Fairness

(***************************************************************************)
(* Properties.                                                             *)
(***************************************************************************)
RunType == [pc : {"idle", "read"} \cup EarlySteps \cup LateSteps \cup ErrorSteps,
            job : {0} \cup Jobs, attempt : 0 .. MaxAttempts, prev : {0} \cup Jobs]
RequestType == [pc : {"idle", "chunk", "check", "accept", "enqueue", "restart", "purge"},
                vid : Videos \cup {NoVideo}, job : {0} \cup Jobs, idx : Chunks,
                prev : SUBSET Jobs]
SweepType == [pc : {"idle", "cancel", "purge", "requeue"}, job : {0} \cup Jobs,
              todo : SUBSET Jobs]
EntryType == [job : Jobs, attempt : 1 .. MaxAttempts]

\* The values every variable may take; in particular no attempt, waiting, scheduled or
\* running, is ever numbered above the limit of the queue.
TypeOK ==
    /\ vstat \in [Videos -> VideoStatus]
    /\ asset \in [Videos -> {0} \cup Jobs]
    /\ jstat \in [Jobs -> JobStatus]
    /\ jvid \in [Jobs -> Videos \cup {NoVideo}]
    /\ old \in SUBSET Jobs /\ announced \in SUBSET Jobs
    /\ chunks \in [Jobs -> SUBSET Chunks]
    /\ source \in SUBSET Jobs /\ touched \in SUBSET Jobs
    /\ hls \in [Videos -> SUBSET Jobs]
    /\ mode \in {"up", "closing", "down"}
    /\ req \in [Requests -> RequestType]
    /\ sweep \in SweepType
    /\ waiting \in SUBSET EntryType
    /\ timers \in SUBSET EntryType
    /\ known \in SUBSET Jobs
    /\ run \in [Workers -> RunType]
    /\ stops \in 0 .. MaxStops /\ sweeps \in 0 .. MaxSweeps
    /\ revived \in SUBSET Jobs /\ published \in SUBSET Jobs

Running == {w \in Workers : run[w].pc # "idle"}

Pending == waiting \cup timers

OneRunPerJob   == \A w1, w2 \in Running : run[w1].job = run[w2].job => w1 = w2
OneEntryPerJob == /\ \A e1, e2 \in Pending : e1.job = e2.job => e1 = e2
                  /\ waiting \cap timers = {}
RunOrPending   == \A w \in Running, e \in Pending : run[w].job # e.job
HeldIsKnown    == /\ \A e \in Pending : e.job \in known
                  /\ \A w \in Running : run[w].job \in known
KnownIsHeld    == mode = "up" => \A j \in known : \/ \E e \in Pending : e.job = j
                                                  \/ \E w \in Running : run[w].job = j

\* The queue's "known" set, by which a double complete is refused, is exactly what is
\* waiting, scheduled or running, and each job is there once: no job is ever encoded by
\* two slots together (queues.ts: "a double complete cannot start two encodes"), and none
\* is refused for ever because a forgotten id stayed behind.
QueueConsistent ==
    OneRunPerJob /\ OneEntryPerJob /\ RunOrPending /\ HeldIsKnown /\ KnownIsHeld

\* Students are never handed a video whose files are gone: a READY video has an asset
\* row, and the directory an asset row names is on disk, whatever else is uploading,
\* encoding or being cleaned up for that video.
AssetOnDisk ==
    \A v \in Videos : /\ vstat[v] = "READY" => asset[v] # 0
                      /\ asset[v] # 0 => asset[v] \in hls[v]

\* A job that has published is never taken up again: a retry, a requeue by the sweep or
\* a resume after a crash finds it done.
PublishedIsFinal ==
    \A j \in published : jstat[j] \in {"COMPLETED", "CANCELLED"}

\* A video shown as PROCESSING has an upload that is queued or being processed.  Without
\* one it would stay so for good: restartUpload refuses a video that is PROCESSING.
ProcessingHasWork ==
    \A v \in Videos : vstat[v] = "PROCESSING" =>
        \E j \in JobsOf(v) : jstat[j] \in {"QUEUED", "PROCESSING"}

\* The jobs in work, but for those of videos of which a FAILED job was tried again.
InOrder == {j \in Jobs : /\ jstat[j] \in {"QUEUED", "PROCESSING"}
                         /\ revived \cap JobsOf(jvid[j]) = {}}

\* Until its video is READY a job keeps what an attempt needs ("so retries always have
\* their inputs"): all its chunks, or the source assembled from them.
RetriesHaveInputs == \A j \in InOrder : chunks[j] = Chunks \/ j \in source

\* The job being processed is its video's newest upload and the video shows it.
ProcessedJobIsLatest ==
    \A j \in InOrder : IsLatestJob(j, jvid[j]) /\ vstat[jvid[j]] = "PROCESSING"

\* The rows of a video, those of its uploads and what is on disk go together, through faults at
\* any step up to the publishing transaction and in the catch block, retries, restarts of the
\* upload, crashes and shutdowns: a video in work has an upload in work, and an upload in work is
\* the newest one of its video, which shows it, and can be processed.  The last two are not so
\* once the removal after the FAILED transaction has failed, and the queue tried that job again.
JobsMatchVideos == ProcessingHasWork /\ RetriesHaveInputs /\ ProcessedJobIsLatest

\* A READY video stays READY: no retry, requeue, resume or late request takes it away
\* from the students again.
ReadyStaysReady ==
    [][\A v \in Videos : vstat[v] = "READY" => vstat'[v] = "READY"]_vstat

\* The sweep, and a restart, cancel uploads only: not a job that was submitted meanwhile
\* ("Uploads abandoned for 3 days are cancelled").
OnlyUploadsAreCancelled ==
    [][\A j \in Jobs : jstat'[j] = "CANCELLED" => jstat[j] \in {"UPLOADING", "CANCELLED"}]_jstat

\* An upload that still receives chunks is not abandoned ("Uploads idle for 3 days are
\* cancelled"): the sweep does not pick it.
SweepPicksIdleUploads ==
    [][sweep.pc = "idle" /\ sweep'.pc = "cancel" => sweep'.todo \cap touched = {}]_sweep

\* A queued or processing upload always ends, crashes and restarts included.
Active(j)  == jstat[j] \in {"QUEUED", "PROCESSING"}
JobsSettle == \A j \in Jobs : Active(j) ~> ~Active(j)

\* What the owner sees of a video: the pipeline implements VideoLifecycle.
Watchable == {v \in Videos : asset[v] # 0 /\ asset[v] \in hls[v]}
Lifecycle == INSTANCE VideoLifecycle WITH status <- vstat, watchable <- Watchable
ImplementsLifecycle == Lifecycle!Spec

\* The queue in the process implements the same JobQueue that MemoryQueue does, through
\* crashes, shutdowns and resumes: what this module leaves out of the queue (its order,
\* the callbacks after a run) is not what the pipeline relies on.
QueueState(j) ==
    IF \E w \in Running : run[w].job = j THEN "running"
    ELSE IF \E e \in Pending : e.job = j THEN "pending" ELSE "absent"
\* An entry in `waiting` holds the attempt it will begin, one in `timers` the last one.
QueueTries(j) ==
    IF \E w \in Running : run[w].job = j
    THEN run[CHOOSE w \in Running : run[w].job = j].attempt
    ELSE IF \E e \in timers : e.job = j THEN (CHOOSE e \in timers : e.job = j).attempt
    ELSE IF \E e \in waiting : e.job = j THEN (CHOOSE e \in waiting : e.job = j).attempt - 1
    ELSE 0
JobState == [j \in Jobs |-> QueueState(j)]
JobTries == [j \in Jobs |-> QueueTries(j)]
VideoQueue == INSTANCE JobQueue WITH
                  Ids <- Jobs, Slots <- Workers,
                  open <- (mode = "up"), state <- JobState, tries <- JobTries
ImplementsJobQueue == VideoQueue!Spec

============================================================================
