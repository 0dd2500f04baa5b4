# Verification of the education platform's backend

The backend (TypeScript, Express, Prisma on MySQL, optional Redis) serves two dashboards and a
student app: a catalogue of grades, subjects, teachers, topics and sessions; videos uploaded in
chunks and turned into encrypted HLS; files; access grants per student; one device per student;
offline licences; notifications. This directory models its core logic in TLA+, checks it with TLC
and proves with TLAPS what is not liveness. All code paths below are relative to `src/src/` unless they
begin with `docs/` or `database/`.

## Inventory

| Component | State it keeps | Operations | Interacts with | Hard behaviour | What makes it correct |
| --- | --- | --- | --- | --- | --- |
| Video upload (`modules/videos/video-upload.service.ts`) | rows `videos`, `upload_jobs`; chunk files | create, receive chunk, complete, restart | video queue, sweep | each request reads, then acts on what it read; 4 chunks at a time; browser and service worker both may complete | a submitted job has its chunks; a video shows its newest job |
| Video processing (`workers/video/process-video.ts`, `workers/handlers.ts`) | row `video_assets`; work and asset directories | one attempt of a job in some fifteen awaits; failure policy | video queue, notifications | faults at any await, retries, crash in between, two encodes of one video | READY implies files on disk; READY stays; every job ends |
| Memory queue (`core/queue/memory-queue.ts`) | waiting list, known ids, retry timers, slots | add, pump, execute, retry, close, onIdle | handlers | callbacks and timers interleave with close | each job held once; nobody encodes a job twice |
| Embedded worker and process (`workers/embedded.ts`, `server.ts`) | none that survives | start and resume, shutdown | queue, database | crash and shutdown at any point | what was queued is resumed |
| Maintenance (`workers/maintenance.ts`) | none | three scheduled clean-ups | uploads, auth, licences | acts on a list read earlier | only idle uploads are cancelled |
| Redis queue (`workers/index.ts`, `core/queue/queues.ts`) | BullMQ job keys | add, stalled, retry | as above | retained ids, restarts that use up attempts | as above |
| Auth sessions (`modules/auth`) | `auth_sessions`, `refresh_tokens`, `users` | login, register, refresh, logout, change password | devices, accounts | concurrent refreshes; revocation between a check and its use | one rotation per token; nothing revoked comes back |
| Devices (`modules/devices`) | `devices` | bind or verify, reset | auth, licences | two first logins | one active device per student |
| Accounts (`modules/users`, `owners`, `students`) | `users` | create, update, disable, archive, restore, reset password | auth, catalogue | revocation races with login; checks before the write | a disabled account has no live session; one active owner |
| Access (`modules/access`) | two grant tables | open, close, bulk | catalogue, media, licences | grants and archive in any order | open means subject open and teacher open and chain active |
| Media (`modules/media`) | allow cache per process | playlists, segments, keys, files | auth, access | cached decisions | a revoked viewer is cut off within the cache's minute |
| Offline licences (`modules/student-portal/offline.service.ts`) | `offline_licenses` | issue, sync, revoke, expire | access, devices | check before transaction | at most one valid licence per device and video |
| Catalogue (`modules/catalog` and its users) | seven tables with `archived_at`, `sort_order` | create, update, archive, restore, reorder, assign | access, files | name and parent checked before the transaction | active names apart, new rows last, nothing activated below an archived parent |
| Notifications (`modules/notifications`) | two tables | publish, fan out in batches, read | queue, access | retried batches | each recipient once |
| Settings (`modules/settings`) | one table, 30 s cache | read, update | all | stale fill of the cache | an update is seen within the cache's time |
| Files (`modules/files`, `core/storage`) | rows and bytes | upload, archive, restore | access, media | bytes before row | each row has its bytes |
| Read models, HTTP layer, audit log, tokens, configuration, seeders, deployment | none of their own | | | | not modelled, see the end |

`PROJECT.json` lists, under `hazards`, where each of these can go wrong.

## Modules

| Module | Models | Composed with |
| --- | --- | --- |
| `VideoPipeline`, abstract `VideoLifecycle` | uploads, processing, sweep, process | implements `VideoLifecycle` and `JobQueue` |
| `MemoryQueue`, abstract `JobQueue` | the in-process queue | implements `JobQueue` |
| `AuthSessions` | accounts, passwords, devices, sessions | |
| `RefreshTokens` | rotation, with a browser's tabs | |
| `AccessPolicy` | grants, archiving above an item, the policy read by read | extended by the next two |
| `MediaGuard` | media tokens, the cache of answers, the portal's pages | `AccessPolicy` |
| `OfflineLicenses` | licences, their sync and revocation | `AccessPolicy`, `SystemSettings` |
| `SystemSettings` | the cache of settings | |
| `Catalog` | all catalogue rows, names, order, lifecycle | |
| `Accounts` | owners and students beside the catalogue's rows | extends `Catalog`, under whose grades the students are |
| `StoredFiles` | bytes, rows and temporary files | |
| `Notifications` | publication, fan-out, inboxes, either queue | |

The order in which they were written is the order of how much depends on the behaviour and how hard it
is to test. `MC...` modules and `.cfg` files are the instances for TLC. `...Proofs` are the theorems, of
all modules with a specification of their own; those of `RefreshTokens` are in `AuthSessionsProofs`,
those of `Accounts` in `CatalogProofs`. The runs are twelve. Some properties are proved for every
instance and no run repeats them: `QueueConsistent`, `HeldOnce`, and the type invariants of
`MemoryQueue`, `AuthSessions` and `RefreshTokens` (`TokensTypeOK`).

What is left as further work: the video queue on Redis (the retained job ids of BullMQ under the
handlers of `VideoPipeline`). The safety properties of the passing runs are all proved, for every
instance and on the conditions that each section names; what only TLC checks is liveness under fairness.

## Video pipeline

`VideoPipeline` models the backend without Redis: one process serves the API, holds the queue, runs
the worker and the sweep. Between two awaits nothing else runs in such a process, so **a step is
what the code does up to and including one access to the database or the disk**; between steps any
other request, slot, timer or the sweep may go on.

| State | In the code |
| --- | --- |
| `vstat`, `asset`, `jstat`, `jvid` | `videos.status`, `video_assets.storage_key` (as the job it names), `upload_jobs.status`, `.video_id` (`database/schema.prisma`) |
| `old` | jobs whose `updated_at` lies before the sweep's threshold; every write to a row makes it young again |
| `touched` | observation: old jobs that have received a chunk since |
| `announced` | jobs announced to students |
| `chunks`, `source`, `hls` | `tmp/uploads/<job>`, `tmp/work/<job>/source.*`, `videos/<video>/<job>` |
| `mode` | the process: up, closing after SIGTERM, down |
| `req[r]`, `sweep` | where a request, or the sweep, is, and what it has read |
| `waiting`, `timers`, `known`, `run[w]` | the fields of `MemoryQueue`; `run[w].pc` is where a slot is in `runVideoJob` |
| `published` | history: jobs whose publishing transaction committed |
| `revived` | history: FAILED jobs the queue was left to try again |

Job numbers are in the order of `created_at`, so that "the latest job" of a video is its greatest.

Actions follow the code: `CreateVideoUpload`; `ReceiveChunk` then `ChunkStored` or `ChunkFailed`;
`CompleteUpload`, `CompleteCheck`, `CompleteAccept` or `CompleteRefused`, `CompleteEnqueue`;
`RestartUpload`, `RestartCommit` or `RestartFailed`, `RestartPurge`; `Sweep...` for
`cleanupStaleUploads`; `Start` for `pump`; `Run...` for `processVideoJob` from `RunRead` to
`RunAnnounce`; `RunFault` for a rejected await; `Error...` for the catch block of `runVideoJob`
and of the queue, with `ErrorCleaned` and `ErrorUncleaned` for the removal that ends `markVideoFailed`; `Retry` for the timer; `Crash`, `Shutdown`, `Exit`, `Boot` for the process. A crash
or an exit loses everything but the rows and the files.

What is abstracted: the bytes of a chunk (it is whole or absent: written under a temporary name and
renamed); the order of the queue, so that what is shown holds for any order; progress percentages
and audit rows; the probe and the encode, which end well, find no video or fail; the database, whose
transactions are atomic and serial. `KEEP_ORIGINAL_VIDEOS` is false (its default), so that the source
lies in the work directory.

### Runs

All bounds are constants: `MaxJobs` uploads in all, `TotalChunks` per upload, `Requests` in flight,
`Workers` slots, `MaxStops` crashes and shutdowns, `MaxSweeps`. `MaxAttempts` is 2 as in the code.
`FaultPoints` names the steps that may fail. Deadlock is not checked: when all uploads are settled
and the bounds used up nobody need do anything.

| Run | Instance | Shows |
| --- | --- | --- |
| `video_serial` | 1 video, 3 jobs, 2 chunks, 1 request, 1 slot, 1 stop, faults before and in the publishing transaction, in the catch block and in the removal after the FAILED transaction | `JobsMatchVideos`: `ProcessingHasWork`, `RetriesHaveInputs` and `ProcessedJobIsLatest` together |
| `video_lifecycle` | the same with 1 chunk, 2 stops, no fault in the catch block or after it, fair | `ImplementsLifecycle`: the pipeline refines `VideoLifecycle`, its liveness included |
| `video_sweep` | 2 jobs of 1 video, 2 slots, 1 stop, 1 sweep, fair | `TypeOK`, `AssetOnDisk`, `PublishedIsFinal`, `JobsSettle`, `ImplementsJobQueue` |
| `video_lateerror` (violation) | 1 job, the announcement fails | `ReadyStaysReady` fails |

Why these instances are enough: the hazards are between one upload and its predecessor, so two or
three jobs of one video; between two actors, so two slots, or a slot and the sweep (two requests at once are left to
the proofs, see below); between an attempt and the next, so two attempts; and across a restart of a restart, so two stops where no fault is left out for them. Videos do not share
state apart from the queue, which the proofs cover for any number. Two chunks tell "some" from
"all"; where only "all" or "none" matters there is one.

Three things are left out on purpose, since the code does not keep the promises with them:

* **A second request, in the runs about uploads** (`video_serial`, `video_lifecycle`).
  `restartUpload` reads the status and the jobs to purge before its transaction. A complete in
  between queues one of them; the restart then removes its chunks, and its attempts fail for want
  of them: `RetriesHaveInputs` fails with two requests. The sweep is left out there for the like
  reason (see *Disagreements*). `TypeOK`, `QueueConsistent`, `AssetOnDisk`, `PublishedIsFinal` and
  `ImplementsJobQueue` are proved for any number of requests, and the others for any number of which no
  two decide about one video together (see *Proofs*).
* **Faults after the publishing transaction, in all passing runs.** See LateError. If it is the
  clean-up itself that fails, the retry removes the directory the asset row names before it renames
  a new one into place, and meanwhile `AssetOnDisk` fails.

* **The removal after the FAILED transaction** (`markVideoFailed`, `process-video.ts:264`), **except in
  `video_serial`.** If it rejects (fault point `failed`), its error replaces the permanent one, which
  `embedded.ts` turns into `PermanentJobError`, and the queue tries a job again whose rows are FAILED.
  The owner may have started a newer upload by then, so nothing can be promised for that video: its FAILED job
  becomes PROCESSING under a video that is not, it may publish, and it may fail a video that a newer
  upload has made READY. `JobsMatchVideos` holds with this fault for all videos of which no FAILED
  job was tried again (`revived`, `InOrder`), and its first part, a video in PROCESSING has a job in
  work, for all videos. `VideoLifecycle` and `ReadyStaysReady` do not hold with it: TLC refutes the
  latter from the `.cfg` of `video_lateerror` with 2 jobs and the fault `failed` alone. The properties of
  `video_sweep` do hold with it (checked with one slot: 670,000 states; two exceed the time of a run).

The violation run shows the second. **LateError:** after the publishing transaction an error (the query of
`notifyStudents`) leads to the catch block, which puts the COMPLETED job in QUEUED; its inputs are
gone, and the retry marks the READY video FAILED. What else the code does not keep is under
*Disagreements*.

### Fairness

`Fairness` is weak and covers what the runtime does by itself: an awaited promise settles, so a
request, the sweep and each slot go on; `pump` starts waiting jobs whenever a slot is free; a timer
fires; a closing process exits (15 s at most) and the supervisor starts it again. There is none on
requests from users, on faults, crashes or the start of the sweep. Weak fairness on `Start` is enough
since nothing but `Shutdown` and `Crash` disables it without a slot having taken a job.

### Proofs

`VideoPipelineProofs` holds for every value of the constants (with the assumptions of
`VideoPipeline`: at least one job, chunk and attempt, and fault points that are steps of a run).

* `TypeCorrect`: `TypeOK` with `RunRefs`, `QueueRefs`, `RequestRefs`, `SweepRefs`, `JobRefs`. They are
  needed because a step copies an id from a request or an entry to a row: only a job that exists
  is ever in flight, and only one with an attempt left is ever scheduled.
* `QueueCorrect`: `QueueConsistent` is inductive together with `StoppedInv` (a process that is down
  holds nothing, so that `Boot` fills an empty queue). Three lemmas carry the argument: a step that
  does not touch the queue, an enqueue, a slot that goes on or finishes.
* `AssetsStayOnDisk` and `PublishingIsFinal`, under `EarlyFaultsOnly` (no faults after the publishing
  transaction, nor while a run reads its job; without the first half both fail, as said above). `AssetInv` adds that a run which has not published works on a job that is not
  published, that its output is in place when it comes to the transaction, and that what it drops
  afterwards is an older published asset which the row no longer names. It uses
  `QueueConsistent`: were one job run by two slots, one could remove the directory the other has
  just published.

* `RowsMatch`: `JobsMatchVideos`, for any videos, jobs, chunks, slots, attempts and stops, on three
  conditions. TLC refutes it without any one of them:
  * `OneDecisionPerVideo`: at any time one request at most completes or restarts the upload of a video
    (its chunks may arrive side by side, and requests for other videos too). It is a condition on the
    behaviour, `Spec /\ []OneDecisionPerVideo => ...`, and `RowsMatchSerially` is the case of the
    run, one request at a time. Without it a restart removes the chunks of a job that was completed meanwhile.
  * `MaxSweeps = 0`: the sweep cancels, by id, a job that was accepted after the sweep's query.
  * `NoLateFaults`: nothing fails after the transaction that publishes a job, or after the one that
    makes it FAILED. Otherwise a job that has published goes back to QUEUED without its inputs, or a
    FAILED one is tried again. (`InOrder` is then all jobs in work, since `revived` stays empty.)

  The three parts of `JobsMatchVideos` are not inductive together. `MatchInv` adds what each actor relies
  on: the queue only holds jobs in work, and a run is in its late steps, or marked FAILED, exactly when its
  row says so (`HeldInWork`, which is why a skipped or aborted run leaves nothing behind); what a
  request has read is still so when it acts on it (`ReadStillSo`: the job it accepts is the active one
  and has all its chunks, the one it enqueues is not yet held, the jobs it purges are not in work);
  a video with jobs is not NONE. The proof has one lemma per part and step, in this order: rows
  (`RowsStep`), queue (`HeldStep`), requests (`ReadStep`), which need each other before the step only.
* `VideoQueueRefines`: `ImplementsJobQueue`, without any condition. `QueueView` says of each job, without CHOOSE,
  what it is in `JobQueue`: running as the attempt of its slot (`InSlot`), or pending with the tries of
  its entry (`InLine`); `QueueViewed` derives it from `QueueConsistent`, which makes the mapping a function.
  A step is then characterised by the one job whose place it changes (`QueueSameJob` for all others):
  `EnqueueAdds`, `StartDispatches`, `BackoffRetries`, `FinishEnds`, `StopsAndStarts`. `QueueFits` gives each
  running job a slot of its own.
* `LifecycleRefines`: on the conditions of `RowsMatch`, every step is one of `VideoLifecycle` or leaves the status and
  the streams of all videos alone. `LifeInv` joins `MatchInv` and `AssetInv` (here a run never reads a job that has published, so
  that a fault while reading does no harm: `SparePublished`) with `UploadsShown`, a video whose newest upload is
  being sent is shown so. `ReadyIsFinal` follows: `ReadyStaysReady`, which the run `video_lateerror` refutes
  where `NoLateFaults` does not hold.

All invariants of the proofs were checked by TLC first. Left to TLC for this module are `JobsSettle`
and the liveness in `ImplementsLifecycle`, which need fairness and ENABLED.

## Memory queue

`MemoryQueue` is `core/queue/memory-queue.ts` itself, one module for the three queues of
`queues.ts`, which differ in their number of slots (video: configured, 2, 1) and of attempts (2, 5,
1). It runs on one thread, so **a step is one call, one timer or one continuation after an await,
with the `pump` it calls**. The handler's own work lies between the step that starts a job and the
one that settles it.

| State | In the code |
| --- | --- |
| `handler`, `waiting`, `known` | the fields of the same name (of the handler: whether it is set) |
| `phase` | `closed`, and whether `close` is past its await |
| `timers` | `retryTimers`: the entries their callbacks captured |
| `run[s]` | `running`: an execution is `handling`, then `settled` until the callback of its `finally` |
| `waiters` | `idleWaiters`, as the set of those who await |
| `adds` | bound: calls of `add` accepted so far |

`Process`, `Add`, `OnIdle`, `Close` and `CloseDone` are the calls; `HandlerReturns` and
`HandlerThrows` the two branches of `execute`; `Finally` and `TimerFires` the callbacks. `Pump` is an
operator on the queue and the slots a step leaves, as in the code it is called at the end of four of
them. Calls that change nothing (an `add` that returns false, an `onIdle` that resolves at once) are
no steps. Delays are left out: a timer fires at any time after it is set, which covers every backoff.

`JobQueue` is what the callers rely on (`embedded.ts`, `queues.ts`, and
`database/seeders/demo-media.ts:80`, which awaits `onIdle`): a job that was added is held once until
it ends, there are no more running jobs than slots, no job has more than `MaxAttempts` tries, none
is tried after the queue is closed, and a process that stops loses what it held. Two modules
implement it: `MemoryQueue`, and the queue inside `VideoPipeline`, which is coarser (its order is
left open, and a slot is free as soon as its run ends). So the pipeline's results rest on what both
have in common. Both refinements are proved.

| Run | Instance | Shows |
| --- | --- | --- |
| `memory_calls` | 3 ids, 2 slots, 3 attempts, 1 caller of `onIdle`, 5 adds, fair | `NoIdleSlot`, `IdleMeansIdle`, `ImplementsJobQueue`, `WaitersAnswered` |

Three ids and two slots: one job waits while others run, so that both slots free and slots taken
occur with a queue. Five adds let an id be added again after it ended, also between the end of its
handler and the callback that frees its slot. Three attempts have a first, a middle and a last one.
There is no symmetry, because `WaitersAnswered` is a liveness property. For it `MaxAdds` says that
jobs stop coming: under a stream of new jobs `onIdle` may never resolve, and the code does not
promise that it does. Deadlock is not checked, since a closed queue, and one without jobs, may do
nothing.

`Fairness` is weak: the worker calls `process` (`embedded.ts:15-24`); every handler settles, either
way; the callbacks of `finally` and of timers run; `close` goes on when all it awaits has settled.
Nobody has to add a job, await `onIdle` or close the queue.

`MemoryQueueProofs` proves for all values of the constants `TypeCorrect`, `HeldOnceHolds`,
`NoIdleSlotHolds`, `IdleMeansIdleHolds` and `QueueImplementsJobQueue`. The assumptions are those of
`MemoryQueue`: at least one attempt, a natural bound on adds, and `NoId` is no id.

* The inductive invariant `IInv` is the type invariant with `TimersHaveAttempts` (a scheduled retry
  has an attempt left, without which `TimerFires` could number one beyond the limit), `QueueInv`
  (`HeldOnce` with the queue, the slots and the timers as parameters), `NoIdleSlot` and
  `ClosedIsEmpty` (once closed nothing waits and no timer is set, without which a closed queue
  could be found with jobs nobody starts).
* Every step first puts a job somewhere or takes one away, then pumps. The lemmas follow that:
  `PumpStarts` says which jobs start and where, `PumpHolds` that starting jobs keeps each in one
  place, and one lemma per way a step changes the rest (`AppendHolds`, `DelayHolds`,
  `UndelayHolds`, `SettleHolds`, `SettleSlots`).
* `IdleMeansIdle` follows from `QueueInv`: while the queue is open, no known id means no job held
  (`UnknownIsQuiet`).
* For the refinement `Represents(st, tr, q, r, T)` describes the abstract state of each job without
  CHOOSE; the mapping is the only function that does so (`MappingRepresents`, `RepresentsUnique`).
  A step is then: what it does before the pump represents `Add`, `Retry` or `End`
  (`AppendRepresents`, `RetryRepresents`, `EndRepresents`), and the pump is a `Dispatch`
  (`PumpDispatches`), for which `RunningFit` gives each running job a slot of its own.

Left to TLC is `WaitersAnswered`, which needs fairness.

## Auth sessions

`AuthSessions` models accounts, passwords, devices and auth sessions: `modules/auth`,
`modules/devices`, `modules/users/account-admin.service.ts` and what `core/auth/authenticate.ts`
checks on each request. The API serves requests side by side, so **a step is what one request does
up to and including one access to the database**. A transaction that only writes is one step; the
one of `loginStudent`, which reads the device first, is two (`Bind`, `OpenSession`), and its insert
is subject to what other transactions have committed meanwhile.

| State | In the code |
| --- | --- |
| `accounts`, `status`, `archived` | rows of `users`, `users.status`, `users.archived_at` |
| `password`, `oldHash` | `users.password_hash`: of which password it is, numbered as they are set; and whether `needsRehash` |
| `latest` | history: the password set last |
| `devices` | rows of `devices`; a row that is ACTIVE is the one with `active_student_id` |
| `sessions` | rows of `auth_sessions`; `password` is history: the one its holder has shown |
| `overlapped` | history: accounts of which two requests were in flight together |
| `licensed` | devices with a row of `offline_licenses` that is not revoked |
| `req[r]` | where a request is, and what it has read |

| Action | In the code |
| --- | --- |
| `Login`, `Rehash`, `Bind`, `OpenSession`, `Rejected` | `verifyCredentials`, its rehash, `bindOrVerifyDevice`, and the rest of `loginStaff` or `loginStudent`; the refusal |
| `RegisterStudent`, `Logout`, `VerifyPassword`, `ChangePassword` | `registerStudent`, `logout`, `changePassword` before and in its transaction |
| `Authenticate` | `resolveAuth` in front of a handler; `Live` is what it accepts |
| `IssueLicence`, `LicenceEnds` | the transaction of `issueOfflineLicense`; `revokeOwnOfflineLicense`, `cleanupExpiredLicenses` |
| `CreateAccount`, `LoadAccount`, `SetAccountStatus`, `SetAccountArchived`, `ResetAccountPassword` | `createStudent`, `createOwner`, and the functions of `account-admin.service.ts` |
| `LoadDevice`, `ResetDevice` | `resetDevice` before and in its transaction |
| `SessionEnds`, `RequestFails` | a session that expires or is revoked for reuse; an error, with the rollback of what was begun |

Left out: roles and portals (a student and a member of staff differ only in the device), the
`X-Device-Id` header (the phone of a session is that of its device), names, phone numbers and
grades, settings that switch registration or downloads off, upload tokens, `last_seen_at`. Calls that
are refused at once change nothing and are no steps. Phones, grades and the single owner are in
`Accounts`.

| Run | Instance | Shows |
| --- | --- | --- |
| `auth_accounts` | 1 student or 1 member of staff, 2 phones, 2 requests, 2 devices, 3 sessions, 2 passwords | `OneDevicePerStudent`, `PasswordRules`, `ClosedAccountIsOut`, `ResetDeviceIsClean`, `RejectedAloneForOtherDevice` |

Accounts share no rows, so `auth_accounts` looks at one account at a time, of either kind (the
constraint `OneAccount`); a device and its successor; two sessions side by side and a third after
they ended; a password and its successor. Two requests are every pair of requests. There is no
liveness to check: nothing here has to happen by itself. Deadlock is not checked, since the bounds
on rows end every behaviour.

The last four properties speak of accounts that are not in `overlapped`, that is, whose requests
came one after the other so far. This is not a bound of the instance but what the code keeps. With
two requests of one account at the same time it does not:

* A login checks account and password before its transaction. A
  reset, a change or a closure that commits in between ends all sessions there are; the login then
  opens one more. After a reset it goes on under the former password, after a disable it works again
  once the account is enabled (`ClosedAccountIsOut`).
* Two first logins from one phone both find no device. The second
  collides on `active_student_id` and is answered `DEVICE_ALREADY_BOUND`, although the account is
  bound to this very device; a repeated attempt succeeds.
* `verifyCredentials` saves the password it has verified under the current parameters, by user id
  alone. If it was reset in between, the former password is in force again (`PasswordRules`).
* The device is checked when a request for a licence is authenticated, and not when the licence is
  inserted. A reset in between does not see it (`ResetDeviceIsClean`).

`OneDevicePerStudent` needs no such condition, and `AuthSessionsProofs` proves it for all
values of the constants (assuming that students and staff are distinct, `NoUser` and `NoPhone` are
neither, and the bounds are natural numbers), with `TypeCorrect`. The inductive invariant is

* `TypeOK`, which says that a session of a student has a device;
* `RequestRefs`: what a request has read still exists. A request in `open` with a device holds one
  of its own student, even if it was reset since;
* `OwnedDevices`: a session is on a device of its own user. Without it two sessions of a student could
  work on an active device of somebody else;
* `OneActive`: the unique key.

Rows are never removed and a device keeps its student (`DevicesKept`, `SessionsKept`), so a step of one
request leaves what the others have read (`RefKept`, `RefsKept`). `EndHolds` and `CreateHolds` are
the two ways sessions change, `BindHolds` and `ActiveKept` the two ways devices do. Two working
sessions of one student are on active devices (`Live`) of that student (`OwnedDevices`), of which
there is one (`OneActive`).

The other four properties of the run are proved as well: `PasswordsInForce`, `ClosedIsOut`,
`ResetIsClean` and `RejectedFairly`. Each is about accounts that are not in `overlapped`, and so is the
invariant: `OrderInv` says of each such account (`InOrder`) that

* it has one request under way at most, and what that request has read is still so (`StillSo`): the
  password it has verified is the latest and the account open, the device it found or did not find is
  still the active one, or there is still none;
* its row holds the latest password, its working sessions have shown that password and the account is open, and
  a device that was reset has neither licence nor session.

A step of a request is a step for one account, so it touches the others' rows nowhere. What says
so is `Known`: a row that is not yet used, or an account that does not exist, belongs to nobody, and the session and
the device a request acts on are those of its own account; without it a logout could end, or a reset could
clean, the rows of somebody else. `OrderStep` has a step per action. `RejectedFairly` is an action property:
`WhoRejects` says that only `Bind` and `OpenSession` refuse, `RejectedStep` that the first has seen
another phone, and that the second cannot be, as no other request has bound a device meanwhile.

## Refresh tokens

`RefreshTokens` is one auth session with its chain of tokens (`modules/auth/session.service.ts`,
`POST /auth/refresh` in `auth.routes.ts`, `cleanupAuth` in `workers/maintenance.ts`) and, external, the
browser: its tabs share the cookie, each has at most one refresh under way, and an answer may come
late, after that of another tab, or not at all.

| State | In the code |
| --- | --- |
| `tokens` | rows of `refresh_tokens`: "current" has no `rotated_at`; "recent" was rotated within `REUSE_GRACE_MS`, "rotated" before |
| `expired` | rows past `expires_at` |
| `session` | `auth_sessions.revoked_at`, `revoke_reason` and `expires_at` |
| `cookie`, `tab` | the browser, and the requests of its tabs with the token they carry |
| `mishaps` | history: whether requests have overlapped, one has failed, an answer was lost |

`Send` is the request up to `rotateRefreshToken`, `Read` its first query and the decisions on it,
`Rotate` the transaction, `Revoke` that for a reused token, `Answer` the header that sets or clears the
cookie, `DatabaseFails` any error on the way (the handler clears the cookie for it too, even if the
transaction has committed and only its confirmation is missing). Time is three actions:
`GraceEnds`, `TokenExpires`, `SessionOver`. **A request and its answer take less than the grace of
20 s**; so `GraceEnds` waits until no request is under way. Left out: checks of the account and the
device (see `AuthSessions`), and the app, which keeps its token itself.

| Run | Instance | Shows |
| --- | --- | --- |
| `refresh_rotation` | 3 tabs, 4 tokens, symmetric | `OneCurrentToken`, `RaceIsNotTheft`, `StaysSignedIn` |

Four tokens are three rotations in a row, so that a token, its successor and the successor's are in
flight together; three tabs are one that rotates, one that comes late, and one that begins with the new
token. `OneCurrentToken` holds whatever goes wrong, the other two say what they need:

* `RaceIsNotTheft` that no answer was lost. After a lost one the browser comes back with a rotated token
  when the grace is over, and its session is revoked: by design, since a thief would look the same.
* `StaysSignedIn` that there were no mishaps. Of two refreshes at once the loser is refused, and the
  refusal clears the cookie that the winner may just have set. The dashboards take a Web Lock so that
  it does not happen (`docs/internals.md:60`); the API by itself does not ensure it. An error clears
  the cookie too.

Deadlock is not checked: the tokens may be used up, or the browser signed out.

The last part of `AuthSessionsProofs` proves of it, for any tabs and numbers of tokens (at least one):

* `TypeCorrect`, and `OneCurrent`: the conditional update gives up the token it replaces, and nothing
  else makes one current. Both are inductive together.
* `RaceIsNoTheft`: `RaceIsNotTheft`, from the inductive invariant `RaceInv \/ "lost" \in mishaps`:
  `RaceInv` holds until an answer is lost.
  A token in an answer is known to nobody else (`AnswersAreNews`), so nobody can rotate it before it
  arrives; the cookie holds a rotated token only while an answer is on its way, which will replace it
  (`CookieUpToDate`), and meanwhile no grace ends; so what a tab sends is not long rotated
  (`SentTokensRecent`) and nobody is accused (`NobodyAccused`).

* `SignedIn`: `StaysSignedIn`. As long as nothing has gone wrong, expired or ended (`Untroubled`, which does not
  come back: `TroubleStays`), one tab at most has a request under way, and the token that can be exchanged is in
  the cookie or in that tab's answer (`Smooth`); nobody has been accused of a reuse.

All properties of this module are proved.

## Access, media and licences

`AccessPolicy` has no specification of its own. It holds the grants (`open`), what is archived
(`archived`) and, of each request, the evaluation of the policy under way (`check`): which facts it
has asked for and which it has found. The facts an item takes (`Facts`) are its chain (nothing above it is
archived), the grants for its teacher and subject, or for the subject alone if it is a file of a
subject, and of a video that it is READY (rule 4 of `access-policy.ts`; an asset comes with it). The
last is asked where the policy is about the video itself ("policy") and in a search, and not for the
space around it ("space": teacher, topic, session); its answer comes with the chain, in one query, and is
acted on last (`Answers`). `ReadFact` is one query. `MayAsk` is the order in which the code asks: `access-policy.ts`
the chain first, stopping there if it is not active, then the grants side by side (`Promise.all`);
`searchCatalog` and `getHome` the grants first; the lists everything at once. Since these are separate
queries a decision may mix moments. What can be promised, and is checked, is that **each fact held
at some moment since the request began**. Owners' changes (`SetAccess`, `SetArchived`) are
transactions and thus single steps. So is `SetReady`, what the pipeline does to a video: it publishes
it, or fails one that was READY (*Video pipeline*, LateError; nothing here depends on that it is rare). `expiresAt` of a grant is never set by the code and left out.

`MediaGuard` adds sessions, tokens and the cache of positive answers (`media-guard.ts`).

| State | In the code |
| --- | --- |
| `live` | sessions `assertSessionLive` accepts (session, account and device in one) |
| `tokens` | media tokens, as session and item (`media-token.ts`); they do not expire in the model |
| `cache` | `allowCache`: ticks an entry is still used for, 0 when lapsed, -1 when there is none |
| `req`, `check` | a request and its reads |
| `watched`, `seen`, `missed`, `since` | history for the properties: one fact of one item, chosen at the start |

`AskMedia` is a request with a token, from the cache or not; `ReadSession`, `Read`, then `Allow`,
`Refuse` or `ReadFails` follow. `AskPlayback`, `AskFileAccess`, `AskView`, `AskPage`, `AskHome` and
`AskSearch` are the requests of the app that apply the policy themselves. What a request has been
answered is visible for one state and then gone (`Finish`).

`SystemSettings` is the settings cache. A read that finds no entry takes two steps: `Fetch` is the
query, `Fill` what is done with its answer, which may be an old one by then and fills the cache
although an update has emptied it meanwhile. `OfflineLicenses` extends both: an issue reads the
settings, then the policy, then in one transaction revokes what it finds and inserts (`RevokeFormer`,
`Insert`: two steps, since the transaction takes no lock that another issue would wait for); a sync
lists the rows (`List`), evaluates the policy for each (`LookAt`, `Read`, `Settle`) and revokes those
that fail, for whatever reason (`Drop`). `RevokeOwn`, `Expire`, `CleanupExpired` and `UpdateSettings`
go on beside them.

Time passes in ticks. **A request takes at most `MaxAge` ticks** is an assumption on the
runtime; without it an answer found before a revocation could fill a cache at any later time.

| Run | Instance | Shows |
| --- | --- | --- |
| `media_requests` | 1 student with 1 session, a video of a teacher and a file of the subject, 2 requests, entries for 2 ticks, requests of at most 1, a cache of 1 entry, symmetric | `TypeOK`, `FreshIsCurrent`, `CutOffInTime`, `NobodyShutOut` |
| `licences_rules` | 1 student, 1 video, 2 requests and an update of the settings, 2 rows, 1 tick each, symmetric | `TypeOK`, `OneLicence`, `IssuedIsAllowed`, `SyncTakesClosed` |

Students share nothing but the limit of the cache, which two items reach as well as two students; so
one student. Two ticks tell a fresh entry from one that is about to lapse. Three constraints cut only
what is independent: `Overlaps` lets two requests overlap if both are about the cached video (others
touch no state that a second request reads), `Watches` watches each kind of fact at one item,
`OneChanges` lets either the settings or the access change, because an issue reads the former
completely before the latter. `Changes` cuts more: of the chain, the state of the video and the grant for
the subject it lets one change, the one that is watched (the last, where it is the session or the grant
for the teacher), always beside the grant for the teacher and the session. Two facts that change can
make a decision mix moments, and the policy reads them alike; without this constraint both runs take
longer than five minutes. The proofs have none of these constraints. Nothing has to happen by itself, so
there is no liveness. Deadlock is not checked: requests stop when rows are used up or the session is over.

`CutOffInTime` bounds the delay by the time of an entry *and* that of a request, for a decision may
be stored after what it rested on is gone. `docs/video-system.md:108` says that playback "stops at the
next key/playlist request"; playlists and segments go on for the time of the cache, keys stop at once
(`FreshIsCurrent`). `IssuedIsAllowed` has the like bound for downloads that are switched off. The 
property `OneLicence` excepts transactions that have overlapped: `offline_licenses` has no unique key,
and two of them may both insert.

`MediaGuardProofs` and `OfflineLicensesProofs` prove all eight properties for any catalogue, students,
sessions and requests, any cache and any times, without the constraints of the runs. They assume what
the modules do (`PolicyAssumption`, `GuardAssumption`, `LicenceAssumption`, `SettingsAssumption`):
each teacher has a subject, each item a place and nodes above it, each session a student, these are
distinct kinds, and bounds are natural numbers (an entry's time and the size of the cache at least 1). In both, each step is
first shown to be one of a few moves of one request (`Move`), and each invariant is proved per move.

* `NobodyIsShutOut` (signed in, entitled, and the video READY, all the time it was judged): what a check has asked for and not found was missing (`Noticed`), since `Read`
  finds what holds. The cache only ever answers yes, so that emptying it refuses nobody.
* `FreshWasCurrent`: a request for the watched key has seen what it has found (`Witnessed`).
* `CutsOffInTime`: what a request has found is gone for no longer than the request is old, and what a
  cached answer rests on for no longer than that and the ticks the entry has used (`Recent`). `Allow`
  turns the first into the second.
* `TakesClosed` (`LookInv`; a sync also takes the licence of a video that is open but no longer READY,
  and the property says so): as `Noticed`; a licence that is denied was looked at while something was missing.
* `OneInForce` (`ApartInv`): unless transactions have overlapped, one is under way at most, what it will
  revoke contains every licence in force for its video, and no two are in force.
* `Allowed`: what the policy found was seen (`GrantInv`), and `AgeInv` bounds, for the entry of the
  cache, for what a request has fetched and for one past the settings, how long downloads may have been
  off: a value fetched before an update may fill the cache after its invalidation.

## Catalogue

`Catalog` is one module for grades, subjects, teachers, their spaces (`subject_teachers`), topics,
sessions, videos and files, because all of them go through `modules/catalog/lifecycle.ts` and check
each other's rows. `exists`, `open`, `parent`, `name` and `position` are the columns (`archived_at`,
foreign keys, `title` or `name`, `sort_order`). A request checks before its transaction (`Begin`, with
what it has found in `req`), and writes later (`Insert`, `Patch`, `Restored`, `SetOrder`); a creation
has a step more, `Place`, in which its transaction reads the last position. `archiveEntity`
reads nothing its write depends on and is one step. Each operation of each kind of row is an action,
named as its function, on top of these. Requests that are refused change nothing and are left out,
as are descriptions, images and audit rows. Three things of the code show in the model:

* Only the parent itself must be active (`Above`), not what is above it.
* A reorder takes any subset of the active siblings; `lifecycle.ts:50` says "exactly the set of
  siblings", but what the callers pass as `siblingIds` is only tested to contain the ids.
* `updateGrade` and `restoreGrade` check the name, `restoreSubject` does not.

`Accounts` adds the users that are kept in the same way: `createOwner`, `updateOwner`, `createStudent`,
`updateStudent`, and the archiving and restoring of either. A phone is the `name` of such a row, with
a unique key over all of them, archived or not: a write that would repeat one fails (`KeyTaken`,
`WriteFails`) whatever the check before it has seen. The `parent` of a student is the grade, or
`NoGrade`; `createStudent` and `updateStudent` check it, restoring does not look at it. That there is
one active owner is checked by a read outside the transaction (`NoOtherActiveOwner`), and by nothing
else. Passwords, devices and sessions of these accounts are in `AuthSessions`.

| Run | Instance | Shows |
| --- | --- | --- |
| `catalog_requests` (`AccountsSpec`) | 3 grades, 1 student, 2 of every other kind, one of each (two grades, no student) there at the start, 2 names, 3 requests, 2 at a time, positions up to 3, symmetric | `TypeOK`, `NamesStayUnique`, `NewComesLast`, `ParentsOpen`, `OwnerStaysAlone` |

Three requests are one that prepares (archives, say), and two that run together. The action
properties speak of a request during which nobody else writes (`calm`, a history variable): the
checks are outside the transactions, and with a concurrent write each of the four promises can be
broken. What the run adds to unit tests is that all operations are considered, in all states that
other requests leave behind. Deadlock is not checked: the requests are used up.

`CatalogProofs` proves all five for `AccountsSpec` with any rows, names, requests and bounds. Assumed is
`CatalogAssumption`: ids tell rows of different tables apart, there are finitely many, and the rows of the
start have parents (`NoGrade` for owners). Three conditions are inductive together (`IInv`):

* `Fits`, whoever writes: what a request holds is of the kind its next step needs. Only a teacher is
  written with other rows, the spaces, and each of them has a subject of its own (so no two rows of one
  request are siblings); what is to be changed exists, and nothing is ever removed.
* `Checked`, for the requests of `calm`: what the handler found before its transaction is still so. It
  has a part for creations, places, updates and restorings. A step either leaves all rows as they are,
  or writes and ends every calm (`RowsKept`, `RowsWritten`), so that `Checked` is lost with `calm` and not before.
* `OwnersFree`: an owner has no grade, so restoring one needs no parent.

`Steps` says that each of the operations begins a request with what its guard has checked (`Begins`: one
lemma per kind of row, over `CreateWell`, `PatchWell`, `RestoringWell`, `ReorderWell` and three for
teachers, assignments and accounts), or is one of seven steps on rows and requests. `WhoWrites` picks
from them what `WritesAlone` means, and the four theorems on action properties read their conclusion
off `Checked`. `NewIsLast` needs that the maximum of a set of positions exists (`MaxIsThere`, from
`WFMin`).

Two theorems say what the checks achieve over whole runs. If no request has another write while it is
under way (`Undisturbed`), there is never a second active owner (`OneOwner`), and active grades have
different names (`GradeNamesUnique`), if so at the start. Without the condition TLC refutes
`SingleOwner`; of subjects the second does not hold even then, since `restoreSubject` does not check.

## Stored files

`StoredFiles` follows bytes. A request receives its body into a temporary file (`OpenTemp`, `Fail`,
`Aborted`, `Closed` for `receiveSingleFile`), reads the parent or the teacher (`ResolveParent`,
`LoadTeacher`), moves the file to a new key (`Commit`), writes the row (`SaveFile`, `SavePhoto`) and
then removes what is not needed (`Undo`, `RemoveFormer`, `Discard`). Every step may fail, the removals
included: `fs.rm` with `force` passes over a file that is not there, and over nothing else. A
temporary file that cannot be removed stays for the clean-up. (If that of a refused body cannot be removed,
`receiveSingleFile` tries twice and nobody handles the second error: the process ends, which is `Crash`.)
`List`, `LookAt` and `SweepFails` are the sweep of temporary files, which ends with an error when an
entry goes away under it or cannot be removed. A transaction that commits but whose answer is lost is not
modelled: `files.service.ts:151` would then remove the bytes of a row that exists. Keys are random, so a request's name stands for its key. **A request under way writes
to its temporary file at least once a day** (`Age`): the sweep goes by `mtime`.

| Run | Instance | Shows |
| --- | --- | --- |
| `stored_files` | 1 upload, 2 requests for one photo, a photo or none at the start, 1 crash | `TypeOK`, `RowsHaveBytes`, `NothingLeftBehind`, `TempsGo` |

Uploads share nothing, so one; two requests for a photo are what can go wrong there; one crash, after
which nothing is different from a start with leftovers. `NothingLeftBehind` names its exceptions
(`lost`): a crash, a failed row of a photo (there is no `Undo` in `setTeacherImage`), two requests
that both read the former photo, and a removal that rejects (`files.service.ts:152`,
`teachers.service.ts:173` and `:190`). Nothing sweeps `files/` and `images/`. `TempsGo` is under weak
fairness of the clean-up, which the scheduler starts every hour, and of the passing of days, and
under strong fairness of `LookAt`: the clean-up does not fail at one file every time it comes to it (a
file that can never be removed stays, of course). Deadlock
is not checked: when all requests are made and all temporary files gone nothing happens.

`StoredFilesProofs` proves the first three for any uploads, photo requests and crashes (assuming, as
`StoredFiles` does, that uploads and photo requests are distinct and neither is a key of the start).

* `RowsKeepBytes` (`BytesInv`): a request that is about to write its row has its bytes on disk; a row of a
  file is that of a request which is done. For the photo it takes that **a key once used never becomes
  the photo again** (`PhotoKeysUsed`): what a request read as former photo was one, so removing it cannot
  hit the one that has just been written (`FormerIsReplaced`).
* `NothingStaysBehind` (`LeftInv`): unless something was lost, at most one photo request is between its read
  and its write, and what it has read is still the photo (`OneInWork`); so what it removes is what its
  write has made superfluous.

## Notifications

`Notifications` is the row, its fan-out and the inboxes. `driver` is chosen at the start: the memory
queue in the API process, or Redis with a worker process, whose behaviour (jobs survive, an active job
of a process that died waits again once and then fails as stalled) is modelled from how `queues.ts` and
`workers/index.ts` use it. `CreateNotification` writes the row; queueing it is another step
(`EnqueueNotificationFanout`), which may fail for good or find a memory queue that is closed and drops
it without a word. An attempt looks the audience up (`ResolveAudience`), inserts batch by batch
(`InsertBatch`, with `skipDuplicates`) and is tried again as a whole (`AttemptFails`). `Shutdown`,
`Exit`, `Crash`, `ApiCrash` and `Boot` are the processes; only uploads are resumed at a start.

| Run | Instance | Shows |
| --- | --- | --- |
| `notifications` | 1 notification, 3 students in batches of 2, 3 attempts, 2 changes of the audience, 2 stops, fair | `TypeOK`, `DeliveredToAudience`, `ReadStaysRead`, `FanoutSettles` |

Three students are two batches, so that an attempt can fail between them; two changes let a student
leave and come back; two stops are the second stall. Notifications share nothing but the queue's
slots. Code has five attempts where the model has three: a first, a middle and a last one. Fairness
is weak, on the restart and the exit of the process and on the queue's work. Requests and failures
have none. The audience is what the query of `resolveAudience` returns at a moment; `steady` and `ever`
are the students in it throughout, and at some moment, since the row. Deadlock is not checked.

`NotificationsProofs` proves `TypeOK`, `DeliveredToAudience` and `ReadStaysRead` for any students,
batches, attempts and stops. `Delivering` carries the second: nobody is reached, or still to be inserted,
who never was in the audience, and a fan-out that inserts has reached or has yet to reach all who
were in it throughout. An attempt that fails or stalls starts again with a new look at the audience, which
still contains those (`steady` only shrinks), and rows that are there are skipped.

## Disagreements

Met while modelling; each is stated as a definition in the module named, and TLC refutes it with the
constants given (as an invariant, or as a property where it begins with `[]`), starting from the
`.cfg` of the component's run. The first is kept as a run.

| Definition | The repository says | The code does |
| --- | --- | --- |
| `VideoPipeline!ReadyStaysReady` (run `video_lateerror`) | "Idempotent and retry-safe" (`workers/video/process-video.ts:68`) | an error after the publishing transaction makes the retry fail the READY video |
| `VideoPipeline!OnlyUploadsAreCancelled` (`MaxJobs`, `MaxSweeps` 1) | "Uploads abandoned for 3 days are cancelled and their chunks deleted" (`workers/maintenance.ts:29`) | the sweep cancels each job it has read by id, whatever its status is by then: one submitted meanwhile is CANCELLED and its video stays PROCESSING, which `restartUpload` refuses |
| `VideoPipeline!SweepPicksIdleUploads` (2 chunks, 1 sweep) | "Uploads idle for 3 days are cancelled and cleaned up." (`docs/video-system.md:32`) | `receiveChunk` writes no row, so `updated_at` stays that of the creation and an upload that takes longer is cancelled, idle or not |
| `VideoPipeline!RetriesHaveInputs` (2 requests) | | `restartUpload` reads the status and the jobs to purge before its transaction; a complete in between queues a job whose chunks it then removes |
| `AuthSessions!SessionsKnowPassword` (1 member of staff, 2 requests) | "Revokes all sessions of that account" (`docs/security.md:22`) | a login that verified the former password opens its session after the reset has ended all others |
| `AuthSessions!RejectedForOtherDevice` (1 student, 1 phone, 2 requests) | "Fails with DEVICE_ALREADY_BOUND when the account is bound to a different device." (`modules/auth/auth.routes.ts:108`) | the second of two first logins from one phone collides on `active_student_id` and is refused |
| `OfflineLicenses!SyncTakesOnlyClosed` | "Grants whose access was closed meanwhile are revoked here" (`modules/student-portal/offline.service.ts:106`) | the catch block revokes for any error: a failed query, and also for a video that is open to the student but not READY |
| `Accounts!SingleOwner` | "at most one non-archived owner" (`modules/owners/owners.service.ts:10`) | two creations or restorings that overlap both find no other active owner, and both write |
| `Catalog!NamesUnique` | "unique active name per grade (service rule)" (`docs/database.md:38`) | a subject is archived, another one takes its name, and the first is restored unchecked |

## Not modelled

* Rendition planning and ffmpeg (`workers/video/ffmpeg.ts`, `modules/media/hls-playlist.ts`): arithmetic
  on what ffprobe reports and text of playlists, without state; the encode is a step that ends well,
  finds no video or fails.
* The video queue on Redis: only fan-outs are modelled with it.
* The shape of what is listed (read models, dashboard, DTOs): queries without state of their own; what
  they read of the policy is in `MediaGuard`.
* The audit log: written inside the transactions of the other components and never read by them.
* The HTTP layer, validation schemas, rate limits, API description, tokens and cryptography,
  configuration and logging, seeders, scripts, Docker files: no behaviour the properties depend on.
* Names of persons, roles and portals, progress percentages, upload tokens.
* Out of the prover's reach and left to TLC: what needs fairness or ENABLED (`JobsSettle`,
  the liveness of `ImplementsLifecycle`, `WaitersAnswered`, `TempsGo`, `FanoutSettles`).
