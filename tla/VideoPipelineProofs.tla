------------------------ MODULE VideoPipelineProofs ------------------------
(***************************************************************************)
(* What holds of VideoPipeline for any number of videos, jobs, chunks,     *)
(* requests, slots, crashes and sweeps.                                    *)
(***************************************************************************)
EXTENDS VideoPipeline, TLAPS

(***************************************************************************)
(* The inductive invariant.                                                *)
(***************************************************************************)

\* What is in flight names a job that was created, and nothing that will be retried has
\* used its last attempt.
RunRefs ==
    \A w \in Workers : run[w].pc # "idle" =>
        /\ run[w].job \in Jobs /\ run[w].attempt \in 1 .. MaxAttempts
        /\ jstat[run[w].job] # "NONE"
        /\ run[w].pc = "backoff" => run[w].attempt < MaxAttempts
QueueRefs ==
    /\ \A e \in waiting \cup timers : jstat[e.job] # "NONE"
    /\ \A e \in timers : e.attempt < MaxAttempts
RequestRefs ==
    \A r \in Requests :
        /\ req[r].pc \in {"chunk", "check", "accept", "enqueue"} =>
              /\ req[r].job \in Jobs /\ jstat[req[r].job] # "NONE"
              /\ req[r].vid \in Videos
        /\ req[r].pc \in {"restart", "purge"} => req[r].vid \in Videos
SweepRefs ==
    /\ \A j \in sweep.todo : jstat[j] # "NONE"
    /\ sweep.pc = "purge" => sweep.job \in Jobs
JobRefs   == \A j \in Jobs : jstat[j] = "NONE" <=> jvid[j] = NoVideo

TypeInv == TypeOK /\ RunRefs /\ QueueRefs /\ RequestRefs /\ SweepRefs /\ JobRefs

\* A run that has not published is not a run of a published job; its output is in place
\* when it comes to the transaction; what it drops afterwards was replaced.
RunsAreFresh ==
    \A w \in Workers :
        /\ run[w].pc \in EarlySteps \cup ErrorSteps => run[w].job \notin published
        /\ run[w].pc \in {"previous", "commit"} => run[w].job \in hls[jvid[run[w].job]]
        /\ run[w].pc \in {"commit", "dropPrevious"} => run[w].prev \in {0} \cup published
        /\ run[w].pc = "dropPrevious" /\ run[w].prev # 0 =>
              asset[jvid[run[w].job]] # run[w].prev
AssetsArePublished == \A v \in Videos : asset[v] # 0 => asset[v] \in published

\* The disk and the database do not fail after the publishing transaction, nor while a
\* run reads its job.  Otherwise a job that has published is attempted once more.
EarlyFaultsOnly == FaultPoints \cap ({"read"} \cup LateSteps) = {}

\* What that is needed for: no fault sends a run of a published job back to its start.
FaultsSparePublished == \A w \in Workers : run[w].pc \in FaultPoints => run[w].job \notin published

AssetInv == PublishedIsFinal /\ RunsAreFresh /\ AssetsArePublished /\ AssetOnDisk

(***************************************************************************)
(* Types.                                                                  *)
(***************************************************************************)
LEMMA TypeInvInit == Init => TypeInv
  BY VideosAssumption, BoundsAssumption, AttemptsAssumption
  DEF Init, TypeInv, TypeOK, RunRefs, QueueRefs, RequestRefs, SweepRefs, JobRefs, VideoStatus,
      JobStatus, RunType, RequestType, SweepType, EntryType, EarlySteps,
      LateSteps, ErrorSteps, Chunks,
      IdleRun, IdleRequest, IdleSweep, Slot, Request, SweepAt

LEMMA TypeInvStep == TypeInv /\ [Next]_vars => TypeInv'
<1> SUFFICES ASSUME TypeInv, [Next]_vars
             PROVE  TypeInv'
  OBVIOUS
<1> USE VideosAssumption, BoundsAssumption, AttemptsAssumption
      DEF TypeInv, TypeOK, RunRefs, QueueRefs, RequestRefs, SweepRefs, JobRefs, VideoStatus,
          JobStatus, RunType, RequestType, SweepType, EntryType, EarlySteps,
          LateSteps, ErrorSteps, Chunks
<1>1. ASSUME NEW v \in Videos, NEW j \in Jobs, CreateVideoUpload(v, j)
      PROVE  TypeInv'
  BY <1>1 DEF CreateVideoUpload, IsNextJob, Touch, queue, bounds
<1>2. ASSUME NEW r \in Requests, NEW v \in Videos, NEW j \in Jobs, CompleteUpload(r, v, j)
      PROVE  TypeInv'
  BY <1>2 DEF CompleteUpload, Request, IsActiveUpload, db, disk, queue, bounds,
        IsLatestJob, JobsOf
<1>3. ASSUME NEW r \in Requests, NEW v \in Videos, NEW j \in Jobs, NEW i \in Chunks,
             ReceiveChunk(r, v, j, i)
      PROVE  TypeInv'
  BY <1>3 DEF ReceiveChunk, Request, IsActiveUpload, db, disk, queue, bounds,
        IsLatestJob, JobsOf
<1>4. ASSUME NEW r \in Requests, NEW v \in Videos, RestartUpload(r, v)
      PROVE  TypeInv'
  BY <1>4 DEF RestartUpload, Request, JobsOf, db, disk, queue, bounds
<1>5. ASSUME NEW r \in Requests, ChunkStored(r)
      PROVE  TypeInv'
  BY <1>5 DEF ChunkStored, Respond, db, queue, bounds, IdleRequest, Request
<1>6. ASSUME NEW r \in Requests, ChunkFailed(r)
      PROVE  TypeInv'
  BY <1>6 DEF ChunkFailed, Respond, db, disk, queue, bounds, IdleRequest, Request
<1>7. ASSUME NEW r \in Requests, CompleteCheck(r)
      PROVE  TypeInv'
  <2>1. Goto(r, "accept") \/ Respond(r)
    BY <1>7 DEF CompleteCheck
  <2>2. UNCHANGED <<db, disk, mode, sweep, queue, bounds, published>>
    BY <1>7 DEF CompleteCheck
  <2>3. CASE Goto(r, "accept")
    BY <1>7, <2>2, <2>3 DEF CompleteCheck, Goto, Request, db, disk, queue, bounds
  <2>4. CASE Respond(r)
    BY <2>2, <2>4 DEF Respond, Request, IdleRequest, db, disk, queue, bounds
  <2>5. QED
    BY <2>1, <2>3, <2>4
<1>8. ASSUME NEW r \in Requests, CompleteAccept(r)
      PROVE  TypeInv'
  BY <1>8 DEF CompleteAccept, Touch, Goto, queue, bounds, Request
<1>9. ASSUME NEW r \in Requests, CompleteRefused(r)
      PROVE  TypeInv'
  BY <1>9 DEF CompleteRefused, Respond, db, disk, queue, bounds, IdleRequest,
        Request
<1>10. ASSUME NEW r \in Requests, CompleteEnqueue(r)
      PROVE  TypeInv'
  BY <1>10 DEF CompleteEnqueue, Enqueue, Respond, db, disk, bounds, Entry,
        IdleRequest, Request
<1>11. ASSUME NEW r \in Requests, NEW j \in Jobs, RestartCommit(r, j)
      PROVE  TypeInv'
  BY <1>11 DEF RestartCommit, JobsOf, IsNextJob, Touch, Goto, queue, bounds,
        Request
<1>12. ASSUME NEW r \in Requests, RestartFailed(r)
      PROVE  TypeInv'
  BY <1>12 DEF RestartFailed, Respond, db, disk, queue, bounds, IdleRequest,
        Request
<1>13. ASSUME NEW r \in Requests, RestartPurge(r)
      PROVE  TypeInv'
  BY <1>13 DEF RestartPurge, Respond, db, queue, bounds, IdleRequest, Request
<1>14. ASSUME NEW j \in Jobs, Age(j)
      PROVE  TypeInv'
  BY <1>14 DEF Age, queue, bounds
<1>15. ASSUME SweepBegin
      PROVE  TypeInv'
  BY <1>15 DEF SweepBegin, SweepAt, db, disk, queue
<1>16. ASSUME NEW j \in Jobs, SweepCancel(j)
      PROVE  TypeInv'
  BY <1>16 DEF SweepCancel, SweepAt, Touch, queue, bounds
<1>17. ASSUME SweepPurge
      PROVE  TypeInv'
  BY <1>17 DEF SweepPurge, SweepAt, db, queue, bounds
<1>18. ASSUME SweepFindStuck
      PROVE  TypeInv'
  BY <1>18 DEF SweepFindStuck, SweepAt, db, disk, queue, bounds
<1>19. ASSUME NEW j \in Jobs, SweepRequeue(j)
      PROVE  TypeInv'
  BY <1>19 DEF SweepRequeue, SweepAt, Enqueue, db, disk, bounds, Entry
<1>20. ASSUME SweepEnd
      PROVE  TypeInv'
  BY <1>20 DEF SweepEnd, IdleSweep, db, disk, queue, bounds, SweepAt
<1>21. ASSUME NEW w \in Workers, NEW e \in waiting, Start(w, e)
      PROVE  TypeInv'
  BY <1>21 DEF Start, Slot, db, disk, bounds
<1>22. ASSUME NEW w \in Workers, RunSkip(w)
      PROVE  TypeInv'
  BY <1>22 DEF RunSkip, Finish, db, disk, bounds, IdleRun, Slot
<1>23. ASSUME NEW w \in Workers, RunRead(w)
      PROVE  TypeInv'
  BY <1>23 DEF RunRead, Proceed, db, disk, bounds, Slot
<1>24. ASSUME NEW w \in Workers, RunMark(w)
      PROVE  TypeInv'
  BY <1>24 DEF RunMark, Touch, Proceed, bounds, Slot
<1>25. ASSUME NEW w \in Workers, RunAssemble(w)
      PROVE  TypeInv'
  BY <1>25 DEF RunAssemble, Proceed, db, bounds, Slot
<1>26. ASSUME NEW w \in Workers, RunEncode(w)
      PROVE  TypeInv'
  BY <1>26 DEF RunEncode, Proceed, db, disk, bounds, Slot
<1>27. ASSUME NEW w \in Workers, RunNotAVideo(w)
      PROVE  TypeInv'
  BY <1>27 DEF RunNotAVideo, Proceed, db, disk, bounds, Slot
<1>28. ASSUME NEW w \in Workers, RunUnpublish(w)
      PROVE  TypeInv'
  BY <1>28 DEF RunUnpublish, Proceed, db, bounds, Slot
<1>29. ASSUME NEW w \in Workers, RunPublish(w)
      PROVE  TypeInv'
  BY <1>29 DEF RunPublish, Proceed, db, bounds, Slot
<1>30. ASSUME NEW w \in Workers, RunPrevious(w)
      PROVE  TypeInv'
  BY <1>30 DEF RunPrevious, Remember, db, disk, bounds, Slot
<1>31. ASSUME NEW w \in Workers, RunCommit(w)
      PROVE  TypeInv'
  BY <1>31 DEF RunCommit, Touch, Proceed, bounds, Slot
<1>32. ASSUME NEW w \in Workers, RunDropPrevious(w)
      PROVE  TypeInv'
  BY <1>32 DEF RunDropPrevious, Proceed, db, bounds, Slot
<1>33. ASSUME NEW w \in Workers, RunClean(w)
      PROVE  TypeInv'
  BY <1>33 DEF RunClean, Proceed, db, bounds, Slot
<1>34. ASSUME NEW w \in Workers, RunAnnounce(w)
      PROVE  TypeInv'
  BY <1>34 DEF RunAnnounce, Finish, disk, bounds, IdleRun, Slot
<1>35. ASSUME NEW w \in Workers, RunFault(w)
      PROVE  TypeInv'
  <2>1. run[w].pc # "idle"
    BY <1>35, FaultsAssumption DEF RunFault
  <2>2. QED
    BY <1>35, <2>1 DEF RunFault, Proceed, db, disk, bounds, Slot
<1>36. ASSUME NEW w \in Workers, ErrorAborted(w)
      PROVE  TypeInv'
  BY <1>36 DEF ErrorAborted, Finish, db, disk, bounds, IdleRun, Slot
<1>37. ASSUME NEW w \in Workers, ErrorRequeued(w)
      PROVE  TypeInv'
  BY <1>37 DEF ErrorRequeued, Touch, Proceed, bounds, Slot
<1>38. ASSUME NEW w \in Workers, ErrorBackoff(w)
      PROVE  TypeInv'
  <2>1. CASE mode = "up"
    BY <1>38, <2>1 DEF ErrorBackoff, Entry, IdleRun, Finish, db, disk, bounds, Slot
  <2>2. CASE mode # "up"
    BY <1>38, <2>2 DEF ErrorBackoff, Entry, IdleRun, Finish, db, disk, bounds, Slot
  <2>3. QED
    BY <2>1, <2>2
<1>39. ASSUME NEW w \in Workers, ErrorUnrecorded(w)
      PROVE  TypeInv'
  <2>1. CASE run[w].attempt < MaxAttempts
    BY <1>39, <2>1 DEF ErrorUnrecorded, Proceed, Finish, db, disk, bounds, Slot, IdleRun
  <2>2. CASE ~(run[w].attempt < MaxAttempts)
    BY <1>39, <2>2 DEF ErrorUnrecorded, Proceed, Finish, db, disk, bounds, Slot, IdleRun
  <2>3. QED
    BY <2>1, <2>2
<1>40. ASSUME NEW w \in Workers, ErrorFailed(w)
      PROVE  TypeInv'
  BY <1>40 DEF ErrorFailed, Touch, Proceed, bounds, Slot
<1>41. ASSUME NEW w \in Workers, ErrorCleaned(w)
      PROVE  TypeInv'
  BY <1>41 DEF ErrorCleaned, Finish, db, bounds, IdleRun, Slot
<1>41a. ASSUME NEW w \in Workers, ErrorUncleaned(w)
        PROVE  TypeInv'
  <2>1. run[w].job \in Jobs /\ run[w].pc = "failed"
    BY <1>41a DEF ErrorUncleaned
  <2>2. source' \in SUBSET Jobs /\ revived' \in SUBSET Jobs
    BY <1>41a, <2>1 DEF ErrorUncleaned
  <2>3. CASE run[w].attempt < MaxAttempts
    <3>1. run' = [run EXCEPT ![w] = Slot("backoff", run[w].job, run[w].attempt, run[w].prev)]
      BY <1>41a, <2>3 DEF ErrorUncleaned, Proceed
    <3>2. UNCHANGED <<db, chunks, hls, touched, mode, req, sweep, waiting, timers, known, stops, sweeps, published>>
      BY <1>41a, <2>3 DEF ErrorUncleaned
    <3>3. QED
      BY <2>1, <2>2, <2>3, <3>1, <3>2 DEF db, Slot
  <2>4. CASE ~(run[w].attempt < MaxAttempts)
    <3>1. run' = [run EXCEPT ![w] = IdleRun] /\ known' \in SUBSET Jobs
      BY <1>41a, <2>4 DEF ErrorUncleaned, Finish
    <3>2. UNCHANGED <<db, chunks, hls, touched, mode, req, sweep, waiting, timers, stops, sweeps, published>>
      BY <1>41a, <2>4 DEF ErrorUncleaned
    <3>3. QED
      BY <2>2, <3>1, <3>2 DEF db, Slot, IdleRun
  <2>5. QED
    BY <2>3, <2>4
<1>42. ASSUME NEW e \in timers, Retry(e)
      PROVE  TypeInv'
  BY <1>42 DEF Retry, Entry, db, disk, bounds
<1>43. ASSUME Crash
      PROVE  TypeInv'
  BY <1>43 DEF Crash, LoseMemory, db, disk, IdleRun, IdleRequest, IdleSweep,
        Slot, Request, SweepAt
<1>44. ASSUME Shutdown
      PROVE  TypeInv'
  BY <1>44 DEF Shutdown, db, disk
<1>45. ASSUME Exit
      PROVE  TypeInv'
  BY <1>45 DEF Exit, LoseMemory, db, disk, bounds, IdleRun, IdleRequest,
        IdleSweep, Slot, Request, SweepAt
<1>46. ASSUME Boot
      PROVE  TypeInv'
  BY <1>46 DEF Boot, Entry, db, disk, bounds
<1>47. CASE UNCHANGED vars
    BY <1>47 DEF vars, db, disk, queue, bounds
<1>48. QED
    BY <1>1, <1>2, <1>3, <1>4, <1>5, <1>6, <1>7, <1>8, <1>9, <1>10, <1>11, <1>12,
        <1>13, <1>14, <1>15, <1>16, <1>17, <1>18, <1>19, <1>20, <1>21, <1>22,
        <1>23, <1>24, <1>25, <1>26, <1>27, <1>28, <1>29, <1>30, <1>31, <1>32,
        <1>33, <1>34, <1>35, <1>36, <1>37, <1>38, <1>39, <1>40, <1>41, <1>41a, <1>42,
        <1>43, <1>44, <1>45, <1>46, <1>47 DEF Next, RequestStep, SweepStep, RunStep

\* Every variable keeps its type, and no attempt is numbered above the limit.
THEOREM TypeCorrect == Spec => []TypeOK
<1>1. Spec => []TypeInv
  BY TypeInvInit, TypeInvStep, PTL DEF Spec
<1>2. TypeInv => TypeOK
  BY DEF TypeInv
<1>3. QED
  BY <1>1, <1>2, PTL

(***************************************************************************)
(* The queue.  A process that is down holds nothing in memory, so that     *)
(* Boot fills an empty queue.                                              *)
(***************************************************************************)
StoppedInv == mode = "down" => Pending = {} /\ Running = {}

QueueInv == QueueConsistent /\ StoppedInv

LEMMA QueueInvInit == Init => QueueInv
  BY DEF Init, QueueInv, QueueConsistent, StoppedInv, Running, Pending, IdleRun, Slot,
         OneRunPerJob, OneEntryPerJob, RunOrPending, HeldIsKnown, KnownIsHeld

LEMMA QueueUntouched == ASSUME QueueInv, UNCHANGED <<mode, queue>>
                        PROVE  QueueInv'
  BY DEF QueueInv, QueueConsistent, StoppedInv, Running, Pending, queue,
         OneRunPerJob, OneEntryPerJob, RunOrPending, HeldIsKnown, KnownIsHeld

\* Enqueueing adds an entry only for a job the queue does not hold.
LEMMA QueueEnqueue == ASSUME QueueInv, NEW j \in Jobs, Enqueue(j),
                             UNCHANGED <<mode, run, timers>>
                      PROVE  QueueInv'
<1> USE DEF QueueInv, StoppedInv, QueueConsistent, Running, Pending,
            OneRunPerJob, OneEntryPerJob, RunOrPending, HeldIsKnown, KnownIsHeld
<1>1. CASE mode = "up" /\ j \notin known
  <2>1. known' = known \cup {j} /\ waiting' = waiting \cup {Entry(j, 1)}
    BY <1>1 DEF Enqueue
  <2>2. Entry(j, 1).job = j
    BY DEF Entry
  <2>3. Running' = Running /\ \A w \in Running : run'[w].job = run[w].job
    OBVIOUS
  <2>4. Pending' = Pending \cup {Entry(j, 1)} /\ \A e \in Pending : e.job # j
    BY <1>1, <2>1
  <2>5. OneRunPerJob' /\ StoppedInv'
    BY <1>1, <2>3
  <2>6. OneEntryPerJob' /\ RunOrPending'
    BY <1>1, <2>1, <2>2, <2>3, <2>4
  <2>7. HeldIsKnown' /\ KnownIsHeld'
    BY <2>1, <2>2, <2>3, <2>4
  <2>8. QED
    BY <2>5, <2>6, <2>7
<1>2. CASE ~(mode = "up" /\ j \notin known)
  BY <1>2 DEF Enqueue
<1>3. QED
  BY <1>1, <1>2

\* A slot that goes on with its job.
LEMMA QueueProceed ==
    ASSUME TypeInv, QueueInv, NEW w \in Workers, NEW pc, NEW p,
           run[w].pc # "idle", pc # "idle",
           run' = [run EXCEPT ![w] = Slot(pc, run[w].job, run[w].attempt, p)],
           UNCHANGED <<mode, waiting, timers, known>>
    PROVE  QueueInv'
<1>1. Running' = Running /\ \A x \in Running : run'[x].job = run[x].job
  BY DEF Slot, TypeInv, TypeOK, Running
<1>2. QED
  BY <1>1 DEF QueueInv, StoppedInv, QueueConsistent, Pending, Running,
              OneRunPerJob, OneEntryPerJob, RunOrPending, HeldIsKnown, KnownIsHeld

\* A slot that is done with its job: the queue holds it nowhere else.
LEMMA QueueFinish ==
    ASSUME TypeInv, QueueInv, NEW w \in Workers, run[w].pc # "idle", Finish(w),
           UNCHANGED <<mode, waiting, timers>>
    PROVE  QueueInv'
<1>1. /\ Running' = Running \ {w} /\ w \in Running
      /\ \A x \in Running' : run'[x] = run[x]
  BY DEF IdleRun, Slot, TypeInv, TypeOK, Finish, Running
<1>2. Pending' = Pending /\ known' = known \ {run[w].job}
  BY DEF Pending, Finish
<1>3. QED
  BY <1>1, <1>2 DEF QueueInv, StoppedInv, QueueConsistent, Running, Pending,
                    OneRunPerJob, OneEntryPerJob, RunOrPending, HeldIsKnown, KnownIsHeld

LEMMA QueueInvStep == TypeInv /\ QueueInv /\ [Next]_vars => QueueInv'
<1> SUFFICES ASSUME TypeInv, QueueInv, [Next]_vars
             PROVE  QueueInv'
  OBVIOUS
<1>1. ASSUME NEW v \in Videos, NEW j \in Jobs, CreateVideoUpload(v, j)
      PROVE  QueueInv'
  BY <1>1, QueueUntouched DEF CreateVideoUpload
<1>2. ASSUME NEW r \in Requests, NEW v \in Videos, NEW j \in Jobs, CompleteUpload(r, v, j)
      PROVE  QueueInv'
  BY <1>2, QueueUntouched DEF CompleteUpload
<1>3. ASSUME NEW r \in Requests, NEW v \in Videos, NEW j \in Jobs, NEW i \in Chunks,
             ReceiveChunk(r, v, j, i)
      PROVE  QueueInv'
  BY <1>3, QueueUntouched DEF ReceiveChunk
<1>4. ASSUME NEW r \in Requests, NEW v \in Videos, RestartUpload(r, v)
      PROVE  QueueInv'
  BY <1>4, QueueUntouched DEF RestartUpload
<1>5. ASSUME NEW r \in Requests, ChunkStored(r)
      PROVE  QueueInv'
  BY <1>5, QueueUntouched DEF ChunkStored
<1>6. ASSUME NEW r \in Requests, ChunkFailed(r)
      PROVE  QueueInv'
  BY <1>6, QueueUntouched DEF ChunkFailed
<1>7. ASSUME NEW r \in Requests, CompleteCheck(r)
      PROVE  QueueInv'
  BY <1>7, QueueUntouched DEF CompleteCheck
<1>8. ASSUME NEW r \in Requests, CompleteAccept(r)
      PROVE  QueueInv'
  BY <1>8, QueueUntouched DEF CompleteAccept
<1>9. ASSUME NEW r \in Requests, CompleteRefused(r)
      PROVE  QueueInv'
  BY <1>9, QueueUntouched DEF CompleteRefused
<1>10. ASSUME NEW r \in Requests, CompleteEnqueue(r)
      PROVE  QueueInv'
  <2>1. req[r].job \in Jobs
    BY <1>10 DEF TypeInv, RequestRefs, CompleteEnqueue
  <2>2. QED
    BY <1>10, <2>1, QueueEnqueue DEF CompleteEnqueue
<1>11. ASSUME NEW r \in Requests, NEW j \in Jobs, RestartCommit(r, j)
      PROVE  QueueInv'
  BY <1>11, QueueUntouched DEF RestartCommit
<1>12. ASSUME NEW r \in Requests, RestartFailed(r)
      PROVE  QueueInv'
  BY <1>12, QueueUntouched DEF RestartFailed
<1>13. ASSUME NEW r \in Requests, RestartPurge(r)
      PROVE  QueueInv'
  BY <1>13, QueueUntouched DEF RestartPurge
<1>14. ASSUME NEW j \in Jobs, Age(j)
      PROVE  QueueInv'
  BY <1>14, QueueUntouched DEF Age
<1>15. ASSUME SweepBegin
      PROVE  QueueInv'
  BY <1>15, QueueUntouched DEF SweepBegin
<1>16. ASSUME NEW j \in Jobs, SweepCancel(j)
      PROVE  QueueInv'
  BY <1>16, QueueUntouched DEF SweepCancel
<1>17. ASSUME SweepPurge
      PROVE  QueueInv'
  BY <1>17, QueueUntouched DEF SweepPurge
<1>18. ASSUME SweepFindStuck
      PROVE  QueueInv'
  BY <1>18, QueueUntouched DEF SweepFindStuck
<1>19. ASSUME NEW j \in Jobs, SweepRequeue(j)
      PROVE  QueueInv'
  BY <1>19, QueueEnqueue DEF SweepRequeue
<1>20. ASSUME SweepEnd
      PROVE  QueueInv'
  BY <1>20, QueueUntouched DEF SweepEnd
<1>21. ASSUME NEW w \in Workers, NEW e \in waiting, Start(w, e)
      PROVE  QueueInv'
  <2> USE DEF QueueInv, StoppedInv, QueueConsistent, Running, Pending,
              OneRunPerJob, OneEntryPerJob, RunOrPending, HeldIsKnown, KnownIsHeld
  <2>1. /\ waiting' = waiting \ {e}
        /\ run' = [run EXCEPT ![w] = Slot("read", e.job, e.attempt, 0)]
        /\ run[w].pc = "idle" /\ e \in waiting /\ mode = "up"
        /\ UNCHANGED <<mode, timers, known>>
    BY <1>21 DEF Start
  <2>2. /\ run'[w].pc = "read" /\ run'[w].job = e.job
        /\ \A x \in Workers : x # w => run'[x] = run[x]
    BY <2>1 DEF Slot, TypeInv, TypeOK
  <2>3. Running' = Running \cup {w} /\ w \notin Running
    BY <2>1, <2>2
  <2>4. Pending' = Pending \ {e} /\ e \in Pending
    BY <2>1
  <2>5. \A f \in Pending' : f.job # e.job
    BY <2>1, <2>4
  <2>6. OneRunPerJob' /\ RunOrPending'
    BY <2>2, <2>3, <2>4, <2>5
  <2>7. OneEntryPerJob' /\ HeldIsKnown'
    BY <2>1, <2>2, <2>3, <2>4
  <2>8. KnownIsHeld' /\ StoppedInv'
    BY <2>1, <2>2, <2>3, <2>4
  <2>9. QED
    BY <2>6, <2>7, <2>8
<1>22. ASSUME NEW w \in Workers, RunSkip(w)
      PROVE  QueueInv'
  BY <1>22, QueueFinish DEF RunSkip
<1>23. ASSUME NEW w \in Workers, RunRead(w)
      PROVE  QueueInv'
  BY <1>23, QueueProceed DEF RunRead, Proceed
<1>24. ASSUME NEW w \in Workers, RunMark(w)
      PROVE  QueueInv'
  BY <1>24, QueueProceed DEF RunMark, Proceed
<1>25. ASSUME NEW w \in Workers, RunAssemble(w)
      PROVE  QueueInv'
  <2>1. PICK pc \in {"encode", "error"} : Proceed(w, pc)
    BY <1>25 DEF RunAssemble
  <2>2. QED
    BY <1>25, <2>1, QueueProceed DEF RunAssemble, Proceed
<1>26. ASSUME NEW w \in Workers, RunEncode(w)
      PROVE  QueueInv'
  BY <1>26, QueueProceed DEF RunEncode, Proceed
<1>27. ASSUME NEW w \in Workers, RunNotAVideo(w)
      PROVE  QueueInv'
  BY <1>27, QueueProceed DEF RunNotAVideo, Proceed
<1>28. ASSUME NEW w \in Workers, RunUnpublish(w)
      PROVE  QueueInv'
  BY <1>28, QueueProceed DEF RunUnpublish, Proceed
<1>29. ASSUME NEW w \in Workers, RunPublish(w)
      PROVE  QueueInv'
  BY <1>29, QueueProceed DEF RunPublish, Proceed
<1>30. ASSUME NEW w \in Workers, RunPrevious(w)
      PROVE  QueueInv'
  BY <1>30, QueueProceed DEF RunPrevious, Remember
<1>31. ASSUME NEW w \in Workers, RunCommit(w)
      PROVE  QueueInv'
  BY <1>31, QueueProceed DEF RunCommit, Proceed
<1>32. ASSUME NEW w \in Workers, RunDropPrevious(w)
      PROVE  QueueInv'
  BY <1>32, QueueProceed DEF RunDropPrevious, Proceed
<1>33. ASSUME NEW w \in Workers, RunClean(w)
      PROVE  QueueInv'
  BY <1>33, QueueProceed DEF RunClean, Proceed
<1>34. ASSUME NEW w \in Workers, RunAnnounce(w)
      PROVE  QueueInv'
  BY <1>34, QueueFinish DEF RunAnnounce
<1>35. ASSUME NEW w \in Workers, RunFault(w)
      PROVE  QueueInv'
  <2>1. run[w].pc # "idle"
    BY <1>35, FaultsAssumption DEF RunFault, EarlySteps, LateSteps
  <2>2. QED
    BY <1>35, <2>1, QueueProceed DEF RunFault, Proceed
<1>36. ASSUME NEW w \in Workers, ErrorAborted(w)
      PROVE  QueueInv'
  BY <1>36, QueueFinish DEF ErrorAborted
<1>37. ASSUME NEW w \in Workers, ErrorRequeued(w)
      PROVE  QueueInv'
  BY <1>37, QueueProceed DEF ErrorRequeued, Proceed
<1>38. ASSUME NEW w \in Workers, ErrorBackoff(w)
      PROVE  QueueInv'
  <2>1. CASE mode = "up"
    <3> DEFINE n == Entry(run[w].job, run[w].attempt)
    <3> USE DEF QueueInv, StoppedInv, QueueConsistent, Running, Pending,
                OneRunPerJob, OneEntryPerJob, RunOrPending, HeldIsKnown, KnownIsHeld
    <3>1. /\ timers' = timers \cup {n} /\ run' = [run EXCEPT ![w] = IdleRun]
          /\ run[w].pc = "backoff" /\ UNCHANGED <<mode, waiting, known>>
      BY <1>38, <2>1 DEF ErrorBackoff
    <3>2. n.job = run[w].job
      BY DEF Entry
    <3> HIDE DEF n
    <3>3. /\ Running' = Running \ {w} /\ w \in Running
          /\ \A x \in Running' : run'[x] = run[x]
      BY <3>1 DEF IdleRun, Slot, TypeInv, TypeOK
    <3>4. Pending' = Pending \cup {n} /\ \A f \in Pending : f.job # n.job
      BY <3>1, <3>2, <3>3
    <3>5. OneRunPerJob' /\ OneEntryPerJob' /\ StoppedInv'
      BY <2>1, <3>1, <3>3, <3>4
    <3>6. RunOrPending' /\ HeldIsKnown' /\ KnownIsHeld'
      BY <3>1, <3>2, <3>3, <3>4
    <3>7. QED
      BY <3>5, <3>6
  <2>2. CASE mode # "up"
    BY <1>38, <2>2, QueueFinish DEF ErrorBackoff
  <2>3. QED
    BY <2>1, <2>2
<1>39. ASSUME NEW w \in Workers, ErrorUnrecorded(w)
      PROVE  QueueInv'
  <2>1. run[w].pc # "idle" /\ UNCHANGED <<mode, waiting, timers>>
    BY <1>39 DEF ErrorUnrecorded
  <2>2. CASE Proceed(w, "backoff") /\ UNCHANGED known
    BY <2>1, <2>2, QueueProceed DEF Proceed
  <2>3. CASE Finish(w)
    BY <2>1, <2>3, QueueFinish
  <2>4. QED
    BY <1>39, <2>2, <2>3 DEF ErrorUnrecorded
<1>40. ASSUME NEW w \in Workers, ErrorFailed(w)
      PROVE  QueueInv'
  BY <1>40, QueueProceed DEF ErrorFailed, Proceed
<1>41. ASSUME NEW w \in Workers, ErrorCleaned(w)
      PROVE  QueueInv'
  BY <1>41, QueueFinish DEF ErrorCleaned
<1>41a. ASSUME NEW w \in Workers, ErrorUncleaned(w)
        PROVE  QueueInv'
  <2>1. run[w].pc # "idle" /\ UNCHANGED <<mode, waiting, timers>>
    BY <1>41a DEF ErrorUncleaned
  <2>2. CASE Proceed(w, "backoff") /\ UNCHANGED known
    BY <2>1, <2>2, QueueProceed DEF Proceed
  <2>3. CASE Finish(w)
    BY <2>1, <2>3, QueueFinish
  <2>4. QED
    BY <1>41a, <2>2, <2>3 DEF ErrorUncleaned
<1>42. ASSUME NEW e \in timers, Retry(e)
      PROVE  QueueInv'
  <2> DEFINE n == Entry(e.job, e.attempt + 1)
  <2> USE DEF QueueInv, StoppedInv, QueueConsistent, Running, Pending,
              OneRunPerJob, OneEntryPerJob, RunOrPending, HeldIsKnown, KnownIsHeld
  <2>1. /\ timers' = timers \ {e} /\ waiting' = waiting \cup {n} /\ mode = "up"
        /\ UNCHANGED <<mode, known, run>>
    BY <1>42 DEF Retry
  <2>2. n.job = e.job
    BY DEF Entry
  <2> HIDE DEF n
  <2>3. Pending' = (Pending \ {e}) \cup {n} /\ Running' = Running
    BY <2>1
  <2>4. \A f \in Pending \ {e} : f.job # n.job
    BY <2>2
  <2>5. OneRunPerJob' /\ StoppedInv'
    BY <2>1, <2>3
  <2>6. OneEntryPerJob'
    BY <2>1, <2>2, <2>3, <2>4
  <2>7. RunOrPending' /\ HeldIsKnown' /\ KnownIsHeld'
    BY <2>1, <2>2, <2>3
  <2>8. QED
    BY <2>5, <2>6, <2>7
<1>43. ASSUME Crash
      PROVE  QueueInv'
  <2>1. Pending' = {} /\ Running' = {} /\ mode' = "down" /\ known' = {}
    BY <1>43 DEF Crash, LoseMemory, Pending, Running, IdleRun, Slot
  <2>2. waiting' = {} /\ timers' = {}
    BY <1>43 DEF Crash, LoseMemory
  <2>3. QED
    BY <2>1, <2>2 DEF QueueInv, StoppedInv, QueueConsistent,
          OneRunPerJob, OneEntryPerJob, RunOrPending, HeldIsKnown, KnownIsHeld
<1>44. ASSUME Shutdown
      PROVE  QueueInv'
  <2>1. Pending' = {} /\ Running' = Running /\ mode' = "closing" /\ UNCHANGED <<run, known>>
    BY <1>44 DEF Shutdown, Pending, Running
  <2>2. waiting' = {} /\ timers' = {}
    BY <1>44 DEF Shutdown
  <2>3. QED
    BY <2>1, <2>2 DEF QueueInv, StoppedInv, QueueConsistent, Running,
          OneRunPerJob, OneEntryPerJob, RunOrPending, HeldIsKnown, KnownIsHeld
<1>45. ASSUME Exit
      PROVE  QueueInv'
  <2>1. Pending' = {} /\ Running' = {} /\ mode' = "down" /\ known' = {}
    BY <1>45 DEF Exit, LoseMemory, Pending, Running, IdleRun, Slot
  <2>2. waiting' = {} /\ timers' = {}
    BY <1>45 DEF Exit, LoseMemory
  <2>3. QED
    BY <2>1, <2>2 DEF QueueInv, StoppedInv, QueueConsistent,
          OneRunPerJob, OneEntryPerJob, RunOrPending, HeldIsKnown, KnownIsHeld
<1>46. ASSUME Boot
      PROVE  QueueInv'
  <2> USE DEF QueueInv, StoppedInv, QueueConsistent,
              OneRunPerJob, OneEntryPerJob, RunOrPending, HeldIsKnown, KnownIsHeld
  <2> DEFINE pending == {j \in Jobs : jstat[j] \in {"QUEUED", "PROCESSING"}}
  <2>1. /\ known' = pending /\ waiting' = {Entry(j, 1) : j \in pending}
        /\ timers' = {} /\ Running' = {} /\ mode' = "up"
    BY <1>46 DEF Boot, Pending, Running
  <2> HIDE DEF pending
  <2>2. Pending' = {Entry(j, 1) : j \in pending}
    BY <2>1 DEF Pending
  <2>3. \A j \in pending : Entry(j, 1).job = j
    BY DEF Entry
  <2>4. OneRunPerJob' /\ RunOrPending' /\ StoppedInv'
    BY <2>1, <2>2
  <2>5. OneEntryPerJob'
    BY <2>1, <2>2, <2>3
  <2>6. HeldIsKnown' /\ KnownIsHeld'
    BY <2>1, <2>2, <2>3
  <2>7. QED
    BY <2>4, <2>5, <2>6
<1>47. CASE UNCHANGED vars
  BY <1>47, QueueUntouched DEF vars
<1>48. QED
  BY <1>1, <1>2, <1>3, <1>4, <1>5, <1>6, <1>7, <1>8, <1>9, <1>10, <1>11, <1>12,
      <1>13, <1>14, <1>15, <1>16, <1>17, <1>18, <1>19, <1>20, <1>21, <1>22, <1>23,
      <1>24, <1>25, <1>26, <1>27, <1>28, <1>29, <1>30, <1>31, <1>32, <1>33, <1>34,
      <1>35, <1>36, <1>37, <1>38, <1>39, <1>40, <1>41, <1>41a, <1>42, <1>43, <1>44, <1>45,
      <1>46, <1>47 DEF Next, RequestStep, SweepStep, RunStep

\* The queue never holds a job twice, and never forgets or keeps one for nothing.
THEOREM QueueCorrect == Spec => []QueueConsistent
<1>1. Spec => [](TypeInv /\ QueueInv)
  BY TypeInvInit, TypeInvStep, QueueInvInit, QueueInvStep, PTL DEF Spec
<1>2. QueueInv => QueueConsistent
  BY DEF QueueInv
<1>3. QED
  BY <1>1, <1>2, PTL

(***************************************************************************)
(* The published files.                                                    *)
(***************************************************************************)
LEMMA AssetInvInit == Init => AssetInv
  BY DEF Init, AssetInv, PublishedIsFinal, RunsAreFresh, AssetsArePublished, AssetOnDisk,
         IdleRun, Slot, EarlySteps, LateSteps, ErrorSteps

LEMMA AssetUntouched == ASSUME AssetInv,
                               UNCHANGED <<vstat, asset, jstat, jvid, hls, run, published>>
                        PROVE  AssetInv'
  BY DEF AssetInv, PublishedIsFinal, RunsAreFresh, AssetsArePublished, AssetOnDisk

LEMMA AssetInvStep ==
    ASSUME FaultsSparePublished, TypeInv, QueueInv, AssetInv, [Next]_vars
    PROVE  AssetInv'
<1> USE DEF AssetInv, PublishedIsFinal, RunsAreFresh, AssetsArePublished, AssetOnDisk,
            EarlySteps, LateSteps, ErrorSteps

<1>0. /\ \A w \in Workers : run[w].pc # "idle" =>
            run[w].job \in Jobs /\ jstat[run[w].job] # "NONE" /\ jvid[run[w].job] \in Videos
      /\ \A w, x \in Workers : run[w].pc # "idle" /\ run[x].pc # "idle" /\ w # x =>
            run[w].job # run[x].job
  BY DEF TypeInv, TypeOK, RunRefs, JobRefs, QueueInv, QueueConsistent, OneRunPerJob, Running
<1> USE DEF TypeInv, TypeOK, RunType

<1>1. ASSUME NEW v \in Videos, NEW j \in Jobs, CreateVideoUpload(v, j)
      PROVE  AssetInv'
  BY <1>1, <1>0 DEF CreateVideoUpload, IsNextJob, Touch, queue, bounds
<1>2. ASSUME NEW r \in Requests, NEW v \in Videos, NEW j \in Jobs, CompleteUpload(r, v, j)
      PROVE  AssetInv'
  BY <1>2, AssetUntouched DEF CompleteUpload, db, disk, queue
<1>3. ASSUME NEW r \in Requests, NEW v \in Videos, NEW j \in Jobs, NEW i \in Chunks,
             ReceiveChunk(r, v, j, i)
      PROVE  AssetInv'
  BY <1>3, AssetUntouched DEF ReceiveChunk, db, disk, queue
<1>4. ASSUME NEW r \in Requests, NEW v \in Videos, RestartUpload(r, v)
      PROVE  AssetInv'
  BY <1>4, AssetUntouched DEF RestartUpload, db, disk, queue
<1>5. ASSUME NEW r \in Requests, ChunkStored(r)
      PROVE  AssetInv'
  BY <1>5, AssetUntouched DEF ChunkStored, db, queue
<1>6. ASSUME NEW r \in Requests, ChunkFailed(r)
      PROVE  AssetInv'
  BY <1>6, AssetUntouched DEF ChunkFailed, db, disk, queue
<1>7. ASSUME NEW r \in Requests, CompleteCheck(r)
      PROVE  AssetInv'
  BY <1>7, AssetUntouched DEF CompleteCheck, db, disk, queue
<1>8. ASSUME NEW r \in Requests, CompleteAccept(r)
      PROVE  AssetInv'
  BY <1>8, <1>0 DEF CompleteAccept, Touch, Goto, queue, bounds, Request
<1>9. ASSUME NEW r \in Requests, CompleteRefused(r)
      PROVE  AssetInv'
  BY <1>9, AssetUntouched DEF CompleteRefused, db, disk, queue
<1>10. ASSUME NEW r \in Requests, CompleteEnqueue(r)
      PROVE  AssetInv'
  BY <1>10, AssetUntouched DEF CompleteEnqueue, db, disk
<1>11. ASSUME NEW r \in Requests, NEW j \in Jobs, RestartCommit(r, j)
      PROVE  AssetInv'
  BY <1>11, <1>0 DEF RestartCommit, JobsOf, IsNextJob, Touch, Goto, queue, bounds,
      Request
<1>12. ASSUME NEW r \in Requests, RestartFailed(r)
      PROVE  AssetInv'
  BY <1>12, AssetUntouched DEF RestartFailed, db, disk, queue
<1>13. ASSUME NEW r \in Requests, RestartPurge(r)
      PROVE  AssetInv'
  BY <1>13, AssetUntouched DEF RestartPurge, db, queue
<1>14. ASSUME NEW j \in Jobs, Age(j)
      PROVE  AssetInv'
  BY <1>14, AssetUntouched DEF Age, queue
<1>15. ASSUME SweepBegin
      PROVE  AssetInv'
  BY <1>15, AssetUntouched DEF SweepBegin, db, disk, queue
<1>16. ASSUME NEW j \in Jobs, SweepCancel(j)
      PROVE  AssetInv'
  BY <1>16, <1>0 DEF SweepCancel, SweepAt, Touch, queue, bounds
<1>17. ASSUME SweepPurge
      PROVE  AssetInv'
  BY <1>17, AssetUntouched DEF SweepPurge, db, queue
<1>18. ASSUME SweepFindStuck
      PROVE  AssetInv'
  BY <1>18, AssetUntouched DEF SweepFindStuck, db, disk, queue
<1>19. ASSUME NEW j \in Jobs, SweepRequeue(j)
      PROVE  AssetInv'
  BY <1>19, AssetUntouched DEF SweepRequeue, db, disk
<1>20. ASSUME SweepEnd
      PROVE  AssetInv'
  BY <1>20, AssetUntouched DEF SweepEnd, db, disk, queue
<1>21. ASSUME NEW w \in Workers, NEW e \in waiting, Start(w, e)
      PROVE  AssetInv'
  BY <1>21, <1>0 DEF Start, Slot, db, disk, bounds
<1>22. ASSUME NEW w \in Workers, RunSkip(w)
      PROVE  AssetInv'
  BY <1>22, <1>0 DEF RunSkip, Finish, db, disk, bounds, IdleRun, Slot
<1>23. ASSUME NEW w \in Workers, RunRead(w)
      PROVE  AssetInv'
  BY <1>23, <1>0 DEF RunRead, Proceed, db, disk, bounds, Slot
<1>24. ASSUME NEW w \in Workers, RunMark(w)
      PROVE  AssetInv'
  BY <1>24, <1>0 DEF RunMark, Touch, Proceed, bounds, Slot
<1>25. ASSUME NEW w \in Workers, RunAssemble(w)
      PROVE  AssetInv'
  BY <1>25, <1>0 DEF RunAssemble, Proceed, db, bounds, Slot
<1>26. ASSUME NEW w \in Workers, RunEncode(w)
      PROVE  AssetInv'
  BY <1>26, <1>0 DEF RunEncode, Proceed, db, disk, bounds, Slot
<1>27. ASSUME NEW w \in Workers, RunNotAVideo(w)
      PROVE  AssetInv'
  BY <1>27, <1>0 DEF RunNotAVideo, Proceed, db, disk, bounds, Slot
<1>28. ASSUME NEW w \in Workers, RunUnpublish(w)
      PROVE  AssetInv'
  BY <1>28, <1>0 DEF RunUnpublish, Proceed, db, bounds, Slot
<1>29. ASSUME NEW w \in Workers, RunPublish(w)
      PROVE  AssetInv'
  BY <1>29, <1>0 DEF RunPublish, Proceed, db, bounds, Slot
<1>30. ASSUME NEW w \in Workers, RunPrevious(w)
      PROVE  AssetInv'
  BY <1>30, <1>0 DEF RunPrevious, Remember, db, disk, bounds, Slot
<1>31. ASSUME NEW w \in Workers, RunCommit(w)
      PROVE  AssetInv'
  <2> DEFINE job == run[w].job
             vid == jvid[run[w].job]
  <2>1. /\ job \in Jobs /\ vid \in Videos /\ job \notin published /\ job \in hls[vid]
        /\ run[w].prev \in {0} \cup published /\ run[w].pc # "idle" /\ vid = jvid[job]
        /\ job # 0
    BY <1>31, <1>0 DEF RunCommit, Jobs
  <2>2. /\ asset' = [asset EXCEPT ![vid] = job] /\ vstat' = [vstat EXCEPT ![vid] = "READY"]
        /\ jstat' = [jstat EXCEPT ![job] = "COMPLETED"] /\ published' = published \cup {job}
        /\ hls' = hls /\ jvid' = jvid
    BY <1>31 DEF RunCommit
  <2>3. /\ \A x \in Workers : x # w => run'[x] = run[x]
        /\ run'[w].pc = "dropPrevious" /\ run'[w].job = job /\ run'[w].prev = run[w].prev
    BY <1>31 DEF RunCommit, Proceed, Slot
  <2>4. \A x \in Workers : x # w /\ run[x].pc # "idle" => run[x].job # job
    BY <2>1, <1>0
  <2> HIDE DEF job, vid
  <2>5. PublishedIsFinal' /\ AssetsArePublished'
    BY <2>1, <2>2
  <2>6. AssetOnDisk'
    BY <2>1, <2>2
  <2>7. ASSUME NEW x \in Workers
        PROVE  /\ run'[x].pc \in EarlySteps \cup ErrorSteps => run'[x].job \notin published'
               /\ run'[x].pc \in {"previous", "commit"} => run'[x].job \in hls'[jvid'[run'[x].job]]
               /\ run'[x].pc \in {"commit", "dropPrevious"} => run'[x].prev \in {0} \cup published'
               /\ run'[x].pc = "dropPrevious" /\ run'[x].prev # 0 =>
                     asset'[jvid'[run'[x].job]] # run'[x].prev
    <3>1. CASE x = w
      BY <3>1, <2>1, <2>2, <2>3
    <3>2. CASE x # w
      BY <3>2, <2>1, <2>2, <2>3, <2>4, <1>0
    <3>3. QED
      BY <3>1, <3>2
  <2>8. QED
    BY <2>5, <2>6, <2>7
<1>32. ASSUME NEW w \in Workers, RunDropPrevious(w)
      PROVE  AssetInv'
  <2>1. CASE run[w].prev = run[w].job
    BY <1>32, <1>0, <2>1 DEF RunDropPrevious, Proceed, db, Slot
  <2>2. CASE run[w].prev # run[w].job
    <3> DEFINE vid == jvid[run[w].job]
               dropped == run[w].prev
    <3>1. /\ vid \in Videos /\ dropped \in {0} \cup published
          /\ asset[vid] # 0 => asset[vid] # dropped
      BY <1>32, <1>0 DEF RunDropPrevious
    <3>2. /\ hls' = [hls EXCEPT ![vid] = @ \ {dropped}]
          /\ UNCHANGED <<vstat, asset, jstat, jvid, published>>
      BY <1>32, <2>2 DEF RunDropPrevious, db
    <3>3. /\ \A x \in Workers : x # w => run'[x] = run[x]
          /\ run'[w].pc = "clean"
      BY <1>32 DEF RunDropPrevious, Proceed, Slot
    <3> HIDE DEF vid, dropped
    <3>4. PublishedIsFinal' /\ AssetsArePublished' /\ AssetOnDisk'
      BY <3>1, <3>2
    <3>5. \A x \in Workers : run[x].pc \in {"previous", "commit"} => run[x].job # dropped
      BY <3>1, <1>0 DEF Jobs
    <3>6. RunsAreFresh'
      BY <3>1, <3>2, <3>3, <3>5, <1>0
    <3>7. QED
      BY <3>4, <3>6
  <2>3. QED
    BY <2>1, <2>2
<1>33. ASSUME NEW w \in Workers, RunClean(w)
      PROVE  AssetInv'
  BY <1>33, <1>0 DEF RunClean, Proceed, db, bounds, Slot
<1>34. ASSUME NEW w \in Workers, RunAnnounce(w)
      PROVE  AssetInv'
  BY <1>34, <1>0 DEF RunAnnounce, Finish, disk, bounds, IdleRun, Slot
<1>35. ASSUME NEW w \in Workers, RunFault(w)
      PROVE  AssetInv'
  <2>1. run[w].job \notin published
    BY <1>35 DEF RunFault, FaultsSparePublished
  <2>2. QED
    BY <1>35, <2>1, <1>0 DEF RunFault, Proceed, db, disk, Slot
<1>36. ASSUME NEW w \in Workers, ErrorAborted(w)
      PROVE  AssetInv'
  BY <1>36, <1>0 DEF ErrorAborted, Finish, db, disk, bounds, IdleRun, Slot
<1>37. ASSUME NEW w \in Workers, ErrorRequeued(w)
      PROVE  AssetInv'
  BY <1>37, <1>0 DEF ErrorRequeued, Touch, Proceed, bounds, Slot
<1>38. ASSUME NEW w \in Workers, ErrorBackoff(w)
      PROVE  AssetInv'
  BY <1>38, <1>0 DEF ErrorBackoff, Entry, IdleRun, Finish, db, disk, bounds, Slot
<1>39. ASSUME NEW w \in Workers, ErrorUnrecorded(w)
      PROVE  AssetInv'
  BY <1>39, <1>0 DEF ErrorUnrecorded, Proceed, Finish, db, disk, bounds, Slot,
      IdleRun
<1>40. ASSUME NEW w \in Workers, ErrorFailed(w)
      PROVE  AssetInv'
  BY <1>40, <1>0 DEF ErrorFailed, Touch, Proceed, bounds, Slot
<1>41. ASSUME NEW w \in Workers, ErrorCleaned(w)
      PROVE  AssetInv'
  BY <1>41, <1>0 DEF ErrorCleaned, Finish, db, bounds, IdleRun, Slot
<1>41a. ASSUME NEW w \in Workers, ErrorUncleaned(w)
        PROVE  AssetInv'
  BY <1>41a, <1>0 DEF ErrorUncleaned, Proceed, Finish, db, Slot, IdleRun
<1>42. ASSUME NEW e \in timers, Retry(e)
      PROVE  AssetInv'
  BY <1>42, AssetUntouched DEF Retry, db, disk
<1>43. ASSUME Crash
      PROVE  AssetInv'
  BY <1>43, <1>0 DEF Crash, LoseMemory, db, disk, IdleRun, IdleRequest, IdleSweep,
      Slot, Request, SweepAt
<1>44. ASSUME Shutdown
      PROVE  AssetInv'
  BY <1>44, AssetUntouched DEF Shutdown, db, disk
<1>45. ASSUME Exit
      PROVE  AssetInv'
  BY <1>45, <1>0 DEF Exit, LoseMemory, db, disk, bounds, IdleRun, IdleRequest,
      IdleSweep, Slot, Request, SweepAt
<1>46. ASSUME Boot
      PROVE  AssetInv'
  BY <1>46, AssetUntouched DEF Boot, db, disk
<1>47. CASE UNCHANGED vars
  BY <1>47, AssetUntouched DEF vars, db, disk, queue
<1> HIDE DEF AssetInv, PublishedIsFinal, RunsAreFresh, AssetsArePublished, AssetOnDisk,
            EarlySteps, LateSteps, ErrorSteps, TypeInv, TypeOK, RunType
<1>48. QED
  BY <1>1, <1>2, <1>3, <1>4, <1>5, <1>6, <1>7, <1>8, <1>9, <1>10, <1>11, <1>12,
      <1>13, <1>14, <1>15, <1>16, <1>17, <1>18, <1>19, <1>20, <1>21, <1>22, <1>23,
      <1>24, <1>25, <1>26, <1>27, <1>28, <1>29, <1>30, <1>31, <1>32, <1>33, <1>34,
      <1>35, <1>36, <1>37, <1>38, <1>39, <1>40, <1>41, <1>41a, <1>42, <1>43, <1>44, <1>45,
      <1>46, <1>47 DEF Next, RequestStep, SweepStep, RunStep

LEMMA AssetInvHolds == ASSUME EarlyFaultsOnly
                       PROVE  Spec => []AssetInv
<1>1. Init => TypeInv /\ QueueInv /\ AssetInv
  BY TypeInvInit, QueueInvInit, AssetInvInit
<1>2. AssetInv => FaultsSparePublished
  BY FaultsAssumption DEF EarlyFaultsOnly, FaultsSparePublished, AssetInv, RunsAreFresh, EarlySteps, ErrorSteps
<1>3. TypeInv /\ QueueInv /\ AssetInv /\ [Next]_vars => (TypeInv /\ QueueInv /\ AssetInv)'
  BY <1>2, TypeInvStep, QueueInvStep, AssetInvStep
<1>4. QED
  BY <1>1, <1>3, PTL DEF Spec

\* Whatever uploads, encodes, sweeps and crashes there are, a READY video has its files,
\* as long as nothing fails between its publishing transaction and the end of the run.
THEOREM AssetsStayOnDisk == ASSUME EarlyFaultsOnly
                            PROVE  Spec => []AssetOnDisk
<1>1. AssetInv => AssetOnDisk
  BY DEF AssetInv
<1>2. QED
  BY <1>1, AssetInvHolds, PTL

\* On the same condition no run takes up a job that has published.
THEOREM PublishingIsFinal == ASSUME EarlyFaultsOnly
                             PROVE  Spec => []PublishedIsFinal
<1>1. AssetInv => PublishedIsFinal
  BY DEF AssetInv
<1>2. QED
  BY <1>1, AssetInvHolds, PTL

(***************************************************************************)
(* The rows of a video and of its uploads, and what is on disk, when no    *)
(* two requests for one video are in flight together, the sweep does not   *)
(* run and nothing fails after a publishing transaction.                   *)
(***************************************************************************)
\* The requests that complete or restart an upload; chunks may arrive side by side.
Decides(r) == req[r].pc \notin {"idle", "chunk"}

OneDecisionPerVideo ==
    \A r, s \in Requests : Decides(r) /\ Decides(s) /\ req[r].vid = req[s].vid => r = s

\* Nothing fails after the transaction that publishes a job, or makes it FAILED.
NoLateFaults == FaultPoints \cap (LateSteps \cup {"failed"}) = {}

InWork == {"QUEUED", "PROCESSING"}

\* What the queue holds is in work, until it has published or was marked FAILED.
HeldInWork ==
    /\ \A e \in Pending : jstat[e.job] \in InWork
    /\ \A w \in Workers :
          /\ run[w].pc \in {"read", "error", "permanent", "backoff"} \cup EarlySteps =>
                 jstat[run[w].job] \in InWork
          /\ run[w].pc \in LateSteps => jstat[run[w].job] = "COMPLETED"
          /\ run[w].pc = "failed" => jstat[run[w].job] = "FAILED"

JobsHaveVideos == \A j \in Jobs : jstat[j] # "NONE" => vstat[jvid[j]] # "NONE"

Held(j) == (\E e \in Pending : e.job = j) \/ (\E w \in Running : run[w].job = j)

\* What request r has read is still so when it acts on it.
StillRead(r) ==
    LET v == req[r].vid
        j == req[r].job
    IN
    /\ req[r].pc \in {"check", "accept", "enqueue"} => jvid[j] = v
    /\ req[r].pc \in {"check", "accept"} => IsActiveUpload(j, v)
    /\ req[r].pc = "accept" => chunks[j] = Chunks
    /\ req[r].pc = "enqueue" => jstat[j] \in InWork /\ ~Held(j)
    /\ req[r].pc = "restart" => vstat[v] \in {"UPLOADING", "FAILED"}
    /\ req[r].pc \in {"restart", "purge"} =>
          \A i \in req[r].prev :
             jvid[i] = v /\ jstat[i] \in {"UPLOADING", "FAILED", "CANCELLED"}

ReadStillSo == \A r \in Requests : StillRead(r)

Quiet == sweep.pc = "idle" /\ (mode = "down" => \A r \in Requests : req[r].pc = "idle")

\* What JobsMatchVideos says, for every job: on these conditions no FAILED job is tried again.
InputsKept ==
    \A j \in Jobs : jstat[j] \in {"QUEUED", "PROCESSING"} => chunks[j] = Chunks \/ j \in source
WorkIsLatest ==
    \A j \in Jobs : jstat[j] \in {"QUEUED", "PROCESSING"} =>
        IsLatestJob(j, jvid[j]) /\ vstat[jvid[j]] = "PROCESSING"
WorkInOrder == ProcessingHasWork /\ InputsKept /\ WorkIsLatest

RowsInv  == WorkInOrder /\ JobsHaveVideos
MatchInv == RowsInv /\ HeldInWork /\ ReadStillSo /\ Quiet

LEMMA NoneRevived == ASSUME NoLateFaults
                     PROVE  \A w \in Workers : ~ErrorUncleaned(w)
BY DEF NoLateFaults, ErrorUncleaned

LEMMA MatchInit == Init => MatchInv
BY VideosAssumption
   DEF Init, MatchInv, RowsInv, WorkInOrder, ProcessingHasWork, InputsKept, WorkIsLatest,
       JobsHaveVideos, HeldInWork, ReadStillSo, StillRead, Quiet, Pending, Running, IdleRun, IdleRequest,
       IdleSweep, Slot, Request, SweepAt, EarlySteps, LateSteps, InWork

\* What a run that is under way has, and that no other run has it.
LEMMA RunHas ==
    ASSUME TypeInv, QueueInv, NEW w \in Workers, run[w].pc # "idle"
    PROVE  /\ run[w].job \in Jobs /\ jstat[run[w].job] # "NONE" /\ jvid[run[w].job] \in Videos
           /\ \A x \in Workers : run[x].pc # "idle" /\ x # w => run[x].job # run[w].job
           /\ \A e \in Pending : e.job # run[w].job
BY DEF TypeInv, TypeOK, RunRefs, JobRefs, QueueInv, QueueConsistent, OneRunPerJob, RunOrPending, Running

LEMMA RowsUntouched ==
    ASSUME RowsInv, UNCHANGED <<vstat, jstat, jvid, chunks, source>>
    PROVE  RowsInv'
BY DEF RowsInv, WorkInOrder, ProcessingHasWork, InputsKept, WorkIsLatest,
       JobsHaveVideos, JobsOf, IsLatestJob

\* A job in work that stays in work, or adds to what is on disk.
LEMMA RowsAtWork ==
    ASSUME TypeInv, RowsInv, NEW j \in Jobs, jstat[j] \in InWork, NEW s \in InWork,
           jstat' = [jstat EXCEPT ![j] = s], UNCHANGED <<vstat, jvid, chunks, source>>
    PROVE  RowsInv'
BY DEF TypeInv, TypeOK, RowsInv, WorkInOrder, ProcessingHasWork, InputsKept,
       WorkIsLatest, JobsHaveVideos, JobsOf, IsLatestJob, InWork

\* A job in work that ends takes its video with it.
LEMMA RowsAtEnd ==
    ASSUME TypeInv, RowsInv, NEW j \in Jobs, jstat[j] \in InWork,
           NEW s \in {"COMPLETED", "FAILED"}, NEW t \in {"READY", "FAILED"},
           jstat' = [jstat EXCEPT ![j] = s], vstat' = [vstat EXCEPT ![jvid[j]] = t],
           UNCHANGED <<jvid, chunks, source>>
    PROVE  RowsInv'
<1>1. jstat[j] # "NONE" /\ jvid[j] \in Videos
  BY DEF TypeInv, TypeOK, JobRefs, InWork
<1>2. /\ jstat'[j] = s /\ \A i \in Jobs \ {j} : jstat'[i] = jstat[i]
      /\ vstat'[jvid[j]] = t /\ \A v \in Videos \ {jvid[j]} : vstat'[v] = vstat[v]
  BY <1>1 DEF TypeInv, TypeOK
<1>3. \A i \in Jobs : jstat[i] \in InWork /\ jvid[i] = jvid[j] => i = j
  <2>1. ASSUME NEW i \in Jobs, jstat[i] \in InWork, jvid[i] = jvid[j] PROVE i = j
    <3>1. i <= j /\ j <= i
      BY <2>1 DEF RowsInv, WorkInOrder, WorkIsLatest, IsLatestJob, JobsOf, InWork
    <3>2. QED
      BY <3>1, BoundsAssumption DEF Jobs
  <2>2. QED
    BY <2>1
<1>4. ProcessingHasWork'
  BY <1>1, <1>2 DEF RowsInv, WorkInOrder, ProcessingHasWork, JobsOf
<1>5. InputsKept'
  BY <1>2 DEF RowsInv, WorkInOrder, InputsKept
<1>6. WorkIsLatest'
  BY <1>1, <1>2, <1>3 DEF RowsInv, WorkInOrder, WorkIsLatest, IsLatestJob, JobsOf, InWork,
                          TypeInv, TypeOK, JobRefs
<1>7. JobsHaveVideos'
  BY <1>1, <1>2 DEF RowsInv, JobsHaveVideos, TypeInv, TypeOK, JobRefs
<1>8. QED
  BY <1>4, <1>5, <1>6, <1>7 DEF RowsInv, WorkInOrder

\* Files go that no job in work needs, or come.
LEMMA RowsAndFiles ==
    ASSUME RowsInv, UNCHANGED <<vstat, jstat, jvid>>,
           \A j \in Jobs : jstat[j] \in InWork =>
               /\ chunks[j] = Chunks => chunks'[j] = Chunks
               /\ j \in source => j \in source'
    PROVE  RowsInv'
BY DEF RowsInv, WorkInOrder, ProcessingHasWork, InputsKept, WorkIsLatest,
       JobsHaveVideos, JobsOf, IsLatestJob, InWork

LEMMA RowsStep ==
    ASSUME NoLateFaults, MaxSweeps = 0, TypeInv, QueueInv, MatchInv, [Next]_vars
    PROVE  RowsInv'
<1> USE DEF MatchInv
<1>0. /\ \A w \in Workers : run[w].pc # "idle" =>
            run[w].job \in Jobs /\ jstat[run[w].job] # "NONE" /\ jvid[run[w].job] \in Videos
      /\ \A r \in Requests : req[r].pc \in {"chunk", "check", "accept", "enqueue"} =>
            req[r].job \in Jobs /\ req[r].vid \in Videos
  BY RunHas DEF TypeInv, RequestRefs
<1>1. ASSUME NEW v \in Videos, NEW j \in Jobs, CreateVideoUpload(v, j)
      PROVE  RowsInv'
  <2>1. /\ vstat[v] = "NONE" /\ jstat[j] = "NONE"
        /\ vstat' = [vstat EXCEPT ![v] = "UPLOADING"] /\ jstat' = [jstat EXCEPT ![j] = "UPLOADING"]
        /\ jvid' = [jvid EXCEPT ![j] = v] /\ UNCHANGED <<chunks, source>>
    BY <1>1 DEF CreateVideoUpload, IsNextJob
  <2>2. jvid[j] = NoVideo /\ \A i \in Jobs : jvid[i] # v
    BY <2>1, VideosAssumption DEF TypeInv, TypeOK, JobRefs, RowsInv, JobsHaveVideos
  <2>3. QED
    BY <2>1, <2>2 DEF TypeInv, TypeOK, RowsInv, WorkInOrder, ProcessingHasWork, InputsKept,
                      WorkIsLatest, JobsHaveVideos, JobsOf, IsLatestJob
<1>5. ASSUME NEW r \in Requests, ChunkStored(r)
      PROVE  RowsInv'
  <2>1. /\ chunks' = [chunks EXCEPT ![req[r].job] = @ \cup {req[r].idx}]
        /\ req[r].idx \in Chunks /\ UNCHANGED <<vstat, jstat, jvid, source>>
    BY <1>5 DEF ChunkStored, db, TypeInv, TypeOK, RequestType
  <2>2. QED
    BY <2>1, RowsAndFiles DEF TypeInv, TypeOK
<1>8. ASSUME NEW r \in Requests, CompleteAccept(r)
      PROVE  RowsInv'
  <2> DEFINE v == req[r].vid
             j == req[r].job
  <2>1. /\ jstat[j] = "UPLOADING" /\ j \in Jobs /\ v \in Videos /\ jvid[j] = v
        /\ IsActiveUpload(j, v) /\ chunks[j] = Chunks
        /\ jstat' = [jstat EXCEPT ![j] = "QUEUED"] /\ vstat' = [vstat EXCEPT ![v] = "PROCESSING"]
        /\ UNCHANGED <<jvid, chunks, source>>
    BY <1>0, <1>8 DEF CompleteAccept, ReadStillSo, StillRead
  <2> HIDE DEF v, j
  <2>2. /\ jstat'[j] = "QUEUED" /\ \A i \in Jobs \ {j} : jstat'[i] = jstat[i]
        /\ vstat'[v] = "PROCESSING" /\ \A u \in Videos \ {v} : vstat'[u] = vstat[u]
    BY <2>1 DEF TypeInv, TypeOK
  <2>3. \A i \in Jobs : jstat[i] # "NONE" => jvid[i] \in Videos
    BY DEF TypeInv, TypeOK, JobRefs
  <2>4. ProcessingHasWork'
    BY <2>1, <2>2 DEF RowsInv, WorkInOrder, ProcessingHasWork, JobsOf
  <2>5. InputsKept'
    BY <2>1, <2>2 DEF RowsInv, WorkInOrder, InputsKept
  <2>6. WorkIsLatest'
    BY <2>1, <2>2, <2>3 DEF RowsInv, WorkInOrder, WorkIsLatest, IsActiveUpload, IsLatestJob, JobsOf
  <2>7. JobsHaveVideos'
    BY <2>1, <2>2, <2>3 DEF RowsInv, JobsHaveVideos
  <2>8. QED
    BY <2>4, <2>5, <2>6, <2>7 DEF RowsInv, WorkInOrder
<1>11. ASSUME NEW r \in Requests, NEW j \in Jobs, RestartCommit(r, j)
      PROVE  RowsInv'
  <2> DEFINE v == req[r].vid
  <2>1. /\ v \in Videos /\ jstat[j] = "NONE" /\ vstat[v] \in {"UPLOADING", "FAILED"}
        /\ \A i \in Jobs : /\ i = j => jstat'[i] = "UPLOADING"
                           /\ i # j => jstat'[i] = jstat[i] \/ (jstat'[i] = "CANCELLED" /\ jstat[i] = "UPLOADING")
        /\ jvid' = [jvid EXCEPT ![j] = v] /\ vstat' = [vstat EXCEPT ![v] = "UPLOADING"]
        /\ UNCHANGED <<chunks, source>>
    BY <1>11 DEF RestartCommit, IsNextJob, TypeInv, RequestRefs, ReadStillSo, StillRead
  <2> HIDE DEF v
  <2>2. /\ vstat'[v] = "UPLOADING" /\ \A u \in Videos \ {v} : vstat'[u] = vstat[u]
        /\ jvid'[j] = v /\ jvid[j] = NoVideo /\ \A i \in Jobs \ {j} : jvid'[i] = jvid[i]
    BY <2>1 DEF TypeInv, TypeOK, JobRefs
  <2>3. \A i \in Jobs : jstat[i] # "NONE" => jvid[i] \in Videos
    BY DEF TypeInv, TypeOK, JobRefs
  <2>4. ProcessingHasWork'
    BY <2>1, <2>2 DEF RowsInv, WorkInOrder, ProcessingHasWork, JobsOf
  <2>5. InputsKept'
    BY <2>1, <2>2 DEF RowsInv, WorkInOrder, InputsKept
  <2>6. WorkIsLatest'
    BY <2>1, <2>2, <2>3, VideosAssumption DEF RowsInv, WorkInOrder, WorkIsLatest, IsLatestJob, JobsOf
  <2>7. JobsHaveVideos'
    BY <2>1, <2>2, <2>3 DEF RowsInv, JobsHaveVideos
  <2>8. QED
    BY <2>4, <2>5, <2>6, <2>7 DEF RowsInv, WorkInOrder
<1>13. ASSUME NEW r \in Requests, RestartPurge(r)
      PROVE  RowsInv'
  <2>1. \A j \in Jobs : jstat[j] \in InWork => j \notin req[r].prev
    BY <1>13 DEF RestartPurge, ReadStillSo, StillRead, InWork
  <2>2. QED
    BY <1>13, <2>1, RowsAndFiles DEF RestartPurge, db
<1>24. ASSUME NEW w \in Workers, RunMark(w) \/ ErrorRequeued(w)
      PROVE  RowsInv'
  <2>1. jstat[run[w].job] \in InWork /\ run[w].job \in Jobs
    BY <1>0, <1>24 DEF RunMark, ErrorRequeued, HeldInWork, EarlySteps
  <2>2. QED
    BY <1>24, <2>1, RowsAtWork DEF RunMark, ErrorRequeued, InWork
<1>25. ASSUME NEW w \in Workers, RunAssemble(w)
      PROVE  RowsInv'
  BY <1>25, RowsAndFiles DEF RunAssemble, db
<1>31. ASSUME NEW w \in Workers, RunCommit(w) \/ ErrorFailed(w)
      PROVE  RowsInv'
  <2>1. jstat[run[w].job] \in InWork /\ run[w].job \in Jobs
    BY <1>0, <1>31 DEF RunCommit, ErrorFailed, HeldInWork, EarlySteps
  <2>2. QED
    BY <1>31, <2>1, RowsAtEnd DEF RunCommit, ErrorFailed
<1>33. ASSUME NEW w \in Workers, RunClean(w) \/ ErrorCleaned(w)
      PROVE  RowsInv'
  <2>1. jstat[run[w].job] \notin InWork /\ run[w].job \in Jobs
    BY <1>0, <1>33 DEF RunClean, ErrorCleaned, HeldInWork, LateSteps, InWork
  <2>2. QED
    BY <1>33, <2>1, RowsAndFiles DEF RunClean, ErrorCleaned, db, TypeInv, TypeOK
<1>34. ASSUME Next, UNCHANGED <<vstat, jstat, jvid, chunks, source>>
      PROVE  RowsInv'
  BY <1>34, RowsUntouched
<1>35. CASE UNCHANGED vars
  BY <1>35, RowsUntouched DEF vars, db, disk
<1>36. QED
  BY <1>1, <1>5, <1>8, <1>11, <1>13, <1>24, <1>25, <1>31, <1>33, <1>34, <1>35, NoneRevived, BoundsAssumption
     DEF Next, RequestStep, SweepStep, RunStep, Quiet, db, disk,
         CompleteUpload, ReceiveChunk, RestartUpload, ChunkFailed, CompleteCheck, CompleteRefused,
         CompleteEnqueue, RestartFailed, Age, SweepBegin, SweepCancel, SweepRequeue, SweepPurge,
         SweepFindStuck, SweepEnd, Start, RunSkip, RunRead, RunEncode, RunNotAVideo, RunUnpublish,
         RunPublish, RunPrevious, RunDropPrevious, RunAnnounce, RunFault, ErrorAborted,
         ErrorBackoff, ErrorUnrecorded, Retry, Crash, Shutdown, Exit, Boot

\* Rows of jobs that the queue does not hold may change.
LEMMA HeldUntouched ==
    ASSUME TypeInv, QueueInv, HeldInWork, UNCHANGED <<waiting, timers, run>>,
           \A j \in Jobs : \/ jstat'[j] = jstat[j]
                           \/ jstat[j] \in {"NONE", "UPLOADING"}
    PROVE  HeldInWork'
<1>1. \A e \in Pending : e.job \in Jobs
  BY DEF TypeInv, TypeOK, EntryType, Pending
<1>2. \A w \in Workers : run[w].pc # "idle" => run[w].job \in Jobs
  BY RunHas
<1>3. Pending' = Pending
  BY DEF Pending
<1>4. QED
  BY <1>1, <1>2, <1>3 DEF HeldInWork, InWork, EarlySteps, LateSteps

\* A run goes on, and writes at most the row of its own job.
LEMMA HeldRun ==
    ASSUME TypeInv, QueueInv, HeldInWork, UNCHANGED <<waiting, timers>>, NEW w \in Workers, NEW q,
           run[w].pc # "idle", run' = [run EXCEPT ![w] = q], q.job = run[w].job,
           \A j \in Jobs : jstat'[j] = jstat[j] \/ j = run[w].job,
           q.pc \in {"read", "error", "permanent", "backoff"} \cup EarlySteps =>
               jstat'[q.job] \in InWork,
           q.pc \in LateSteps => jstat'[q.job] = "COMPLETED",
           q.pc = "failed" => jstat'[q.job] = "FAILED"
    PROVE  HeldInWork'
<1>1. run'[w] = q /\ \A x \in Workers \ {w} : run'[x] = run[x]
  BY DEF TypeInv, TypeOK
<1>2. \A e \in Pending' : e \in Pending /\ e.job \in Jobs /\ jstat'[e.job] = jstat[e.job]
  BY RunHas DEF Pending, TypeInv, TypeOK, EntryType
<1>3. ASSUME NEW x \in Workers \ {w}, run[x].pc # "idle"
      PROVE  run[x].job \in Jobs /\ jstat'[run[x].job] = jstat[run[x].job]
  BY <1>3, RunHas
<1>4. QED
  BY <1>1, <1>2, <1>3 DEF HeldInWork, EarlySteps, LateSteps

\* A run ends, or nothing more than that.
LEMMA HeldLess ==
    ASSUME HeldInWork, UNCHANGED jstat,
           \A e \in Pending' : jstat[e.job] \in InWork,
           \A w \in Workers : run'[w] = run[w] \/ run'[w].pc = "idle"
    PROVE  HeldInWork'
BY DEF HeldInWork, EarlySteps, LateSteps

LEMMA HeldStep ==
    ASSUME NoLateFaults, MaxSweeps = 0, TypeInv, QueueInv, MatchInv, [Next]_vars
    PROVE  HeldInWork'
<1> USE DEF MatchInv
<1>0. /\ jstat \in [Jobs -> JobStatus] /\ run \in [Workers -> RunType]
      /\ \A e \in Pending : jstat[e.job] \in InWork
      /\ IdleRun.pc = "idle"
  BY DEF TypeInv, TypeOK, HeldInWork, IdleRun, Slot
<1>1. ASSUME NEW v \in Videos, NEW j \in Jobs, CreateVideoUpload(v, j)
      PROVE  HeldInWork'
  BY <1>0, <1>1, HeldUntouched DEF CreateVideoUpload, IsNextJob, queue
<1>8. ASSUME NEW r \in Requests, CompleteAccept(r)
      PROVE  HeldInWork'
  BY <1>0, <1>8, HeldUntouched DEF CompleteAccept, queue
<1>11. ASSUME NEW r \in Requests, NEW j \in Jobs, RestartCommit(r, j)
      PROVE  HeldInWork'
  BY <1>11, HeldUntouched DEF RestartCommit, IsNextJob, queue
<1>10. ASSUME NEW r \in Requests, CompleteEnqueue(r)
      PROVE  HeldInWork'
  <2>1. jstat[req[r].job] \in InWork
    BY <1>10 DEF CompleteEnqueue, ReadStillSo, StillRead
  <2>2. waiting' = waiting \/ waiting' = waiting \cup {Entry(req[r].job, 1)}
    BY <1>10 DEF CompleteEnqueue, Enqueue
  <2>3. Entry(req[r].job, 1).job = req[r].job
    BY DEF Entry
  <2>4. \A e \in Pending' : jstat[e.job] \in InWork
    BY <1>0, <1>10, <2>1, <2>2, <2>3 DEF CompleteEnqueue, Pending
  <2>5. QED
    BY <1>10, <2>4, HeldLess DEF CompleteEnqueue, db
<1>21. ASSUME NEW w \in Workers, NEW e \in waiting, Start(w, e)
      PROVE  HeldInWork'
  <2>1. /\ run'[w].job = e.job /\ run'[w].pc = "read"
        /\ \A x \in Workers \ {w} : run'[x] = run[x]
    BY <1>0, <1>21 DEF Start, Slot
  <2>2. jstat[e.job] \in InWork /\ Pending' \subseteq Pending /\ jstat' = jstat
    BY <1>0, <1>21 DEF Start, Pending, db
  <2>3. QED
    BY <2>1, <2>2 DEF HeldInWork, EarlySteps, LateSteps
\* A run that ends.
<1>22. ASSUME NEW w \in Workers, Finish(w), UNCHANGED <<jstat, waiting, timers>>
       PROVE  HeldInWork'
  BY <1>0, <1>22, HeldLess DEF Finish, Pending
\* A run that goes on without a write to its row, or with one.
<1>23. ASSUME NEW w \in Workers, run[w].pc # "idle", NEW pc, NEW p,
              run' = [run EXCEPT ![w] = Slot(pc, run[w].job, run[w].attempt, p)],
              UNCHANGED <<waiting, timers>>,
              \/ UNCHANGED jstat
              \/ \E s : jstat' = [jstat EXCEPT ![run[w].job] = s],
              pc \in {"read", "error", "permanent", "backoff"} \cup EarlySteps =>
                  jstat'[run[w].job] \in InWork,
              pc \in LateSteps => jstat'[run[w].job] = "COMPLETED",
              pc = "failed" => jstat'[run[w].job] = "FAILED"
       PROVE  HeldInWork'
  <2> DEFINE q == Slot(pc, run[w].job, run[w].attempt, p)
  <2>1. q.pc = pc /\ q.job = run[w].job
    BY DEF Slot
  <2>2. \A j \in Jobs : jstat'[j] = jstat[j] \/ j = run[w].job
    BY <1>0, <1>23
  <2>3. run' = [run EXCEPT ![w] = q]
    BY <1>23
  <2> HIDE DEF q
  <2>4. QED
    BY <1>23, <2>1, <2>2, <2>3, HeldRun
<1>23a. ASSUME NEW w \in Workers, run[w].pc # "idle", NEW pc, Proceed(w, pc),
              UNCHANGED <<waiting, timers>>,
              \/ UNCHANGED jstat
              \/ \E s : jstat' = [jstat EXCEPT ![run[w].job] = s],
              pc \in {"read", "error", "permanent", "backoff"} \cup EarlySteps =>
                  jstat'[run[w].job] \in InWork,
              pc \in LateSteps => jstat'[run[w].job] = "COMPLETED",
              pc = "failed" => jstat'[run[w].job] = "FAILED"
       PROVE  HeldInWork'
  BY <1>23, <1>23a DEF Proceed
<1>24. ASSUME NEW w \in Workers, UNCHANGED <<jstat, waiting, timers>>,
              \/ RunRead(w) \/ RunAssemble(w) \/ RunEncode(w) \/ RunNotAVideo(w) \/ RunUnpublish(w)
              \/ RunPublish(w) \/ RunPrevious(w)
       PROVE  HeldInWork'
  <2>1. jstat[run[w].job] \in InWork
    BY <1>24 DEF HeldInWork, EarlySteps, RunRead, RunAssemble, RunEncode, RunNotAVideo, RunUnpublish,
                 RunPublish, RunPrevious
  <2>2. \E pc \in {"error", "permanent"} \cup EarlySteps : \E p :
            run' = [run EXCEPT ![w] = Slot(pc, run[w].job, run[w].attempt, p)]
    BY <1>24 DEF RunRead, RunAssemble, RunEncode, RunNotAVideo, RunUnpublish, RunPublish,
                 RunPrevious, Remember, Proceed, EarlySteps
  <2>3. run[w].pc # "idle"
    BY <1>24 DEF RunRead, RunAssemble, RunEncode, RunNotAVideo, RunUnpublish, RunPublish, RunPrevious
  <2>4. QED
    BY <1>23, <1>24, <2>1, <2>2, <2>3 DEF EarlySteps, LateSteps
<1>25. ASSUME NEW w \in Workers, RunMark(w)
       PROVE  HeldInWork'
  <2>1. run[w].job \in Jobs /\ run[w].pc # "idle"
    BY <1>25, RunHas DEF RunMark
  <2>2. jstat'[run[w].job] = "PROCESSING"
    BY <1>0, <1>25, <2>1 DEF RunMark
  <2>3. QED
    BY <1>23a, <1>25, <2>1, <2>2 DEF RunMark, InWork, LateSteps
<1>26. ASSUME NEW w \in Workers, RunCommit(w)
       PROVE  HeldInWork'
  <2>1. run[w].job \in Jobs /\ run[w].pc # "idle"
    BY <1>26, RunHas DEF RunCommit
  <2>2. jstat'[run[w].job] = "COMPLETED"
    BY <1>0, <1>26, <2>1 DEF RunCommit
  <2>3. QED
    BY <1>23a, <1>26, <2>1, <2>2 DEF RunCommit, LateSteps, InWork, EarlySteps
<1>27. ASSUME NEW w \in Workers, RunDropPrevious(w) \/ RunClean(w)
       PROVE  HeldInWork'
  <2>1. jstat[run[w].job] = "COMPLETED" /\ run[w].pc # "idle"
    BY <1>27 DEF RunDropPrevious, RunClean, HeldInWork, LateSteps
  <2>2. UNCHANGED <<jstat, waiting, timers>>
    BY <1>27 DEF RunDropPrevious, RunClean, db
  <2>3. \E pc \in {"clean", "announce"} :
            run' = [run EXCEPT ![w] = Slot(pc, run[w].job, run[w].attempt, run[w].prev)]
    BY <1>27 DEF RunDropPrevious, RunClean, Proceed
  <2>4. QED
    BY <1>23, <2>1, <2>2, <2>3 DEF EarlySteps
<1>28. ASSUME NEW w \in Workers, RunFault(w)
       PROVE  HeldInWork'
  <2>1. run[w].pc \in {"read", "error", "permanent"} \cup EarlySteps
    BY <1>28, FaultsAssumption DEF RunFault, NoLateFaults, EarlySteps
  <2>2. jstat[run[w].job] \in InWork /\ run[w].pc # "idle"
    BY <2>1 DEF HeldInWork, EarlySteps
  <2>3. QED
    BY <1>23a, <1>28, <2>2 DEF RunFault, db, LateSteps
<1>29. ASSUME NEW w \in Workers, ErrorRequeued(w)
       PROVE  HeldInWork'
  <2>1. run[w].job \in Jobs /\ run[w].pc # "idle"
    BY <1>29, RunHas DEF ErrorRequeued
  <2>2. jstat'[run[w].job] = "QUEUED"
    BY <1>0, <1>29, <2>1 DEF ErrorRequeued
  <2>3. QED
    BY <1>23a, <1>29, <2>1, <2>2 DEF ErrorRequeued, InWork, LateSteps
<1>30. ASSUME NEW w \in Workers, ErrorFailed(w)
       PROVE  HeldInWork'
  <2>1. run[w].job \in Jobs /\ run[w].pc # "idle"
    BY <1>30, RunHas DEF ErrorFailed
  <2>2. jstat'[run[w].job] = "FAILED"
    BY <1>0, <1>30, <2>1 DEF ErrorFailed
  <2>3. QED
    BY <1>23a, <1>30, <2>1, <2>2 DEF ErrorFailed, EarlySteps, LateSteps
<1>31. ASSUME NEW w \in Workers, ErrorUnrecorded(w)
       PROVE  HeldInWork'
  <2>1. jstat[run[w].job] \in InWork /\ run[w].pc # "idle" /\ UNCHANGED <<jstat, waiting, timers>>
    BY <1>31 DEF ErrorUnrecorded, HeldInWork, db
  <2>2. CASE Proceed(w, "backoff")
    BY <1>23a, <2>1, <2>2 DEF LateSteps
  <2>3. CASE Finish(w)
    BY <1>22, <2>1, <2>3
  <2>4. QED
    BY <1>31, <2>2, <2>3 DEF ErrorUnrecorded
<1>32. ASSUME NEW w \in Workers, ErrorBackoff(w)
       PROVE  HeldInWork'
  <2>1. jstat[run[w].job] \in InWork /\ UNCHANGED <<jstat, waiting>>
    BY <1>32 DEF ErrorBackoff, HeldInWork, db
  <2>2. Entry(run[w].job, run[w].attempt).job = run[w].job
    BY DEF Entry
  <2>3. run' = [run EXCEPT ![w] = IdleRun]
    BY <1>32 DEF ErrorBackoff, Finish
  <2>4. timers' = timers \/ timers' = timers \cup {Entry(run[w].job, run[w].attempt)}
    BY <1>32 DEF ErrorBackoff
  <2>5. \A e \in Pending' : jstat[e.job] \in InWork
    BY <1>0, <2>1, <2>2, <2>4 DEF Pending
  <2>6. QED
    BY <1>0, <2>1, <2>3, <2>5, HeldLess
<1>33. ASSUME NEW e \in timers, Retry(e)
       PROVE  HeldInWork'
  <2>1. Entry(e.job, e.attempt + 1).job = e.job
    BY DEF Entry
  <2>2. \A d \in Pending' : jstat[d.job] \in InWork
    BY <1>0, <1>33, <2>1 DEF Retry, Pending
  <2>3. QED
    BY <1>33, <2>2, HeldLess DEF Retry, db
<1>34. ASSUME Crash \/ Exit
       PROVE  HeldInWork'
  <2>1. UNCHANGED jstat /\ Pending' = {} /\ run' = [w \in Workers |-> IdleRun]
    BY <1>34 DEF Crash, Exit, LoseMemory, db, Pending
  <2>2. QED
    BY <1>0, <2>1, HeldLess
<1>35. ASSUME Shutdown
       PROVE  HeldInWork'
  BY <1>35, HeldLess DEF Shutdown, db, Pending
<1>36. ASSUME Boot
       PROVE  HeldInWork'
  <2>1. \A e \in Pending' : jstat[e.job] \in InWork
    <3>1. Pending = {}
      BY <1>36 DEF Boot, QueueInv, StoppedInv
    <3>2. \A j \in Jobs : Entry(j, 1).job = j
      BY DEF Entry
    <3>3. QED
      BY <1>36, <3>1, <3>2 DEF Boot, Pending, InWork
  <2>2. QED
    BY <1>36, <2>1, HeldLess DEF Boot, db
<1>37. ASSUME UNCHANGED <<jstat, waiting, timers, run>>
       PROVE  HeldInWork'
  BY <1>37, HeldUntouched
<1>38. ASSUME NEW w \in Workers,
              RunSkip(w) \/ RunAnnounce(w) \/ ErrorAborted(w) \/ ErrorCleaned(w)
       PROVE  HeldInWork'
  BY <1>22, <1>38 DEF RunSkip, RunAnnounce, ErrorAborted, ErrorCleaned, db
<1>39. QED
  BY <1>1, <1>8, <1>10, <1>11, <1>21, <1>24, <1>25, <1>26, <1>27, <1>28, <1>29, <1>30, <1>31, <1>32,
     <1>33, <1>34, <1>35, <1>36, <1>37, <1>38, NoneRevived, BoundsAssumption
     DEF Next, RequestStep, SweepStep, RunStep, Quiet, db, disk, queue, vars,
         CompleteUpload, ReceiveChunk, RestartUpload, ChunkStored, ChunkFailed, CompleteCheck, CompleteRefused,
         RestartFailed, RestartPurge, Age, SweepBegin, SweepCancel, SweepRequeue, SweepPurge,
         SweepFindStuck, SweepEnd, RunRead, RunAssemble, RunEncode, RunNotAVideo, RunUnpublish,
         RunPublish, RunPrevious

\* What can change without a request noticing: its own account of the video's jobs does not.
LEMMA ReadKept ==
    ASSUME TypeInv, NEW s \in Requests, StillRead(s), req'[s] = req[s],
           NEW v \in Videos, v = req[s].vid,
           \A i \in Jobs : \/ jvid'[i] = jvid[i]
                           \/ jvid[i] # v /\ jvid'[i] # v,
           \A i \in Jobs : \/ jstat'[i] = jstat[i]
                           \/ jvid[i] # v
                           \/ jstat[i] \in InWork /\ Held(i),
           \A i \in Jobs : jvid[i] = v /\ jstat[i] = "UPLOADING" /\ chunks[i] = Chunks => chunks'[i] = Chunks,
           vstat'[v] = vstat[v] \/ vstat[v] \in {"PROCESSING", "READY"},
           \A i \in Jobs : Held(i)' => Held(i) \/ jvid[i] # v
    PROVE  StillRead(s)'
<1> DEFINE j == req[s].job
<1>1. /\ req[s].pc \in {"check", "accept", "enqueue"} => j \in Jobs
      /\ req[s].prev \subseteq Jobs
  BY DEF TypeInv, TypeOK, RequestRefs, RequestType
<1>2. req[s].pc \in {"check", "accept"} => IsActiveUpload(j, v) /\ IsActiveUpload(j, v)'
  BY <1>1 DEF StillRead, IsActiveUpload, IsLatestJob, JobsOf, InWork
<1>3. req[s].pc = "accept" => chunks'[j] = Chunks
  BY <1>1, <1>2 DEF StillRead, IsActiveUpload
<1>4. req[s].pc = "enqueue" => jstat'[j] \in InWork /\ ~Held(j)'
  BY <1>1 DEF StillRead
<1>5. req[s].pc \in {"restart", "purge"} =>
          \A i \in req[s].prev : jvid'[i] = v /\ jstat'[i] \in {"UPLOADING", "FAILED", "CANCELLED"}
  BY <1>1 DEF StillRead, InWork
<1>6. req[s].pc \in {"check", "accept", "enqueue"} => jvid'[j] = v
  BY <1>1 DEF StillRead
<1>7. req[s].pc = "restart" => vstat'[v] \in {"UPLOADING", "FAILED"}
  BY DEF StillRead
<1>8. StillRead(s)' <=>
        /\ req[s].pc \in {"check", "accept", "enqueue"} => jvid'[j] = v
        /\ req[s].pc \in {"check", "accept"} => IsActiveUpload(j, v)'
        /\ req[s].pc = "accept" => chunks'[j] = Chunks
        /\ req[s].pc = "enqueue" => jstat'[j] \in InWork /\ ~Held(j)'
        /\ req[s].pc = "restart" => vstat'[v] \in {"UPLOADING", "FAILED"}
        /\ req[s].pc \in {"restart", "purge"} =>
              \A i \in req[s].prev :
                 jvid'[i] = v /\ jstat'[i] \in {"UPLOADING", "FAILED", "CANCELLED"}
  BY DEF StillRead, IsActiveUpload, IsLatestJob, JobsOf, Held, Running, Pending
<1>9. QED
  BY <1>2, <1>3, <1>4, <1>5, <1>6, <1>7, <1>8

\* The requests that a step leaves alone, when it changes what no request for their video reads.
LEMMA OthersKept ==
    ASSUME TypeInv, ReadStillSo,
           \A s \in Requests : req'[s] = req[s] \/ StillRead(s)',
           \A v \in Videos : (\E s \in Requests : req'[s] = req[s] /\ Decides(s) /\ req[s].vid = v) =>
           /\ \A i \in Jobs : \/ jvid'[i] = jvid[i]
                              \/ jvid[i] # v /\ jvid'[i] # v
           /\ \A i \in Jobs : \/ jstat'[i] = jstat[i]
                              \/ jvid[i] # v
                              \/ jstat[i] \in InWork /\ Held(i)
           /\ \A i \in Jobs : jvid[i] = v /\ jstat[i] = "UPLOADING" /\ chunks[i] = Chunks => chunks'[i] = Chunks
           /\ vstat'[v] = vstat[v] \/ vstat[v] \in {"PROCESSING", "READY"}
           /\ \A i \in Jobs : Held(i)' => Held(i) \/ jvid[i] # v
    PROVE  ReadStillSo'
<1>1. ASSUME NEW s \in Requests, req'[s] = req[s] PROVE StillRead(s)'
  <2>1. CASE ~Decides(s)
    BY <1>1, <2>1 DEF StillRead, Decides
  <2>2. CASE Decides(s)
    <3>1. PICK v \in Videos : v = req[s].vid
      BY <2>2 DEF TypeInv, TypeOK, RequestRefs, RequestType, Decides
    <3>2. StillRead(s)
      BY DEF ReadStillSo
    <3>3. QED
      BY <1>1, <2>2, <3>1, <3>2, ReadKept
  <2>3. QED
    BY <2>1, <2>2
<1>2. QED
  BY <1>1 DEF ReadStillSo

\* A request that has begun or moves on, when no row and no file of another video's changes.
LEMMA OnlyRequests ==
    ASSUME TypeInv, ReadStillSo, UNCHANGED <<vstat, jstat, jvid, chunks, queue>>,
           \A s \in Requests : req'[s] = req[s] \/ StillRead(s)'
    PROVE  ReadStillSo'
<1>1. \A i \in Jobs : Held(i)' => Held(i)
  BY DEF Held, Pending, Running, queue
<1>2. QED
  BY <1>1, OthersKept

\* A run reads and writes the rows of its own job, which no request has read.
LEMMA OnlyRun ==
    ASSUME TypeInv, QueueInv, MatchInv, NEW w \in Workers, run[w].pc # "idle",
           UNCHANGED <<jvid, req>>,
           NEW j \in Jobs, j = run[w].job,
           \A i \in Jobs \ {j} : jstat'[i] = jstat[i] /\ chunks'[i] = chunks[i],
           jstat'[j] = jstat[j] \/ jstat[j] \in InWork,
           chunks'[j] = chunks[j] \/ jstat[j] # "UPLOADING",
           \A v \in Videos : vstat'[v] = vstat[v] \/ (v = jvid[j] /\ jstat[j] \in InWork),
           \A i \in Jobs : Held(i)' => Held(i)
    PROVE  ReadStillSo'
<1>1. Held(j)
  BY DEF Held, Running
<1>2. jstat[j] \in InWork => vstat[jvid[j]] = "PROCESSING"
  BY DEF MatchInv, RowsInv, WorkInOrder, WorkIsLatest, InWork
<1>3. ReadStillSo
  BY DEF MatchInv
<1>4. QED
  BY <1>1, <1>2, <1>3, OthersKept

\* What the queue holds after a step.
LEMMA HeldAfter ==
    ASSUME NEW i, Held(i)',
           \A e \in Pending' : (\E d \in Pending : d.job = e.job) \/ \E w \in Running : run[w].job = e.job,
           \A w \in Workers : run'[w].pc = "idle" \/ (run[w].pc # "idle" /\ run'[w].job = run[w].job)
                                \/ \E d \in Pending : d.job = run'[w].job
    PROVE  Held(i)
BY DEF Held, Running

LEMMA ReadStep ==
    ASSUME NoLateFaults, MaxSweeps = 0, TypeInv, QueueInv, MatchInv, OneDecisionPerVideo, [Next]_vars
    PROVE  ReadStillSo'
<1>0. /\ req \in [Requests -> RequestType] /\ run \in [Workers -> RunType]
      /\ ReadStillSo /\ IdleRequest.pc = "idle" /\ IdleRun.pc = "idle"
  BY DEF TypeInv, TypeOK, MatchInv, IdleRequest, Request, IdleRun, Slot
<1>1. ASSUME NEW v \in Videos, NEW j \in Jobs, CreateVideoUpload(v, j)
      PROVE  ReadStillSo'
  <2>1. /\ vstat[v] = "NONE" /\ jvid[j] = NoVideo /\ jstat[j] = "NONE"
        /\ \A i \in Jobs : jvid[i] # v
        /\ jvid'[j] = v /\ \A i \in Jobs \ {j} : jvid'[i] = jvid[i] /\ jstat'[i] = jstat[i]
        /\ \A u \in Videos \ {v} : vstat'[u] = vstat[u]
        /\ UNCHANGED <<chunks, req, queue>>
    BY <1>1, VideosAssumption
       DEF CreateVideoUpload, IsNextJob, TypeInv, TypeOK, JobRefs, MatchInv, RowsInv, JobsHaveVideos
  <2>2. \A s \in Requests : Decides(s) => req[s].pc = "purge" \/ req[s].vid # v
    BY <1>0, <2>1 DEF ReadStillSo, StillRead, Decides, TypeInv, RequestRefs, TypeOK, RequestType
  <2>3. ASSUME NEW s \in Requests, req[s].pc = "purge" PROVE StillRead(s)'
    <3>1. req[s].prev \subseteq Jobs /\ \A i \in req[s].prev : jvid[i] = req[s].vid /\ jstat[i] # "NONE"
      BY <1>0, <2>3 DEF ReadStillSo, StillRead, RequestType
    <3>2. \A i \in req[s].prev : jvid'[i] = jvid[i] /\ jstat'[i] = jstat[i]
      BY <2>1, <3>1
    <3>3. req'[s] = req[s]
      BY <2>1
    <3>4. QED
      BY <1>0, <2>3, <3>2, <3>3 DEF ReadStillSo, StillRead
  <2>4. \A i \in Jobs : Held(i)' => Held(i)
    BY <2>1 DEF Held, Pending, Running, queue
  <2>5. ASSUME NEW s \in Requests, req[s].pc # "purge", Decides(s) PROVE StillRead(s)'
    <3>1. PICK u \in Videos : u = req[s].vid /\ u # v
      BY <2>2, <2>5 DEF TypeInv, TypeOK, RequestRefs, RequestType, Decides
    <3>2. StillRead(s) /\ req'[s] = req[s]
      BY <1>0, <2>1 DEF ReadStillSo
    <3>3. NoVideo # u
      BY VideosAssumption
    <3>4. QED
      BY <2>1, <2>4, <3>1, <3>2, <3>3, ReadKept
  <2>6. \A s \in Requests : ~Decides(s) => StillRead(s)'
    BY <2>1 DEF StillRead, Decides
  <2>7. QED
    BY <2>3, <2>5, <2>6 DEF ReadStillSo
<1>2. ASSUME NEW r \in Requests, NEW v \in Videos, NEW j \in Jobs,
             CompleteUpload(r, v, j) \/ \E i \in Chunks : ReceiveChunk(r, v, j, i)
      PROVE  ReadStillSo'
  <2>1. /\ UNCHANGED <<vstat, jstat, jvid, chunks, queue>>
        /\ \A s \in Requests \ {r} : req'[s] = req[s]
        /\ IsActiveUpload(j, v)
        /\ req'[r].pc \in {"chunk", "check"} /\ req'[r].vid = v /\ req'[r].job = j
    BY <1>0, <1>2 DEF CompleteUpload, ReceiveChunk, Request, db, disk
  <2>2. IsActiveUpload(j, v)' /\ jvid'[j] = v
    BY <2>1 DEF IsActiveUpload, IsLatestJob, JobsOf
  <2>3. StillRead(r)'
    BY <2>1, <2>2 DEF StillRead, IsActiveUpload, IsLatestJob, JobsOf
  <2>4. QED
    BY <1>0, <2>1, <2>3, OnlyRequests
<1>4. ASSUME NEW r \in Requests, NEW v \in Videos, RestartUpload(r, v)
      PROVE  ReadStillSo'
  <2>1. /\ UNCHANGED <<vstat, jstat, jvid, chunks, queue>>
        /\ \A s \in Requests \ {r} : req'[s] = req[s]
        /\ vstat[v] \in {"UPLOADING", "FAILED"}
        /\ req'[r].pc = "restart" /\ req'[r].vid = v
        /\ req'[r].prev = {j \in JobsOf(v) : jstat[j] \in {"UPLOADING", "FAILED"}}
    BY <1>0, <1>4 DEF RestartUpload, Request, db, disk
  <2>2. StillRead(r)'
    BY <2>1 DEF StillRead, JobsOf
  <2>3. QED
    BY <1>0, <2>1, <2>2, OnlyRequests
\* A request that ends, and one that goes on.
<1>5. ASSUME NEW r \in Requests, Respond(r)
      PROVE  StillRead(r)' /\ \A s \in Requests \ {r} : req'[s] = req[s]
  <2>1. req'[r].pc = "idle" /\ \A s \in Requests \ {r} : req'[s] = req[s]
    BY <1>0, <1>5 DEF Respond
  <2>2. QED
    BY <2>1 DEF StillRead
<1>6. ASSUME NEW r \in Requests, NEW pc, Goto(r, pc)
      PROVE  /\ req'[r].pc = pc /\ req'[r].vid = req[r].vid /\ req'[r].job = req[r].job
             /\ req'[r].prev = req[r].prev
             /\ \A s \in Requests \ {r} : req'[s] = req[s]
  BY <1>0, <1>6 DEF Goto, Request
<1>7. ASSUME NEW r \in Requests, Respond(r), UNCHANGED <<vstat, jstat, jvid, chunks, queue>>
      PROVE  ReadStillSo'
  BY <1>0, <1>5, <1>7, OnlyRequests
<1>8. ASSUME NEW r \in Requests, ChunkStored(r)
      PROVE  ReadStillSo'
  <2>1. /\ chunks' = [chunks EXCEPT ![req[r].job] = @ \cup {req[r].idx}]
        /\ req[r].idx \in Chunks /\ UNCHANGED <<vstat, jstat, jvid, queue>>
        /\ Respond(r)
    BY <1>0, <1>8 DEF ChunkStored, db, RequestType
  <2>2. \A i \in Jobs : chunks[i] = Chunks => chunks'[i] = Chunks
    BY <2>1 DEF TypeInv, TypeOK
  <2>3. \A i \in Jobs : Held(i)' => Held(i)
    BY <2>1 DEF Held, Pending, Running, queue
  <2>4. \A s \in Requests : req'[s] = req[s] \/ StillRead(s)'
    BY <1>5, <2>1
  <2>5. QED
    BY <1>0, <2>1, <2>2, <2>3, <2>4, OthersKept
<1>9. ASSUME NEW r \in Requests, CompleteCheck(r)
      PROVE  ReadStillSo'
  <2>0. req[r].pc = "check" /\ UNCHANGED <<vstat, jstat, jvid, chunks, queue>>
    BY <1>9 DEF CompleteCheck, db, disk
  <2>1. CASE Respond(r)
    BY <1>7, <2>0, <2>1
  <2>2. CASE chunks[req[r].job] = Chunks /\ Goto(r, "accept")
    <3>1. /\ req'[r].pc = "accept" /\ req'[r].vid = req[r].vid /\ req'[r].job = req[r].job
          /\ \A s \in Requests \ {r} : req'[s] = req[s]
      BY <1>6, <2>2
    <3>2. StillRead(r)
      BY <1>0 DEF ReadStillSo
    <3>3. StillRead(r)'
      BY <2>0, <2>2, <3>1, <3>2 DEF StillRead, IsActiveUpload, IsLatestJob, JobsOf
    <3>4. QED
      BY <1>0, <2>0, <3>1, <3>3, OnlyRequests
  <2>3. QED
    BY <1>9, <2>1, <2>2 DEF CompleteCheck
<1>10. ASSUME NEW r \in Requests, CompleteAccept(r)
       PROVE  ReadStillSo'
  <2>1. PICK v \in Videos : v = req[r].vid
    BY <1>10 DEF CompleteAccept, TypeInv, RequestRefs
  <2>2. PICK j \in Jobs : j = req[r].job /\ jvid[j] = v /\ jstat[j] = "UPLOADING"
    BY <1>0, <1>10, <2>1 DEF CompleteAccept, TypeInv, RequestRefs, ReadStillSo, StillRead
  <2>3. /\ req'[r].pc = "enqueue" /\ req'[r].vid = v /\ req'[r].job = j
        /\ \A s \in Requests \ {r} : req'[s] = req[s]
    BY <1>6, <1>10, <2>1, <2>2 DEF CompleteAccept
  <2>4. /\ jstat'[j] = "QUEUED" /\ \A i \in Jobs \ {j} : jstat'[i] = jstat[i]
        /\ \A u \in Videos \ {v} : vstat'[u] = vstat[u]
        /\ UNCHANGED <<jvid, chunks, queue>>
    BY <1>10, <2>1, <2>2 DEF CompleteAccept, TypeInv, TypeOK
  <2>5. ~Held(j)
    BY <2>2, RunHas DEF Held, Running, MatchInv, HeldInWork, InWork, EarlySteps, LateSteps, TypeInv, TypeOK,
                        RunType, ErrorSteps
  <2>6. \A i \in Jobs : Held(i)' <=> Held(i)
    BY <2>4 DEF Held, Pending, Running, queue
  <2>7. StillRead(r)'
    <3>1. jstat'[j] \in InWork /\ ~Held(j)' /\ jvid'[j] = v
      BY <2>2, <2>4, <2>5, <2>6 DEF InWork
    <3>2. QED
      BY <2>3, <3>1 DEF StillRead, Held, Pending, Running
  <2>8. \A s \in Requests \ {r} : Decides(s) => req[s].vid # v
    BY <1>10, <2>1 DEF CompleteAccept, OneDecisionPerVideo, Decides
  <2>9. req'[r] # req[r]
    BY <1>10, <2>3 DEF CompleteAccept
  <2>10. \A s \in Requests : req'[s] = req[s] \/ StillRead(s)'
    BY <2>3, <2>7
  <2>11. QED
    BY <1>0, <2>2, <2>4, <2>6, <2>8, <2>9, <2>10, OthersKept
<1>11. ASSUME NEW r \in Requests, CompleteEnqueue(r)
       PROVE  ReadStillSo'
  <2>1. /\ req[r].pc = "enqueue" /\ Respond(r)
        /\ UNCHANGED <<vstat, jstat, jvid, chunks, timers, run>>
        /\ waiting' = waiting \/ waiting' = waiting \cup {Entry(req[r].job, 1)}
    BY <1>11 DEF CompleteEnqueue, Enqueue, db, disk
  <2>2. jvid[req[r].job] = req[r].vid
    BY <1>0, <2>1 DEF ReadStillSo, StillRead
  <2>3. \A s \in Requests \ {r} : Decides(s) => req[s].vid # req[r].vid
    BY <2>1 DEF OneDecisionPerVideo, Decides
  <2>4. Entry(req[r].job, 1).job = req[r].job
    BY DEF Entry
  <2>5. \A i \in Jobs : Held(i)' => Held(i) \/ i = req[r].job
    BY <2>1, <2>4 DEF Held, Pending, Running
  <2>6. \A s \in Requests : req'[s] = req[s] \/ StillRead(s)'
    BY <1>5, <2>1
  <2>7. req'[r] # req[r]
    BY <1>0, <2>1 DEF Respond
  <2>8. QED
    BY <1>0, <2>1, <2>2, <2>3, <2>5, <2>6, <2>7, OthersKept
<1>12. ASSUME NEW r \in Requests, NEW j \in Jobs, RestartCommit(r, j)
       PROVE  ReadStillSo'
  <2>1. PICK v \in Videos : v = req[r].vid
    BY <1>12 DEF RestartCommit, TypeInv, RequestRefs
  <2>2. /\ req[r].pc = "restart" /\ jstat[j] = "NONE" /\ jvid[j] = NoVideo
        /\ req'[r].pc = "purge" /\ req'[r].vid = v /\ req'[r].prev = req[r].prev
        /\ \A s \in Requests \ {r} : req'[s] = req[s]
    BY <1>6, <1>12, <2>1 DEF RestartCommit, IsNextJob, TypeInv, JobRefs
  <2>3. /\ jvid'[j] = v /\ \A i \in Jobs \ {j} : jvid'[i] = jvid[i]
        /\ \A i \in Jobs \ {j} : jvid[i] # v => jstat'[i] = jstat[i]
        /\ \A i \in Jobs \ {j} : jstat'[i] = jstat[i] \/ jstat'[i] = "CANCELLED"
        /\ \A u \in Videos \ {v} : vstat'[u] = vstat[u]
        /\ UNCHANGED <<chunks, queue>>
    BY <1>12, <2>1 DEF RestartCommit, JobsOf, TypeInv, TypeOK
  <2>4. \A i \in Jobs : Held(i)' <=> Held(i)
    BY <2>3 DEF Held, Pending, Running, queue
  <2>5. \A i \in req[r].prev : i \in Jobs /\ i # j /\ jvid[i] = v /\ jstat[i] \in {"UPLOADING", "FAILED", "CANCELLED"}
    BY <1>0, <2>1, <2>2 DEF ReadStillSo, StillRead, RequestType
  <2>6. StillRead(r)'
    <3>1. \A i \in req[r].prev : jvid'[i] = v /\ jstat'[i] \in {"UPLOADING", "FAILED", "CANCELLED"}
      BY <2>3, <2>5
    <3>2. QED
      BY <2>2, <3>1 DEF StillRead
  <2>7. \A s \in Requests \ {r} : Decides(s) => req[s].vid # v
    BY <2>1, <2>2 DEF OneDecisionPerVideo, Decides
  <2>8. req'[r] # req[r] /\ \A s \in Requests : req'[s] = req[s] \/ StillRead(s)'
    BY <2>2, <2>6
  <2>9. \A u \in Videos : u # NoVideo
    BY VideosAssumption
  <2>10. QED
    BY <1>0, <2>2, <2>3, <2>4, <2>7, <2>8, <2>9, OthersKept
<1>13. ASSUME NEW r \in Requests, RestartPurge(r)
       PROVE  ReadStillSo'
  <2>1. /\ req[r].pc = "purge" /\ Respond(r) /\ UNCHANGED <<vstat, jstat, jvid, queue>>
        /\ \A i \in Jobs \ req[r].prev : chunks'[i] = chunks[i]
    BY <1>13 DEF RestartPurge, db
  <2>2. \A i \in req[r].prev : jvid[i] = req[r].vid
    BY <1>0, <2>1 DEF ReadStillSo, StillRead
  <2>3. \A s \in Requests \ {r} : Decides(s) => req[s].vid # req[r].vid
    BY <2>1 DEF OneDecisionPerVideo, Decides
  <2>4. \A i \in Jobs : Held(i)' => Held(i)
    BY <2>1 DEF Held, Pending, Running, queue
  <2>5. req'[r] # req[r] /\ \A s \in Requests : req'[s] = req[s] \/ StillRead(s)'
    BY <1>0, <1>5, <2>1 DEF Respond
  <2>6. QED
    BY <1>0, <2>1, <2>2, <2>3, <2>4, <2>5, OthersKept
\* The queue and its runs.
<1>14. ASSUME UNCHANGED <<vstat, jstat, jvid, chunks, req>>, \A i \in Jobs : Held(i)' => Held(i)
       PROVE  ReadStillSo'
  BY <1>0, <1>14, OthersKept
<1>15. ASSUME NEW w \in Workers, run[w].pc # "idle", UNCHANGED <<waiting, timers>>,
              run'[w].pc = "idle" \/ run'[w].job = run[w].job,
              \A x \in Workers \ {w} : run'[x] = run[x]
       PROVE  \A i \in Jobs : Held(i)' => Held(i)
  BY <1>15 DEF Held, Pending, Running
<1>16. ASSUME NEW w \in Workers, Finish(w) \/ \E pc, p : run' = [run EXCEPT ![w] = Slot(pc, run[w].job, run[w].attempt, p)]
       PROVE  /\ run'[w].pc = "idle" \/ run'[w].job = run[w].job
              /\ \A x \in Workers \ {w} : run'[x] = run[x]
  BY <1>0, <1>16 DEF Finish, Slot
<1>17. ASSUME NEW w \in Workers, run[w].pc # "idle",
              Finish(w) \/ \E pc, p : run' = [run EXCEPT ![w] = Slot(pc, run[w].job, run[w].attempt, p)],
              UNCHANGED <<vstat, jstat, jvid, chunks, req, waiting, timers>>
       PROVE  ReadStillSo'
  BY <1>14, <1>15, <1>16, <1>17
<1>18. ASSUME NEW w \in Workers,
              \/ RunSkip(w) \/ RunRead(w) \/ RunAssemble(w) \/ RunEncode(w) \/ RunNotAVideo(w)
              \/ RunUnpublish(w) \/ RunPublish(w) \/ RunPrevious(w) \/ RunDropPrevious(w)
              \/ RunAnnounce(w) \/ RunFault(w) \/ ErrorAborted(w) \/ ErrorUnrecorded(w) \/ ErrorCleaned(w)
       PROVE  ReadStillSo'
  <2>1. Finish(w) \/ \E pc, p : run' = [run EXCEPT ![w] = Slot(pc, run[w].job, run[w].attempt, p)]
    BY <1>18 DEF RunSkip, RunRead, RunAssemble, RunEncode, RunNotAVideo, RunUnpublish, RunPublish,
                 RunPrevious, RunDropPrevious, RunAnnounce, RunFault, ErrorAborted, ErrorUnrecorded,
                 ErrorCleaned, Proceed, Remember
  <2>2. /\ UNCHANGED <<vstat, jstat, jvid, chunks, req, waiting, timers>>
        /\ run[w].pc # "idle"
    BY <1>18, FaultsAssumption
       DEF RunSkip, RunRead, RunAssemble, RunEncode, RunNotAVideo, RunUnpublish, RunPublish,
           RunPrevious, RunDropPrevious, RunAnnounce, RunFault, ErrorAborted, ErrorUnrecorded,
           ErrorCleaned, db, disk, EarlySteps, LateSteps
  <2>3. QED
    BY <1>17, <2>1, <2>2
<1>19. ASSUME NEW w \in Workers,
              RunMark(w) \/ RunCommit(w) \/ RunClean(w) \/ ErrorRequeued(w) \/ ErrorFailed(w)
       PROVE  ReadStillSo'
  <2>1. /\ run[w].pc # "idle" /\ UNCHANGED <<jvid, req, waiting, timers>>
        /\ \E pc, p : run' = [run EXCEPT ![w] = Slot(pc, run[w].job, run[w].attempt, p)]
    <3>1. /\ run[w].pc # "idle" /\ UNCHANGED <<jvid, req, waiting, timers>>
          /\ \E pc : Proceed(w, pc)
      <4>1. CASE RunMark(w)
        BY <4>1 DEF RunMark
      <4>2. CASE RunCommit(w)
        BY <4>2 DEF RunCommit
      <4>3. CASE RunClean(w)
        BY <4>3 DEF RunClean, db
      <4>4. CASE ErrorRequeued(w)
        BY <4>4 DEF ErrorRequeued
      <4>5. CASE ErrorFailed(w)
        BY <4>5 DEF ErrorFailed
      <4>6. QED
        BY <1>19, <4>1, <4>2, <4>3, <4>4, <4>5
    <3>2. QED
      BY <3>1 DEF Proceed
  <2>2. PICK j \in Jobs : j = run[w].job
    BY <2>1, RunHas
  <2>3. \/ run[w].pc = "clean" /\ jstat[j] = "COMPLETED" /\ UNCHANGED <<vstat, jstat>>
           /\ chunks' = [chunks EXCEPT ![j] = {}]
        \/ /\ jstat[j] \in InWork /\ UNCHANGED chunks
           /\ \E s : jstat' = [jstat EXCEPT ![j] = s]
           /\ UNCHANGED vstat \/ \E t : vstat' = [vstat EXCEPT ![jvid[j]] = t]
    BY <1>19, <2>2 DEF RunMark, RunCommit, RunClean, ErrorRequeued, ErrorFailed, MatchInv, HeldInWork,
                       EarlySteps, LateSteps, db
  <2>4. /\ \A i \in Jobs \ {j} : jstat'[i] = jstat[i] /\ chunks'[i] = chunks[i]
        /\ jstat'[j] = jstat[j] \/ jstat[j] \in InWork
        /\ chunks'[j] = chunks[j] \/ jstat[j] # "UPLOADING"
        /\ \A v \in Videos : vstat'[v] = vstat[v] \/ (v = jvid[j] /\ jstat[j] \in InWork)
    BY <2>3 DEF TypeInv, TypeOK
  <2>5. \A i \in Jobs : Held(i)' => Held(i)
    BY <1>15, <1>16, <2>1
  <2>6. QED
    BY <2>1, <2>2, <2>4, <2>5, OnlyRun
<1>20. ASSUME NEW w \in Workers, NEW e \in waiting, Start(w, e)
       PROVE  ReadStillSo'
  <2>1. /\ run'[w].job = e.job /\ \A x \in Workers \ {w} : run'[x] = run[x]
        /\ waiting' \subseteq waiting /\ UNCHANGED <<vstat, jstat, jvid, chunks, req, timers>>
    BY <1>0, <1>20 DEF Start, Slot, db, disk
  <2>2. \A i \in Jobs : Held(i)' => Held(i)
    BY <2>1 DEF Held, Pending, Running
  <2>3. QED
    BY <1>14, <2>1, <2>2
<1>21. ASSUME NEW w \in Workers, ErrorBackoff(w)
       PROVE  ReadStillSo'
  <2>1. /\ run' = [run EXCEPT ![w] = IdleRun] /\ run[w].pc # "idle"
        /\ timers' \subseteq timers \cup {Entry(run[w].job, run[w].attempt)}
        /\ UNCHANGED <<vstat, jstat, jvid, chunks, req, waiting>>
    BY <1>21 DEF ErrorBackoff, Finish, db, disk
  <2>2. Entry(run[w].job, run[w].attempt).job = run[w].job
    BY DEF Entry
  <2>3. \A i \in Jobs : Held(i)' => Held(i)
    BY <1>0, <2>1, <2>2 DEF Held, Pending, Running
  <2>4. QED
    BY <1>14, <2>1, <2>3
<1>22. ASSUME NEW e \in timers, Retry(e)
       PROVE  ReadStillSo'
  <2>1. Entry(e.job, e.attempt + 1).job = e.job
    BY DEF Entry
  <2>2. \A i \in Jobs : Held(i)' => Held(i)
    BY <1>22, <2>1 DEF Retry, Held, Pending, Running
  <2>3. QED
    BY <1>14, <1>22, <2>2 DEF Retry, db, disk
<1>23. ASSUME Crash \/ Exit
       PROVE  ReadStillSo'
  <2>1. \A s \in Requests : req'[s].pc = "idle"
    BY <1>0, <1>23 DEF Crash, Exit, LoseMemory
  <2>2. QED
    BY <2>1 DEF ReadStillSo, StillRead
<1>24. ASSUME Shutdown
       PROVE  ReadStillSo'
  <2>1. \A i \in Jobs : Held(i)' => Held(i)
    BY <1>24 DEF Shutdown, Held, Pending, Running
  <2>2. QED
    BY <1>14, <1>24, <2>1 DEF Shutdown, db, disk
<1>25. ASSUME Boot
       PROVE  ReadStillSo'
  <2>1. \A s \in Requests : req'[s].pc = "idle"
    BY <1>25 DEF Boot, MatchInv, Quiet
  <2>2. QED
    BY <2>1 DEF ReadStillSo, StillRead
<1>26. ASSUME UNCHANGED <<vstat, jstat, jvid, chunks, req, queue>>
       PROVE  ReadStillSo'
  BY <1>0, <1>26, OnlyRequests
<1>27. ASSUME NEW r \in Requests, ChunkFailed(r) \/ CompleteRefused(r) \/ RestartFailed(r)
       PROVE  ReadStillSo'
  BY <1>7, <1>27 DEF ChunkFailed, CompleteRefused, RestartFailed, db, disk
<1>28. QED
  BY <1>1, <1>2, <1>4, <1>8, <1>9, <1>10, <1>11, <1>12, <1>13, <1>18, <1>19, <1>20, <1>21, <1>22, <1>23,
     <1>24, <1>25, <1>26, <1>27, NoneRevived, BoundsAssumption
     DEF Next, RequestStep, SweepStep, RunStep, MatchInv, Quiet, db, disk, vars, Age, SweepBegin, SweepCancel,
         SweepRequeue, SweepPurge, SweepFindStuck, SweepEnd

LEMMA QuietStep ==
    ASSUME MaxSweeps = 0, TypeInv, Quiet, [Next]_vars
    PROVE  Quiet'
<1>0. req \in [Requests -> RequestType]
  BY DEF TypeInv, TypeOK
<1>1. ASSUME Crash \/ Exit PROVE Quiet'
  BY <1>1 DEF Crash, Exit, LoseMemory, Quiet, IdleSweep, SweepAt, IdleRequest, Request
<1>2. ASSUME NEW r \in Requests, RequestStep(r) PROVE Quiet'
  <2>1. mode # "down" /\ UNCHANGED <<mode, sweep>>
    BY <1>2 DEF Quiet, RequestStep, ChunkStored, ChunkFailed, CompleteCheck, CompleteAccept, CompleteRefused,
                CompleteEnqueue, RestartCommit, RestartFailed, RestartPurge
  <2>2. QED
    BY <2>1 DEF Quiet
<1>3. ASSUME NEW r \in Requests, NEW v \in Videos,
             \/ RestartUpload(r, v)
             \/ \E j \in Jobs : CompleteUpload(r, v, j) \/ \E i \in Chunks : ReceiveChunk(r, v, j, i)
      PROVE  Quiet'
  BY <1>3 DEF RestartUpload, CompleteUpload, ReceiveChunk, Quiet
<1>4. ASSUME Boot \/ Shutdown PROVE Quiet'
  BY <1>4 DEF Boot, Shutdown, Quiet
<1>5. ASSUME UNCHANGED <<mode, req, sweep>> PROVE Quiet'
  BY <1>5 DEF Quiet
<1>6. ASSUME NEW w \in Workers, RunStep(w) PROVE UNCHANGED <<mode, req, sweep>>
  BY <1>6 DEF RunStep, RunSkip, RunRead, RunMark, RunAssemble, RunEncode, RunNotAVideo, RunUnpublish,
              RunPublish, RunPrevious, RunCommit, RunDropPrevious, RunClean, RunAnnounce, RunFault,
              ErrorAborted, ErrorRequeued, ErrorBackoff, ErrorUnrecorded, ErrorFailed, ErrorCleaned,
              ErrorUncleaned
<1>7. (\A j \in Jobs : ~Age(j)) /\ ~SweepBegin /\ ~SweepStep
  <2>1. sweeps = 0 /\ sweep.pc = "idle"
    BY DEF TypeInv, TypeOK, Quiet
  <2>2. QED
    BY <2>1 DEF Age, SweepBegin, SweepStep, SweepCancel, SweepRequeue, SweepPurge, SweepFindStuck, SweepEnd
<1>8. ASSUME NEW w \in Workers, NEW e \in waiting, Start(w, e) PROVE UNCHANGED <<mode, req, sweep>>
  BY <1>8 DEF Start
<1>9. ASSUME NEW e \in timers, Retry(e) PROVE UNCHANGED <<mode, req, sweep>>
  BY <1>9 DEF Retry
<1>10. ASSUME NEW v \in Videos, NEW j \in Jobs, CreateVideoUpload(v, j) PROVE UNCHANGED <<mode, req, sweep>>
  BY <1>10 DEF CreateVideoUpload
<1>11. CASE UNCHANGED vars
  BY <1>5, <1>11 DEF vars
<1>12. QED
  BY <1>1, <1>2, <1>3, <1>4, <1>5, <1>6, <1>7, <1>8, <1>9, <1>10, <1>11 DEF Next

\* Through retries, restarts of the upload, crashes, shutdowns and faults at any step up to the
\* transaction that publishes a job or makes it FAILED, a video in work has an upload in work, which is its newest one and has
\* what an attempt needs.  Chunks may arrive side by side; requests for one video that complete or restart
\* its upload together, the sweep, and a failure after the transaction (in the clean-up of a published or of a FAILED job)
\* are excluded because each of
\* them breaks it.
THEOREM RowsMatch == ASSUME MaxSweeps = 0, NoLateFaults
                     PROVE  Spec /\ []OneDecisionPerVideo => []JobsMatchVideos
<1>1. Init => TypeInv /\ QueueInv /\ MatchInv
  BY TypeInvInit, QueueInvInit, MatchInit
<1>2. OneDecisionPerVideo /\ TypeInv /\ QueueInv /\ MatchInv /\ [Next]_vars => (TypeInv /\ QueueInv /\ MatchInv)'
  BY TypeInvStep, QueueInvStep, RowsStep, HeldStep, ReadStep, QuietStep DEF MatchInv
<1>3. MatchInv => JobsMatchVideos
  BY DEF MatchInv, RowsInv, WorkInOrder, InputsKept, WorkIsLatest, JobsMatchVideos, InOrder,
         RetriesHaveInputs, ProcessedJobIsLatest
<1>4. QED
  BY <1>1, <1>2, <1>3, PTL DEF Spec

\* In particular when the API serves one request at a time.
COROLLARY RowsMatchSerially == ASSUME MaxSweeps = 0, NoLateFaults, \A r, s \in Requests : r = s
                               PROVE  Spec => []JobsMatchVideos
<1>1. OneDecisionPerVideo
  BY DEF OneDecisionPerVideo, Decides
<1>2. QED
  BY <1>1, RowsMatch, PTL

(***************************************************************************)
(* The queue of the pipeline implements JobQueue.                          *)
(***************************************************************************)

\* Job j runs as its attempt a, or waits having been tried a times.
InSlot(j, a) == \E w \in Running : run[w].job = j /\ run[w].attempt = a
InLine(j, a) == (\E e \in timers : e.job = j /\ e.attempt = a) \/ (\E e \in waiting : e.job = j /\ e.attempt = a + 1)

QueueView ==
    /\ JobState \in [Jobs -> {"absent", "pending", "running"}] /\ JobTries \in [Jobs -> Int]
    /\ \A j \in Jobs :
          /\ \A a \in Int : InSlot(j, a) => JobState[j] = "running" /\ JobTries[j] = a
          /\ \A a \in Int : InLine(j, a) => JobState[j] = "pending" /\ JobTries[j] = a
          /\ (\A a \in Int : ~InSlot(j, a) /\ ~InLine(j, a)) => JobState[j] = "absent" /\ JobTries[j] = 0

LEMMA QueueViewed == TypeInv /\ QueueInv => QueueView
<1> SUFFICES ASSUME TypeInv, QueueInv PROVE QueueView
  OBVIOUS
<1>0. /\ \A w \in Running : run[w].job \in Jobs /\ run[w].attempt \in Int
      /\ \A e \in Pending : e.job \in Jobs /\ e.attempt \in Int
  BY AttemptsAssumption DEF TypeInv, TypeOK, RunRefs, EntryType, Pending, Running
<1>1. /\ JobState = [j \in Jobs |-> QueueState(j)] /\ JobTries = [j \in Jobs |-> QueueTries(j)]
  BY DEF JobState, JobTries
<1>2. ASSUME NEW j \in Jobs, NEW w \in Running, run[w].job = j
      PROVE  QueueState(j) = "running" /\ QueueTries(j) = run[w].attempt
  BY <1>2 DEF QueueState, QueueTries, QueueInv, QueueConsistent, OneRunPerJob
<1>3. ASSUME NEW j \in Jobs, NEW e \in timers, e.job = j
      PROVE  QueueState(j) = "pending" /\ QueueTries(j) = e.attempt
  <2>1. ~\E w \in Running : run[w].job = j
    BY <1>3 DEF QueueInv, QueueConsistent, RunOrPending, Pending
  <2>2. (CHOOSE x \in timers : x.job = j) = e
    BY <1>3 DEF QueueInv, QueueConsistent, OneEntryPerJob, Pending
  <2>3. QED
    BY <1>3, <2>1, <2>2 DEF QueueState, QueueTries, Pending
<1>4. ASSUME NEW j \in Jobs, NEW e \in waiting, e.job = j
      PROVE  QueueState(j) = "pending" /\ QueueTries(j) = e.attempt - 1
  <2>1. ~\E w \in Running : run[w].job = j
    BY <1>4 DEF QueueInv, QueueConsistent, RunOrPending, Pending
  <2>2. (CHOOSE x \in waiting : x.job = j) = e
    BY <1>4 DEF QueueInv, QueueConsistent, OneEntryPerJob, Pending
  <2>3. ~\E x \in timers : x.job = j
    BY <1>4 DEF QueueInv, QueueConsistent, OneEntryPerJob, Pending
  <2>4. QED
    BY <1>4, <2>1, <2>2, <2>3 DEF QueueState, QueueTries, Pending
<1>5. ASSUME NEW j \in Jobs, ~\E w \in Running : run[w].job = j, ~\E e \in Pending : e.job = j
      PROVE  QueueState(j) = "absent" /\ QueueTries(j) = 0
  BY <1>5 DEF QueueState, QueueTries, Pending
<1>6. \A j \in Jobs : QueueState(j) \in {"absent", "pending", "running"} /\ QueueTries(j) \in Int
  BY <1>0, <1>2, <1>3, <1>4, <1>5 DEF Pending
<1>7. ASSUME NEW j \in Jobs, \A a \in Int : ~InSlot(j, a) /\ ~InLine(j, a)
      PROVE  QueueState(j) = "absent" /\ QueueTries(j) = 0
  <2>1. ~\E w \in Running : run[w].job = j
    BY <1>0, <1>7 DEF InSlot
  <2>2. ~\E e \in timers : e.job = j
    BY <1>0, <1>7 DEF InLine, Pending
  <2>3. ASSUME NEW e \in waiting, e.job = j PROVE FALSE
    <3>1. e.attempt - 1 \in Int /\ e.attempt = (e.attempt - 1) + 1
      BY <1>0 DEF Pending
    <3>2. InLine(j, e.attempt - 1)
      BY <2>3, <3>1 DEF InLine
    <3>3. QED
      BY <1>7, <3>1, <3>2
  <2>4. QED
    BY <1>5, <2>1, <2>2, <2>3 DEF Pending
<1>8. ASSUME NEW j \in Jobs, NEW a \in Int, InLine(j, a)
      PROVE  QueueState(j) = "pending" /\ QueueTries(j) = a
  BY <1>3, <1>4, <1>8 DEF InLine
<1>9. QED
  BY <1>1, <1>2, <1>6, <1>7, <1>8 DEF QueueView, InSlot

\* Every job that runs has a slot of its own.
LEMMA QueueFits == TypeInv /\ QueueInv => VideoQueue!Fit({j \in Jobs : JobState[j] = "running"})
<1> SUFFICES ASSUME TypeInv, QueueInv
             PROVE  VideoQueue!Fit({j \in Jobs : JobState[j] = "running"})
  OBVIOUS
<1> DEFINE R == {j \in Jobs : JobState[j] = "running"}
           slot == [j \in R |-> CHOOSE w \in Workers : w \in Running /\ run[w].job = j]
<1>1. \A j \in R : \E w \in Workers : w \in Running /\ run[w].job = j
  BY DEF JobState, QueueState, Running
<1>2. \A j \in R : slot[j] \in Workers /\ run[slot[j]].job = j
  BY <1>1
<1>3. slot \in [R -> Workers]
  BY <1>1
<1> HIDE DEF slot
<1>4. \A i, j \in R : slot[i] = slot[j] => i = j
  BY <1>2
<1>5. QED
  BY <1>3, <1>4 DEF VideoQueue!Fit

\* What a step leaves of a job in the slots and in the queue it leaves in JobQueue.
LEMMA QueueSameJob ==
  ASSUME QueueView, QueueView', NEW j \in Jobs,
         \A a \in Int : (InSlot(j, a)' <=> InSlot(j, a)) /\ (InLine(j, a)' <=> InLine(j, a))
  PROVE  JobState'[j] = JobState[j] /\ JobTries'[j] = JobTries[j]
<1>1. CASE \E a \in Int : InSlot(j, a)
  BY <1>1 DEF QueueView
<1>2. CASE \E a \in Int : InLine(j, a)
  BY <1>2 DEF QueueView
<1>3. CASE \A a \in Int : ~InSlot(j, a) /\ ~InLine(j, a)
  <2>1. JobState[j] = "absent" /\ JobTries[j] = 0
    BY <1>3 DEF QueueView
  <2>2. \A a \in Int : ~InSlot(j, a)' /\ ~InLine(j, a)'
    BY <1>3
  <2>3. JobState'[j] = "absent" /\ JobTries'[j] = 0
    BY <2>2 DEF QueueView
  <2>4. QED
    BY <2>1, <2>3
<1>4. QED
  BY <1>1, <1>2, <1>3

LEMMA QueueSame ==
  ASSUME QueueView, QueueView', UNCHANGED mode,
         \A j \in Jobs : \A a \in Int : /\ InSlot(j, a)' <=> InSlot(j, a)
                                        /\ InLine(j, a)' <=> InLine(j, a)
  PROVE  UNCHANGED VideoQueue!vars
<1>1. \A j \in Jobs : JobState'[j] = JobState[j] /\ JobTries'[j] = JobTries[j]
  BY QueueSameJob
<1>2. JobState' = JobState
  BY <1>1 DEF QueueView
<1>3. JobTries' = JobTries
  BY <1>1 DEF QueueView
<1>4. QED
  BY <1>2, <1>3 DEF VideoQueue!vars

\* A run goes on with its job and its attempt.
LEMMA ProceedSame ==
  ASSUME QueueView, QueueView', UNCHANGED <<mode, waiting, timers>>, TypeInv,
         NEW w \in Workers, run[w].pc # "idle",
         \E pc, p : run' = [run EXCEPT ![w] = Slot(pc, run[w].job, run[w].attempt, p)] /\ pc # "idle"
  PROVE  UNCHANGED VideoQueue!vars
<1>1. \A v \in Workers : /\ run'[v].pc # "idle" <=> run[v].pc # "idle"
                         /\ run'[v].job = run[v].job /\ run'[v].attempt = run[v].attempt
  BY DEF Slot, TypeInv, TypeOK
<1>2. \A j \in Jobs : \A a \in Int : InSlot(j, a)' <=> InSlot(j, a)
  BY <1>1 DEF InSlot, Running
<1>3. \A j \in Jobs : \A a \in Int : InLine(j, a)' <=> InLine(j, a)
  BY DEF InLine
<1>4. QED
  BY <1>2, <1>3, QueueSame

\* A run ends for good.
LEMMA FinishEnds ==
  ASSUME QueueView, QueueView', UNCHANGED <<mode, waiting, timers>>, TypeInv, QueueInv,
         NEW w \in Workers, run[w].pc # "idle", run' = [run EXCEPT ![w] = IdleRun]
  PROVE  \E k \in Jobs : VideoQueue!End(k)
<1>1. PICK k \in Jobs : k = run[w].job
  BY DEF TypeInv, RunRefs
<1>2. PICK n \in Int : n = run[w].attempt
  BY AttemptsAssumption DEF TypeInv, RunRefs
<1>3. /\ w \in Running /\ w \notin Running'
      /\ \A v \in Workers \ {w} : run'[v] = run[v] /\ (v \in Running' <=> v \in Running)
  BY DEF Running, IdleRun, Slot, TypeInv, TypeOK
<1>4. InSlot(k, n)
  BY <1>1, <1>2, <1>3 DEF InSlot
<1>5. JobState[k] = "running"
  BY <1>4 DEF QueueView
<1>6. \A a \in Int : ~InSlot(k, a)' /\ ~InLine(k, a)'
  <2>1. \A v \in Running' : run'[v].job # k
    BY <1>1, <1>3 DEF QueueInv, QueueConsistent, OneRunPerJob, Running
  <2>2. \A e \in waiting \cup timers : e.job # k
    BY <1>1, <1>3 DEF QueueInv, QueueConsistent, RunOrPending, Pending
  <2>3. QED
    BY <2>1, <2>2 DEF InSlot, InLine
<1>7. JobState'[k] = "absent" /\ JobTries'[k] = 0
  BY <1>6 DEF QueueView
<1>8. ASSUME NEW j \in Jobs \ {k}
      PROVE  JobState'[j] = JobState[j] /\ JobTries'[j] = JobTries[j]
  <2>1. \A a \in Int : InSlot(j, a)' <=> InSlot(j, a)
    BY <1>1, <1>3 DEF InSlot, Running
  <2>2. \A a \in Int : InLine(j, a)' <=> InLine(j, a)
    BY DEF InLine
  <2>3. QED
    BY <2>1, <2>2, QueueSameJob
<1>9. JobState' = [JobState EXCEPT ![k] = "absent"]
  BY <1>7, <1>8 DEF QueueView
<1>10. JobTries' = [JobTries EXCEPT ![k] = 0]
  BY <1>7, <1>8 DEF QueueView
<1>11. QED
  BY <1>5, <1>9, <1>10 DEF VideoQueue!End

\* A run that failed waits for its next attempt.
LEMMA BackoffRetries ==
  ASSUME QueueView, QueueView', UNCHANGED <<mode, waiting>>, TypeInv, QueueInv, mode = "up",
         NEW w \in Workers, run[w].pc # "idle", run[w].attempt < MaxAttempts,
         timers' = timers \cup {Entry(run[w].job, run[w].attempt)},
         run' = [run EXCEPT ![w] = IdleRun]
  PROVE  \E k \in Jobs : VideoQueue!Retry(k)
<1>1. PICK k \in Jobs : k = run[w].job
  BY DEF TypeInv, RunRefs
<1>2. PICK n \in Int : n = run[w].attempt
  BY AttemptsAssumption DEF TypeInv, RunRefs
<1>3. /\ w \in Running /\ w \notin Running'
      /\ \A v \in Workers \ {w} : run'[v] = run[v] /\ (v \in Running' <=> v \in Running)
  BY DEF Running, IdleRun, Slot, TypeInv, TypeOK
<1>4. InSlot(k, n)
  BY <1>1, <1>2, <1>3 DEF InSlot
<1>5. JobState[k] = "running" /\ JobTries[k] = n
  BY <1>4 DEF QueueView
<1>6. PICK new : new = Entry(k, n)
  OBVIOUS
<1>7. timers' = timers \cup {new} /\ new.job = k /\ new.attempt = n
  BY <1>1, <1>2, <1>6 DEF Entry
<1>8. InLine(k, n)'
  BY <1>7 DEF InLine
<1>9. JobState'[k] = "pending" /\ JobTries'[k] = n
  BY <1>8 DEF QueueView
<1>10. ASSUME NEW j \in Jobs \ {k}
       PROVE  JobState'[j] = JobState[j] /\ JobTries'[j] = JobTries[j]
  <2>1. \A a \in Int : InSlot(j, a)' <=> InSlot(j, a)
    BY <1>1, <1>3 DEF InSlot, Running
  <2>2. \A a \in Int : InLine(j, a)' <=> InLine(j, a)
    BY <1>7 DEF InLine
  <2>3. QED
    BY <2>1, <2>2, QueueSameJob
<1>11. JobState' = [JobState EXCEPT ![k] = "pending"]
  BY <1>9, <1>10 DEF QueueView
<1>12. JobTries' = JobTries
  BY <1>5, <1>9, <1>10 DEF QueueView
<1>13. QED
  BY <1>2, <1>5, <1>11, <1>12 DEF VideoQueue!Retry

\* A job enters an open queue, or is refused.
LEMMA EnqueueAdds ==
  ASSUME QueueView, QueueView', TypeInv, QueueInv, NEW j \in Jobs, Enqueue(j),
         UNCHANGED <<mode, timers, run>>,
         VideoQueue!Fit({i \in Jobs : JobState[i] = "running"})
  PROVE  [VideoQueue!Add(j)]_(VideoQueue!vars)
<1>1. \A i \in Jobs : \A a \in Int : InSlot(i, a)' <=> InSlot(i, a)
  BY DEF InSlot, Running
<1>2. CASE mode = "up" /\ j \notin known
  <2>1. PICK new : new = Entry(j, 1)
    OBVIOUS
  <2>2. waiting' = waiting \cup {new} /\ new.job = j /\ new.attempt = 1
    BY <1>2, <2>1 DEF Enqueue, Entry
  <2>3. \A a \in Int : ~InSlot(j, a) /\ ~InLine(j, a)
    BY <1>2 DEF QueueInv, QueueConsistent, HeldIsKnown, Pending, InSlot, InLine
  <2>4. JobState[j] = "absent" /\ JobTries[j] = 0
    BY <2>3 DEF QueueView
  <2>5. InLine(j, 0)'
    BY <2>2 DEF InLine
  <2>6. JobState'[j] = "pending" /\ JobTries'[j] = 0
    BY <2>5 DEF QueueView
  <2>7. ASSUME NEW i \in Jobs \ {j}
        PROVE  JobState'[i] = JobState[i] /\ JobTries'[i] = JobTries[i]
    <3>1. \A a \in Int : InLine(i, a)' <=> InLine(i, a)
      BY <2>2 DEF InLine
    <3>2. QED
      BY <1>1, <3>1, QueueSameJob
  <2>8. JobState' = [i \in Jobs |-> IF i \in {} THEN "running" ELSE [JobState EXCEPT ![j] = "pending"][i]]
    BY <2>6, <2>7 DEF QueueView
  <2>9. JobTries' = [i \in Jobs |-> IF i \in {} THEN JobTries[i] + 1 ELSE JobTries[i]]
    BY <2>4, <2>6, <2>7 DEF QueueView
  <2>10. {i \in Jobs : JobState'[i] = "running"} = {i \in Jobs : JobState[i] = "running"}
    BY <2>4, <2>6, <2>7
  <2>11. VideoQueue!Dispatch([JobState EXCEPT ![j] = "pending"], JobTries)
    <3> DEFINE st == [JobState EXCEPT ![j] = "pending"]
    <3>1. JobState' = [i \in Jobs |-> IF i \in {} THEN "running" ELSE st[i]]
      BY <2>8
    <3> HIDE DEF st
    <3>2. {} \in SUBSET {i \in Jobs : st[i] = "pending" /\ JobTries[i] < MaxAttempts}
      OBVIOUS
    <3>3. VideoQueue!Fit({i \in Jobs : JobState'[i] = "running"})
      BY <2>10
    <3>4. VideoQueue!Dispatch(st, JobTries)
      BY <2>9, <3>1, <3>2, <3>3 DEF VideoQueue!Dispatch
    <3>5. QED
      BY <3>4 DEF st
  <2>12. QED
    BY <1>2, <2>4, <2>11 DEF VideoQueue!Add
<1>3. CASE ~(mode = "up" /\ j \notin known)
  <2>1. UNCHANGED waiting
    BY <1>3 DEF Enqueue
  <2>2. \A i \in Jobs : \A a \in Int : InLine(i, a)' <=> InLine(i, a)
    BY <2>1 DEF InLine
  <2>3. QED
    BY <1>1, <2>2, QueueSame
<1>4. QED
  BY <1>2, <1>3

\* A free slot takes a waiting job.
LEMMA StartDispatches ==
  ASSUME QueueView, QueueView', TypeInv, QueueInv, NEW w \in Workers, NEW e \in waiting, Start(w, e),
         VideoQueue!Fit({i \in Jobs : JobState'[i] = "running"})
  PROVE  VideoQueue!Start
<1>1. e.job \in Jobs /\ e.attempt \in Int /\ e.attempt <= MaxAttempts
  BY AttemptsAssumption DEF TypeInv, TypeOK, EntryType
<1>2. PICK k \in Jobs : k = e.job
  BY <1>1
<1>3. PICK n \in Int : n = e.attempt - 1
  BY <1>1
<1>4. /\ run'[w].job = k /\ run'[w].attempt = n + 1 /\ w \in Running' /\ w \notin Running
      /\ \A v \in Workers \ {w} : run'[v] = run[v] /\ (v \in Running' <=> v \in Running)
  BY <1>1, <1>2, <1>3 DEF Start, Running, Slot, TypeInv, TypeOK
<1>5. InLine(k, n)
  BY <1>1, <1>2, <1>3 DEF InLine
<1>6. JobState[k] = "pending" /\ JobTries[k] = n
  BY <1>5 DEF QueueView
<1>7. InSlot(k, n + 1)'
  BY <1>4 DEF InSlot
<1>8. JobState'[k] = "running" /\ JobTries'[k] = n + 1
  BY <1>7 DEF QueueView
<1>9. ASSUME NEW j \in Jobs \ {k}
      PROVE  JobState'[j] = JobState[j] /\ JobTries'[j] = JobTries[j]
  <2>1. \A a \in Int : InSlot(j, a)' <=> InSlot(j, a)
    BY <1>4 DEF InSlot, Running
  <2>2. \A a \in Int : InLine(j, a)' <=> InLine(j, a)
    BY <1>2 DEF InLine, Start
  <2>3. QED
    BY <2>1, <2>2, QueueSameJob
<1>10. JobState' = [j \in Jobs |-> IF j \in {k} THEN "running" ELSE JobState[j]]
  BY <1>8, <1>9 DEF QueueView
<1>11. JobTries' = [j \in Jobs |-> IF j \in {k} THEN JobTries[j] + 1 ELSE JobTries[j]]
  BY <1>6, <1>8, <1>9 DEF QueueView
<1>12. {k} \in SUBSET {j \in Jobs : JobState[j] = "pending" /\ JobTries[j] < MaxAttempts}
  BY <1>1, <1>2, <1>3, <1>6, AttemptsAssumption
<1>13. VideoQueue!Dispatch(JobState, JobTries)
  BY <1>10, <1>11, <1>12 DEF VideoQueue!Dispatch
<1>14. UNCHANGED mode
  BY DEF Start
<1>15. QED
  BY <1>13, <1>14 DEF VideoQueue!Start

\* Another process state: what the queue held is dropped, lost, or found again.
LEMMA StopsAndStarts ==
  ASSUME QueueView, QueueView', TypeInv, QueueInv, Crash \/ Shutdown \/ Exit \/ Boot
  PROVE  VideoQueue!Next
<1>1. CASE Crash \/ Exit
  <2>1. mode' = "down" /\ waiting' = {} /\ timers' = {} /\ \A w \in Workers : run'[w].pc = "idle"
    BY <1>1 DEF Crash, Exit, LoseMemory, IdleRun, Slot
  <2>2. \A j \in Jobs : \A a \in Int : ~InSlot(j, a)' /\ ~InLine(j, a)'
    BY <2>1 DEF InSlot, InLine, Running
  <2>3. \A j \in Jobs : JobState'[j] = "absent" /\ JobTries'[j] = 0
    BY <2>2 DEF QueueView
  <2>4. JobState' = [j \in Jobs |-> "absent"]
    BY <2>3 DEF QueueView
  <2>5. JobTries' = [j \in Jobs |-> 0]
    BY <2>3 DEF QueueView
  <2>6. VideoQueue!Lose
    BY <2>1, <2>4, <2>5 DEF VideoQueue!Lose
  <2>7. QED
    BY <2>6 DEF VideoQueue!Next
<1>2. CASE Shutdown
  <2>1. mode' = "closing" /\ waiting' = {} /\ timers' = {} /\ run' = run
    BY <1>2 DEF Shutdown
  <2>2. \A j \in Jobs : \A a \in Int : (InSlot(j, a)' <=> InSlot(j, a)) /\ ~InLine(j, a)'
    BY <2>1 DEF InSlot, InLine, Running
  <2>3. ASSUME NEW j \in Jobs, JobState[j] = "pending"
        PROVE  JobState'[j] = "absent" /\ JobTries'[j] = 0
    <3>1. \A a \in Int : ~InSlot(j, a)
      BY <2>3 DEF QueueView
    <3>2. \A a \in Int : ~InSlot(j, a)' /\ ~InLine(j, a)'
      BY <2>2, <3>1
    <3>3. QED
      BY <3>2 DEF QueueView
  <2>4. ASSUME NEW j \in Jobs, JobState[j] # "pending"
        PROVE  JobState'[j] = JobState[j] /\ JobTries'[j] = JobTries[j]
    <3>1. \A a \in Int : ~InLine(j, a)
      BY <2>4 DEF QueueView
    <3>2. QED
      BY <2>2, <3>1, QueueSameJob
  <2>5. JobState' = [j \in Jobs |-> IF JobState[j] = "pending" THEN "absent" ELSE JobState[j]]
    BY <2>3, <2>4 DEF QueueView
  <2>6. JobTries' = [j \in Jobs |-> IF JobState[j] = "pending" THEN 0 ELSE JobTries[j]]
    BY <2>3, <2>4 DEF QueueView
  <2>7. VideoQueue!Close
    BY <2>1, <2>5, <2>6 DEF VideoQueue!Close
  <2>8. QED
    BY <2>7 DEF VideoQueue!Next
<1>3. CASE Boot
  <2> DEFINE resumed == {j \in Jobs : jstat[j] \in {"QUEUED", "PROCESSING"}}
  <2>1. /\ mode = "down" /\ mode' = "up" /\ timers' = timers /\ run' = run
        /\ waiting' = {Entry(j, 1) : j \in resumed}
    BY <1>3 DEF Boot
  <2>2. Running = {} /\ Pending = {}
    BY <2>1 DEF QueueInv, StoppedInv
  <2>3. \A j \in Jobs : JobState[j] = "absent" /\ JobTries[j] = 0
    BY <2>2 DEF QueueView, InSlot, InLine, Pending
  <2>4. \A e \in waiting' : e.job \in resumed /\ e.attempt = 1
    BY <2>1 DEF Entry
  <2>5. ASSUME NEW j \in resumed
        PROVE  \E e \in waiting' : e.job = j /\ e.attempt = 1
    <3>1. Entry(j, 1) \in waiting'
      BY <2>1
    <3>2. Entry(j, 1).job = j /\ Entry(j, 1).attempt = 1
      BY DEF Entry
    <3>3. QED
      BY <3>1, <3>2
  <2>6. timers' = {} /\ Running' = {}
    BY <2>1, <2>2 DEF Pending, Running
  <2> HIDE DEF resumed
  <2>7. ASSUME NEW j \in Jobs, j \in resumed
        PROVE  JobState'[j] = "pending" /\ JobTries'[j] = 0
    <3>1. InLine(j, 0)'
      BY <2>5, <2>7 DEF InLine
    <3>2. QED
      BY <3>1 DEF QueueView
  <2>8. ASSUME NEW j \in Jobs, j \notin resumed
        PROVE  JobState'[j] = "absent" /\ JobTries'[j] = 0
    <3>1. \A a \in Int : ~InSlot(j, a)' /\ ~InLine(j, a)'
      BY <2>4, <2>6, <2>8 DEF InSlot, InLine
    <3>2. QED
      BY <3>1 DEF QueueView
  <2>9. JobState' = [j \in Jobs |-> IF j \in resumed THEN "pending" ELSE "absent"]
    BY <2>7, <2>8 DEF QueueView
  <2>10. JobTries' = JobTries
    BY <2>3, <2>7, <2>8 DEF QueueView
  <2>11. VideoQueue!Resume(resumed)
    BY <2>1, <2>3, <2>9, <2>10 DEF VideoQueue!Resume
  <2>12. resumed \in SUBSET Jobs
    BY DEF resumed
  <2>13. QED
    BY <2>11, <2>12 DEF VideoQueue!Next
<1>4. QED
  BY <1>1, <1>2, <1>3

LEMMA QueueStep ==
  ASSUME QueueView, QueueView', TypeInv, QueueInv, [Next]_vars,
         VideoQueue!Fit({j \in Jobs : JobState[j] = "running"}),
         VideoQueue!Fit({j \in Jobs : JobState'[j] = "running"})
  PROVE  [VideoQueue!Next]_(VideoQueue!vars)
<1>s. ASSUME UNCHANGED <<mode, waiting, timers, run>>
      PROVE  UNCHANGED VideoQueue!vars
  <2>1. \A j \in Jobs : \A a \in Int : /\ InSlot(j, a)' <=> InSlot(j, a)
                                       /\ InLine(j, a)' <=> InLine(j, a)
    BY <1>s DEF InSlot, InLine, Running
  <2>2. QED
    BY <1>s, <2>1, QueueSame
<1>p. ASSUME NEW w \in Workers, NEW pc, Proceed(w, pc), pc # "idle", run[w].pc # "idle",
             UNCHANGED <<mode, waiting, timers>>
      PROVE  UNCHANGED VideoQueue!vars
  BY <1>p, ProceedSame DEF Proceed
<1>f. ASSUME NEW w \in Workers, Finish(w), run[w].pc # "idle", UNCHANGED <<mode, waiting, timers>>
      PROVE  VideoQueue!Next
  BY <1>f, FinishEnds DEF Finish, VideoQueue!Next
<1>1. CASE UNCHANGED vars
  BY <1>1, <1>s DEF vars, queue
<1>2. ASSUME NEW v \in Videos, NEW j \in Jobs, CreateVideoUpload(v, j)
      PROVE  UNCHANGED VideoQueue!vars
  BY <1>2, <1>s DEF CreateVideoUpload, queue
<1>3. ASSUME NEW r \in Requests, NEW v \in Videos, NEW j \in Jobs,
             CompleteUpload(r, v, j) \/ \E i \in Chunks : ReceiveChunk(r, v, j, i)
      PROVE  UNCHANGED VideoQueue!vars
  BY <1>3, <1>s DEF CompleteUpload, ReceiveChunk, queue
<1>4. ASSUME NEW r \in Requests, NEW v \in Videos, RestartUpload(r, v)
      PROVE  UNCHANGED VideoQueue!vars
  BY <1>4, <1>s DEF RestartUpload, queue
<1>5. ASSUME NEW r \in Requests, RequestStep(r)
      PROVE  [VideoQueue!Next]_(VideoQueue!vars)
  <2>1. CASE CompleteEnqueue(r)
    <3>1. PICK k \in Jobs : k = req[r].job
      BY <2>1 DEF CompleteEnqueue, TypeInv, RequestRefs
    <3>2. Enqueue(k) /\ UNCHANGED <<mode, timers, run>>
      BY <2>1, <3>1 DEF CompleteEnqueue, Enqueue
    <3>3. [VideoQueue!Add(k)]_(VideoQueue!vars)
      BY <3>2, EnqueueAdds
    <3>4. QED
      BY <3>3 DEF VideoQueue!Next
  <2>2. CASE ChunkStored(r) \/ ChunkFailed(r) \/ CompleteCheck(r)
    BY <2>2, <1>s DEF ChunkStored, ChunkFailed, CompleteCheck, queue
  <2>3. CASE CompleteAccept(r) \/ CompleteRefused(r)
    BY <2>3, <1>s DEF CompleteAccept, CompleteRefused, queue
  <2>4. CASE (\E j \in Jobs : RestartCommit(r, j)) \/ RestartFailed(r) \/ RestartPurge(r)
    BY <2>4, <1>s DEF RestartCommit, RestartFailed, RestartPurge, queue
  <2>5. QED
    BY <1>5, <2>1, <2>2, <2>3, <2>4 DEF RequestStep
<1>6. ASSUME NEW j \in Jobs, Age(j)
      PROVE  UNCHANGED VideoQueue!vars
  BY <1>6, <1>s DEF Age, queue
<1>7. CASE SweepBegin
  BY <1>7, <1>s DEF SweepBegin, queue
<1>8. CASE SweepStep
  <2>1. ASSUME NEW j \in Jobs, SweepRequeue(j)
        PROVE  [VideoQueue!Next]_(VideoQueue!vars)
    <3>1. Enqueue(j) /\ UNCHANGED <<mode, timers, run>>
      BY <2>1 DEF SweepRequeue
    <3>2. [VideoQueue!Add(j)]_(VideoQueue!vars)
      BY <3>1, EnqueueAdds
    <3>3. QED
      BY <3>2 DEF VideoQueue!Next
  <2>2. CASE (\E j \in Jobs : SweepCancel(j)) \/ SweepPurge \/ SweepFindStuck \/ SweepEnd
    BY <2>2, <1>s DEF SweepCancel, SweepPurge, SweepFindStuck, SweepEnd, queue
  <2>3. QED
    BY <1>8, <2>1, <2>2 DEF SweepStep
<1>9. ASSUME NEW w \in Workers, RunStep(w)
      PROVE  [VideoQueue!Next]_(VideoQueue!vars)
  <2>1. CASE RunSkip(w) \/ RunAnnounce(w) \/ ErrorAborted(w) \/ ErrorCleaned(w)
    BY <2>1, <1>f DEF RunSkip, RunAnnounce, ErrorAborted, ErrorCleaned
  <2>2. CASE RunRead(w) \/ RunMark(w) \/ RunEncode(w) \/ RunNotAVideo(w)
    <3>1. \E pc \in {"mark", "assemble", "unpublish", "permanent"} : Proceed(w, pc)
      BY <2>2 DEF RunRead, RunMark, RunEncode, RunNotAVideo
    <3>2. run[w].pc # "idle" /\ UNCHANGED <<mode, waiting, timers>>
      BY <2>2 DEF RunRead, RunMark, RunEncode, RunNotAVideo
    <3>3. QED
      BY <3>1, <3>2, <1>p
  <2>3. CASE RunAssemble(w)
    <3>1. \E pc \in {"encode", "error"} : Proceed(w, pc)
      BY <2>3 DEF RunAssemble
    <3>2. run[w].pc # "idle" /\ UNCHANGED <<mode, waiting, timers>>
      BY <2>3 DEF RunAssemble
    <3>3. QED
      BY <3>1, <3>2, <1>p
  <2>4. CASE RunUnpublish(w) \/ RunPublish(w) \/ RunCommit(w) \/ RunDropPrevious(w) \/ RunClean(w)
    <3>1. \E pc \in {"publish", "previous", "dropPrevious", "clean", "announce"} : Proceed(w, pc)
      BY <2>4 DEF RunUnpublish, RunPublish, RunCommit, RunDropPrevious, RunClean
    <3>2. run[w].pc # "idle" /\ UNCHANGED <<mode, waiting, timers>>
      BY <2>4 DEF RunUnpublish, RunPublish, RunCommit, RunDropPrevious, RunClean
    <3>3. QED
      BY <3>1, <3>2, <1>p
  <2>5. CASE RunPrevious(w)
    <3>1. run[w].pc # "idle" /\ UNCHANGED <<mode, waiting, timers>>
      BY <2>5 DEF RunPrevious
    <3> DEFINE Goes(pc, p) == run' = [run EXCEPT ![w] = Slot(pc, run[w].job, run[w].attempt, p)] /\ pc # "idle"
    <3>2. Goes("commit", asset[jvid[run[w].job]])
      BY <2>5 DEF RunPrevious, Remember
    <3> HIDE DEF Goes
    <3>3. \E pc, p : Goes(pc, p)
      BY <3>2
    <3> USE DEF Goes
    <3>4. QED
      BY <3>1, <3>3, ProceedSame
  <2>6. CASE RunFault(w)
    <3>1. run[w].pc # "idle" /\ UNCHANGED <<mode, waiting, timers>> /\ Proceed(w, "error")
      BY <2>6, FaultsAssumption DEF RunFault, EarlySteps, LateSteps
    <3>2. QED
      BY <3>1, <1>p
  <2>7. CASE ErrorRequeued(w) \/ ErrorFailed(w)
    <3>1. \E pc \in {"backoff", "failed"} : Proceed(w, pc)
      BY <2>7 DEF ErrorRequeued, ErrorFailed
    <3>2. run[w].pc # "idle" /\ UNCHANGED <<mode, waiting, timers>>
      BY <2>7 DEF ErrorRequeued, ErrorFailed
    <3>3. QED
      BY <3>1, <3>2, <1>p
  <2>8. CASE ErrorBackoff(w)
    <3>1. CASE mode = "up"
      <4>1. run[w].attempt < MaxAttempts /\ run[w].pc # "idle"
        BY <2>8 DEF ErrorBackoff, TypeInv, RunRefs
      <4>2. \E k \in Jobs : VideoQueue!Retry(k)
        BY <2>8, <3>1, <4>1, BackoffRetries DEF ErrorBackoff
      <4>3. QED
        BY <4>2 DEF VideoQueue!Next
    <3>2. CASE mode # "up"
      BY <2>8, <3>2, <1>f DEF ErrorBackoff
    <3>3. QED
      BY <3>1, <3>2
  <2>9. CASE ErrorUnrecorded(w)
    <3>1. run[w].pc # "idle" /\ UNCHANGED <<mode, waiting, timers>>
      BY <2>9 DEF ErrorUnrecorded
    <3>2. Proceed(w, "backoff") \/ Finish(w)
      BY <2>9 DEF ErrorUnrecorded
    <3>3. QED
      BY <3>1, <3>2, <1>p, <1>f
  <2>10. CASE ErrorUncleaned(w)
    <3>1. run[w].pc # "idle" /\ UNCHANGED <<mode, waiting, timers>>
      BY <2>10 DEF ErrorUncleaned
    <3>2. Proceed(w, "backoff") \/ Finish(w)
      BY <2>10 DEF ErrorUncleaned
    <3>3. QED
      BY <3>1, <3>2, <1>p, <1>f
  <2>11. QED
    BY <1>9, <2>1, <2>2, <2>3, <2>4, <2>5, <2>6, <2>7, <2>8, <2>9, <2>10 DEF RunStep
<1>10. ASSUME NEW w \in Workers, NEW e \in waiting, Start(w, e)
       PROVE  VideoQueue!Next
  BY <1>10, StartDispatches DEF VideoQueue!Next
<1>11. ASSUME NEW e \in timers, Retry(e)
       PROVE  UNCHANGED VideoQueue!vars
  <2>1. PICK n \in Int : n = e.attempt
    BY AttemptsAssumption DEF TypeInv, TypeOK, EntryType
  <2>2. PICK new : new = Entry(e.job, n + 1)
    OBVIOUS
  <2>3. /\ timers' = timers \ {e} /\ waiting' = waiting \cup {new}
        /\ new.job = e.job /\ new.attempt = n + 1 /\ UNCHANGED <<mode, run>>
    BY <1>11, <2>1, <2>2 DEF Retry, Entry
  <2>4. \A j \in Jobs : \A a \in Int : InSlot(j, a)' <=> InSlot(j, a)
    BY <2>3 DEF InSlot, Running
  <2>5. \A j \in Jobs : \A a \in Int : InLine(j, a)' <=> InLine(j, a)
    BY <2>1, <2>3 DEF InLine
  <2>6. QED
    BY <2>3, <2>4, <2>5, QueueSame
<1>12. CASE Crash \/ Shutdown \/ Exit \/ Boot
  BY <1>12, StopsAndStarts
<1>13. QED
  BY <1>1, <1>2, <1>3, <1>4, <1>5, <1>6, <1>7, <1>8, <1>9, <1>10, <1>11, <1>12 DEF Next

LEMMA QueueStarts == Init => VideoQueue!Init
<1> SUFFICES ASSUME Init PROVE VideoQueue!Init
  OBVIOUS
<1>1. mode = "up" /\ Running = {} /\ Pending = {} /\ timers = {} /\ waiting = {}
  BY DEF Init, Running, Pending, IdleRun, Slot
<1>2. \A j \in Jobs : QueueState(j) = "absent" /\ QueueTries(j) = 0
  BY <1>1 DEF QueueState, QueueTries
<1>3. QED
  BY <1>1, <1>2 DEF VideoQueue!Init, JobState, JobTries

\* The queue of the process implements the same JobQueue that MemoryQueue does: a video job is
\* held once, tried no more often than the limit and given up or taken up again with the process
\* (MemoryQueue, memory-queue.ts:33-134; runVideoJob, handlers.ts; startEmbeddedWorker, embedded.ts).
THEOREM VideoQueueRefines == Spec => ImplementsJobQueue
<1>1. (TypeInv /\ QueueInv => QueueView)'
  BY QueueViewed, PTL
<1>2. (TypeInv /\ QueueInv => VideoQueue!Fit({j \in Jobs : JobState[j] = "running"}))'
  BY QueueFits, PTL
<1>3. TypeInv /\ QueueInv /\ [Next]_vars => [VideoQueue!Next]_(VideoQueue!vars)
  <2> SUFFICES ASSUME TypeInv, QueueInv, [Next]_vars
               PROVE  [VideoQueue!Next]_(VideoQueue!vars)
    OBVIOUS
  <2>1. TypeInv' /\ QueueInv'
    BY TypeInvStep, QueueInvStep
  <2>2. QueueView /\ QueueView'
    BY <1>1, <2>1, QueueViewed
  <2>3. VideoQueue!Fit({j \in Jobs : JobState[j] = "running"})
    BY QueueFits
  <2>4. VideoQueue!Fit({j \in Jobs : JobState'[j] = "running"})
    BY <1>2, <2>1 DEF VideoQueue!Fit
  <2>5. QED
    BY <2>2, <2>3, <2>4, QueueStep
<1>4. QED
  BY <1>3, TypeInvInit, TypeInvStep, QueueInvInit, QueueInvStep, QueueStarts, PTL
     DEF Spec, ImplementsJobQueue, VideoQueue!Spec

(***************************************************************************)
(* What the owner sees of a video.  That every step of the pipeline is one *)
(* of VideoLifecycle is proved here; that an upload ends is left to TLC.   *)
(***************************************************************************)
\* A video whose newest upload is being sent is shown so.
UploadsShown ==
    \A j \in Jobs : jstat[j] = "UPLOADING" /\ IsLatestJob(j, jvid[j]) => vstat[jvid[j]] = "UPLOADING"

LifeInv == TypeInv /\ QueueInv /\ MatchInv /\ AssetInv /\ UploadsShown

LEMMA LifeInit == Init => LifeInv
BY TypeInvInit, QueueInvInit, MatchInit, AssetInvInit DEF LifeInv, UploadsShown, Init

\* Under these conditions a run never reads a job that has published.
LEMMA SparePublished == ASSUME NoLateFaults, TypeInv, MatchInv, AssetInv
                        PROVE  FaultsSparePublished
<1> SUFFICES ASSUME NEW w \in Workers, run[w].pc \in FaultPoints
             PROVE  run[w].job \notin published
  BY DEF FaultsSparePublished
<1>1. run[w].pc \in {"read", "error", "permanent"} \cup EarlySteps
  BY FaultsAssumption DEF NoLateFaults
<1>2. jstat[run[w].job] \in InWork
  BY <1>1 DEF MatchInv, HeldInWork
<1>3. QED
  BY <1>2 DEF AssetInv, PublishedIsFinal, InWork

LEMMA VideoOfJob ==
    ASSUME TypeInv, NEW j \in Jobs, jstat[j] # "NONE"
    PROVE  jvid[j] \in Videos
BY DEF TypeInv, TypeOK, JobRefs

\* The newest upload of a video is one.
LEMMA LatestIsOne ==
    ASSUME NEW i \in Jobs, NEW j \in Jobs, NEW v, IsLatestJob(i, v), IsLatestJob(j, v)
    PROVE  i = j
<1>1. i <= j /\ j <= i
  BY DEF IsLatestJob
<1>2. QED
  BY <1>1, BoundsAssumption DEF Jobs, IsLatestJob, JobsOf

\* What the steps that change a row of a video, or of an upload, do to it.
UploadBegins(v) == vstat[v] \in {"NONE", "UPLOADING", "FAILED"} /\ vstat' = [vstat EXCEPT ![v] = "UPLOADING"]
UploadSubmitted(v) == vstat[v] = "UPLOADING" /\ vstat' = [vstat EXCEPT ![v] = "PROCESSING"]
UploadFails(v) == vstat[v] = "PROCESSING" /\ vstat' = [vstat EXCEPT ![v] = "FAILED"]

LEMMA CreateShown ==
    ASSUME LifeInv, NEW v \in Videos, NEW k \in Jobs, CreateVideoUpload(v, k)
    PROVE  UploadsShown' /\ UploadBegins(v)
<1>1. /\ vstat[v] = "NONE" /\ jstat[k] = "NONE"
      /\ vstat' = [vstat EXCEPT ![v] = "UPLOADING"] /\ jstat' = [jstat EXCEPT ![k] = "UPLOADING"]
      /\ jvid' = [jvid EXCEPT ![k] = v]
  BY DEF CreateVideoUpload, IsNextJob
<1>2. jvid[k] = NoVideo /\ \A i \in Jobs : jvid[i] # v
  BY <1>1, VideosAssumption DEF LifeInv, MatchInv, TypeInv, TypeOK, JobRefs, RowsInv, JobsHaveVideos
<1>3. ASSUME NEW j \in Jobs, jstat'[j] = "UPLOADING", IsLatestJob(j, jvid[j])', j # k
      PROVE  vstat'[jvid'[j]] = "UPLOADING"
  <2>1. jstat[j] = "UPLOADING" /\ jvid'[j] = jvid[j] /\ jvid[j] \in Videos /\ jvid[j] # v
    BY <1>1, <1>2, <1>3, VideoOfJob DEF LifeInv, TypeInv, TypeOK
  <2>2. \A i \in Jobs : jvid[i] = jvid[j] => jvid'[i] = jvid[i]
    BY <1>1, <1>2, <2>1, VideosAssumption DEF LifeInv, TypeInv, TypeOK
  <2>3. IsLatestJob(j, jvid[j])
    BY <1>3, <2>1, <2>2 DEF IsLatestJob, JobsOf
  <2>4. QED
    BY <1>1, <2>1, <2>3 DEF LifeInv, UploadsShown, TypeInv, TypeOK
<1>4. vstat'[jvid'[k]] = "UPLOADING"
  BY <1>1 DEF LifeInv, TypeInv, TypeOK
<1>5. UploadsShown'
  BY <1>3, <1>4 DEF UploadsShown
<1>6. QED
  BY <1>1, <1>5 DEF UploadBegins

LEMMA AcceptShown ==
    ASSUME LifeInv, NEW r \in Requests, CompleteAccept(r)
    PROVE  UploadsShown' /\ \E v \in Videos : UploadSubmitted(v)
<1>1. req[r].pc = "accept" /\ req[r].job \in Jobs /\ req[r].vid \in Videos
  BY DEF CompleteAccept, LifeInv, TypeInv, RequestRefs
<1>2. PICK k \in Jobs : k = req[r].job
  BY <1>1
<1>3. PICK v \in Videos : v = req[r].vid
  BY <1>1
<1>4. jvid[k] = v /\ IsLatestJob(k, v) /\ jstat[k] = "UPLOADING"
  BY <1>1, <1>2, <1>3 DEF LifeInv, MatchInv, ReadStillSo, StillRead, IsActiveUpload
<1>5. /\ jstat' = [jstat EXCEPT ![k] = "QUEUED"] /\ vstat' = [vstat EXCEPT ![v] = "PROCESSING"]
      /\ jvid' = jvid
  BY <1>2, <1>3 DEF CompleteAccept
<1>6. vstat[v] = "UPLOADING"
  BY <1>4 DEF LifeInv, UploadsShown
<1>7. ASSUME NEW j \in Jobs, jstat'[j] = "UPLOADING", IsLatestJob(j, jvid[j])'
      PROVE  vstat'[jvid'[j]] = "UPLOADING"
  <2>1. j # k /\ jstat[j] = "UPLOADING"
    BY <1>5, <1>7 DEF LifeInv, TypeInv, TypeOK
  <2>2. IsLatestJob(j, jvid[j])
    BY <1>5, <1>7 DEF IsLatestJob, JobsOf
  <2>3. jvid[j] # v
    BY <1>4, <2>1, <2>2, LatestIsOne
  <2>4. vstat[jvid[j]] = "UPLOADING"
    BY <2>1, <2>2 DEF LifeInv, UploadsShown
  <2>5. QED
    BY <1>5, <2>3, <2>4 DEF LifeInv, TypeInv, TypeOK
<1>8. UploadsShown'
  BY <1>7 DEF UploadsShown
<1>9. QED
  BY <1>5, <1>6, <1>8 DEF UploadSubmitted

LEMMA RestartShown ==
    ASSUME LifeInv, NEW r \in Requests, NEW k \in Jobs, RestartCommit(r, k)
    PROVE  UploadsShown' /\ \E v \in Videos : UploadBegins(v)
<1>1. req[r].pc = "restart" /\ req[r].vid \in Videos
  BY DEF RestartCommit, LifeInv, TypeInv, RequestRefs
<1>2. PICK v \in Videos : v = req[r].vid
  BY <1>1
<1>3. /\ vstat[v] \in {"UPLOADING", "FAILED"} /\ jstat[k] = "NONE"
      /\ vstat' = [vstat EXCEPT ![v] = "UPLOADING"] /\ jvid' = [jvid EXCEPT ![k] = v]
      /\ \A i \in Jobs : i # k /\ jstat'[i] = "UPLOADING" => jstat[i] = "UPLOADING"
  BY <1>1, <1>2 DEF RestartCommit, IsNextJob, LifeInv, MatchInv, ReadStillSo, StillRead
<1>4. ASSUME NEW j \in Jobs, jstat'[j] = "UPLOADING", IsLatestJob(j, jvid[j])'
      PROVE  vstat'[jvid'[j]] = "UPLOADING"
  <2>1. CASE jvid'[j] = v
    BY <1>3, <2>1 DEF LifeInv, TypeInv, TypeOK
  <2>2. CASE jvid'[j] # v
    <3>1. j # k /\ jvid'[j] = jvid[j] /\ jstat[j] = "UPLOADING"
      BY <1>3, <1>4, <2>2 DEF LifeInv, TypeInv, TypeOK
    <3>2. jvid[k] = NoVideo
      BY <1>3 DEF LifeInv, TypeInv, JobRefs
    <3>3. jvid[j] \in Videos
      BY <3>1, VideoOfJob DEF LifeInv
    <3>4. IsLatestJob(j, jvid[j])
      BY <1>3, <1>4, <2>2, <3>1, <3>2, <3>3, VideosAssumption DEF IsLatestJob, JobsOf, LifeInv, TypeInv, TypeOK
    <3>5. QED
      BY <1>3, <2>2, <3>1, <3>3, <3>4 DEF LifeInv, UploadsShown, TypeInv, TypeOK
  <2>3. QED
    BY <2>1, <2>2
<1>5. UploadsShown'
  BY <1>4 DEF UploadsShown
<1>6. QED
  BY <1>3, <1>5 DEF UploadBegins

\* A run that ends an upload, or takes it on: no upload that is being sent is concerned.
LEMMA WorkShown ==
    ASSUME LifeInv, NEW k \in Jobs, jstat[k] \in InWork, jvid' = jvid,
           \A i \in Jobs : i # k => jstat'[i] = jstat[i], jstat'[k] # "UPLOADING",
           \A v \in Videos : v # jvid[k] => vstat'[v] = vstat[v]
    PROVE  UploadsShown'
<1>1. IsLatestJob(k, jvid[k])
  BY DEF LifeInv, MatchInv, RowsInv, WorkInOrder, WorkIsLatest, InWork
<1>2. ASSUME NEW j \in Jobs, jstat'[j] = "UPLOADING", IsLatestJob(j, jvid[j])'
      PROVE  vstat'[jvid'[j]] = "UPLOADING"
  <2>1. j # k /\ jstat[j] = "UPLOADING"
    BY <1>2
  <2>2. IsLatestJob(j, jvid[j])
    BY <1>2 DEF IsLatestJob, JobsOf
  <2>3. PICK v : v = jvid[k]
    OBVIOUS
  <2>4. jvid[j] # v
    BY <1>1, <2>1, <2>2, <2>3, LatestIsOne
  <2>5. jvid[j] \in Videos
    BY <2>1, VideoOfJob DEF LifeInv
  <2>6. vstat[jvid[j]] = "UPLOADING"
    BY <2>1, <2>2 DEF LifeInv, UploadsShown
  <2>7. QED
    BY <2>3, <2>4, <2>5, <2>6
<1>3. QED
  BY <1>2 DEF UploadsShown

LEMMA RunShown ==
    ASSUME LifeInv, NEW w \in Workers, RunMark(w) \/ ErrorRequeued(w) \/ RunCommit(w) \/ ErrorFailed(w)
    PROVE  /\ UploadsShown'
           /\ RunMark(w) \/ ErrorRequeued(w) => vstat' = vstat
           /\ RunCommit(w) \/ ErrorFailed(w) => vstat[jvid[run[w].job]] = "PROCESSING"
<1>1. run[w].pc \in {"mark", "error", "permanent", "commit"}
  BY DEF RunMark, ErrorRequeued, RunCommit, ErrorFailed
<1>2. run[w].job \in Jobs /\ jstat[run[w].job] \in InWork
  BY <1>1, RunHas DEF LifeInv, MatchInv, HeldInWork, EarlySteps
<1>3. PICK k \in Jobs : k = run[w].job
  BY <1>2
<1>4. /\ jvid' = jvid /\ \A i \in Jobs : i # k => jstat'[i] = jstat[i]
      /\ jstat'[k] \in {"PROCESSING", "QUEUED", "COMPLETED", "FAILED"}
      /\ \A v \in Videos : v # jvid[k] => vstat'[v] = vstat[v]
  BY <1>3 DEF RunMark, ErrorRequeued, RunCommit, ErrorFailed, LifeInv, TypeInv, TypeOK
<1>5. UploadsShown'
  BY <1>2, <1>3, <1>4, WorkShown
<1>6. vstat[jvid[k]] = "PROCESSING"
  BY <1>2, <1>3 DEF LifeInv, MatchInv, RowsInv, WorkInOrder, WorkIsLatest, InWork
<1>7. RunMark(w) \/ ErrorRequeued(w) => vstat' = vstat
  BY DEF RunMark, ErrorRequeued
<1>8. QED
  BY <1>3, <1>5, <1>6, <1>7

\* The streams stay what they are when no asset row changes and no directory that one names.
LEMMA WatchableSame ==
    ASSUME UNCHANGED asset,
           \A v \in Videos : asset[v] # 0 => (asset[v] \in hls'[v] <=> asset[v] \in hls[v])
    PROVE  Watchable' = Watchable
BY DEF Watchable

LEMMA LifeSame ==
    ASSUME LifeInv, UNCHANGED <<vstat, jstat, jvid, asset, hls>>
    PROVE  UploadsShown' /\ UNCHANGED Lifecycle!vars
BY DEF LifeInv, UploadsShown, IsLatestJob, JobsOf, Lifecycle!vars, Watchable

\* Before its transaction a run touches its own directory, which no asset row names;
\* after it, the one of the asset that was replaced.
LEMMA PublishSame ==
    ASSUME LifeInv, NEW w \in Workers, RunUnpublish(w) \/ RunPublish(w) \/ RunDropPrevious(w)
    PROVE  Watchable' = Watchable
<1>1. run[w].job \in Jobs /\ jvid[run[w].job] \in Videos
  BY RunHas DEF LifeInv, RunUnpublish, RunPublish, RunDropPrevious
<1>2. PICK k \in Jobs : k = run[w].job
  BY <1>1
<1>3. PICK u \in Videos : u = jvid[k]
  BY <1>1, <1>2
<1>4. CASE RunUnpublish(w) \/ RunPublish(w)
  <2>1. k \notin published
    BY <1>2, <1>4 DEF RunUnpublish, RunPublish, LifeInv, AssetInv, RunsAreFresh, EarlySteps
  <2>2. asset[u] # k
    BY <2>1, BoundsAssumption DEF LifeInv, AssetInv, AssetsArePublished, Jobs
  <2>3. hls' = [hls EXCEPT ![u] = @ \ {k}] \/ hls' = [hls EXCEPT ![u] = @ \cup {k}]
    BY <1>2, <1>3, <1>4 DEF RunUnpublish, RunPublish
  <2>4. UNCHANGED asset
    BY <1>4 DEF RunUnpublish, RunPublish, db
  <2>5. QED
    BY <2>2, <2>3, <2>4, WatchableSame DEF LifeInv, TypeInv, TypeOK
<1>5. CASE RunDropPrevious(w)
  <2>1. asset[u] # 0 => asset[u] # run[w].prev
    BY <1>2, <1>3, <1>5 DEF RunDropPrevious, LifeInv, AssetInv, RunsAreFresh
  <2>2. hls' = hls \/ hls' = [hls EXCEPT ![u] = @ \ {run[w].prev}]
    BY <1>2, <1>3, <1>5 DEF RunDropPrevious
  <2>3. UNCHANGED asset
    BY <1>5 DEF RunDropPrevious, db
  <2>4. QED
    BY <2>1, <2>2, <2>3, WatchableSame DEF LifeInv, TypeInv, TypeOK
<1>6. QED
  BY <1>4, <1>5

\* Every step leaves what the owner sees as it is, or is a step of VideoLifecycle.
LEMMA LifecycleStep ==
    ASSUME NoLateFaults, MaxSweeps = 0, LifeInv, [Next]_vars
    PROVE  UploadsShown' /\ [Lifecycle!Next]_(Lifecycle!vars)
<1>b. ASSUME NEW v \in Videos, UploadBegins(v), UNCHANGED Watchable PROVE Lifecycle!Next
  BY <1>b DEF UploadBegins, Lifecycle!Next, Lifecycle!Begin
<1>1. ASSUME NEW v \in Videos, NEW j \in Jobs, CreateVideoUpload(v, j)
      PROVE  UploadsShown' /\ [Lifecycle!Next]_(Lifecycle!vars)
  <2>1. UNCHANGED Watchable
    BY <1>1 DEF CreateVideoUpload, Watchable
  <2>2. QED
    BY <1>1, <1>b, <2>1, CreateShown
<1>2. ASSUME NEW r \in Requests, CompleteAccept(r)
      PROVE  UploadsShown' /\ [Lifecycle!Next]_(Lifecycle!vars)
  <2>1. UNCHANGED Watchable
    BY <1>2 DEF CompleteAccept, Watchable
  <2>2. UploadsShown' /\ \E v \in Videos : UploadSubmitted(v)
    BY <1>2, AcceptShown
  <2>3. QED
    BY <2>1, <2>2 DEF UploadSubmitted, Lifecycle!Next, Lifecycle!Submit
<1>3. ASSUME NEW r \in Requests, NEW j \in Jobs, RestartCommit(r, j)
      PROVE  UploadsShown' /\ [Lifecycle!Next]_(Lifecycle!vars)
  <2>1. UNCHANGED Watchable
    BY <1>3 DEF RestartCommit, Watchable
  <2>2. QED
    BY <1>3, <1>b, <2>1, RestartShown
<1>4. ASSUME NEW w \in Workers, RunMark(w) \/ ErrorRequeued(w)
      PROVE  UploadsShown' /\ [Lifecycle!Next]_(Lifecycle!vars)
  <2>1. UNCHANGED Watchable
    BY <1>4 DEF RunMark, ErrorRequeued, Watchable
  <2>2. QED
    BY <1>4, <2>1, RunShown DEF Lifecycle!vars
<1>5. ASSUME NEW w \in Workers, RunCommit(w)
      PROVE  UploadsShown' /\ [Lifecycle!Next]_(Lifecycle!vars)
  <2>1. /\ run[w].pc = "commit" /\ run[w].job \in Jobs /\ jvid[run[w].job] \in Videos
        /\ run[w].job \in hls[jvid[run[w].job]]
    BY <1>5, RunHas DEF LifeInv, RunCommit, AssetInv, RunsAreFresh
  <2>2. PICK k \in Jobs : k = run[w].job
    BY <2>1
  <2>3. PICK u \in Videos : u = jvid[k]
    BY <2>1, <2>2
  <2>4. UploadsShown' /\ vstat[u] = "PROCESSING"
    BY <1>5, <2>2, <2>3, RunShown
  <2>5. /\ vstat' = [vstat EXCEPT ![u] = "READY"] /\ asset' = [asset EXCEPT ![u] = k]
        /\ UNCHANGED hls
    BY <1>5, <2>2, <2>3 DEF RunCommit
  <2>6. Watchable' = Watchable \cup {u}
    BY <2>1, <2>2, <2>3, <2>5, BoundsAssumption DEF Watchable, Jobs, LifeInv, TypeInv, TypeOK
  <2>7. QED
    BY <2>4, <2>5, <2>6 DEF Lifecycle!Next, Lifecycle!Publish
<1>6. ASSUME NEW w \in Workers, ErrorFailed(w)
      PROVE  UploadsShown' /\ [Lifecycle!Next]_(Lifecycle!vars)
  <2>1. UNCHANGED Watchable
    BY <1>6 DEF ErrorFailed, Watchable
  <2>2. jvid[run[w].job] \in Videos
    BY <1>6, RunHas DEF LifeInv, ErrorFailed
  <2>3. PICK u \in Videos : u = jvid[run[w].job]
    BY <2>2
  <2>4. UploadsShown' /\ UploadFails(u)
    BY <1>6, <2>3, RunShown DEF ErrorFailed, UploadFails
  <2>5. QED
    BY <2>1, <2>4 DEF UploadFails, Lifecycle!Next, Lifecycle!Fail
<1>7. ASSUME NEW w \in Workers, RunUnpublish(w) \/ RunPublish(w) \/ RunDropPrevious(w)
      PROVE  UploadsShown' /\ UNCHANGED Lifecycle!vars
  <2>1. UNCHANGED <<vstat, jstat, jvid>>
    BY <1>7 DEF RunUnpublish, RunPublish, RunDropPrevious, db
  <2>2. QED
    BY <1>7, <2>1, PublishSame DEF LifeInv, UploadsShown, IsLatestJob, JobsOf, Lifecycle!vars
<1>8. ASSUME UNCHANGED <<vstat, jstat, jvid, asset, hls>>
      PROVE  UploadsShown' /\ UNCHANGED Lifecycle!vars
  BY <1>8, LifeSame
<1>9. CASE UNCHANGED vars
  BY <1>8, <1>9 DEF vars, db, disk
<1>10. (\A j \in Jobs : ~Age(j)) /\ ~SweepBegin /\ ~SweepStep
  <2>1. sweeps = 0 /\ sweep.pc = "idle"
    BY DEF LifeInv, MatchInv, TypeInv, TypeOK, Quiet
  <2>2. QED
    BY <2>1 DEF Age, SweepBegin, SweepStep, SweepCancel, SweepRequeue, SweepPurge, SweepFindStuck, SweepEnd
<1>11. QED
  BY <1>1, <1>2, <1>3, <1>4, <1>5, <1>6, <1>7, <1>8, <1>9, <1>10, NoneRevived
     DEF Next, RequestStep, RunStep, db, disk, CompleteUpload, ReceiveChunk, RestartUpload, ChunkStored,
         ChunkFailed, CompleteCheck, CompleteRefused, CompleteEnqueue, RestartFailed, RestartPurge,
         Start, RunSkip, RunRead, RunAssemble, RunEncode, RunNotAVideo, RunPrevious, RunClean,
         RunAnnounce, RunFault, ErrorAborted, ErrorBackoff, ErrorUnrecorded, ErrorCleaned, Retry,
         Crash, Shutdown, Exit, Boot

\* On the conditions of RowsMatch the owner sees an upload sent, submitted and published or failed, in this
\* order, and a stream that never goes once it is there, whatever crashes, retries and restarts it takes:
\* all of VideoLifecycle except that it ends.
THEOREM LifecycleRefines ==
    ASSUME MaxSweeps = 0, NoLateFaults
    PROVE  Spec /\ []OneDecisionPerVideo => Lifecycle!Init /\ [][Lifecycle!Next]_(Lifecycle!vars)
<1>1. Init => Lifecycle!Init
  BY DEF Init, Lifecycle!Init, Watchable
<1>2. OneDecisionPerVideo /\ LifeInv /\ [Next]_vars => LifeInv'
  <2> SUFFICES ASSUME OneDecisionPerVideo, LifeInv, [Next]_vars PROVE LifeInv'
    OBVIOUS
  <2>1. TypeInv' /\ QueueInv'
    BY TypeInvStep, QueueInvStep DEF LifeInv
  <2>2. MatchInv'
    BY RowsStep, HeldStep, ReadStep, QuietStep DEF LifeInv, MatchInv
  <2>3. AssetInv'
    BY SparePublished, AssetInvStep DEF LifeInv
  <2>4. UploadsShown'
    BY LifecycleStep
  <2>5. QED
    BY <2>1, <2>2, <2>3, <2>4 DEF LifeInv
<1>3. LifeInv /\ [Next]_vars => [Lifecycle!Next]_(Lifecycle!vars)
  BY LifecycleStep
<1>4. QED
  BY <1>1, <1>2, <1>3, LifeInit, PTL DEF Spec

\* A READY video is never taken from the students again, on the same conditions; with a fault after the
\* publishing transaction, or after the one that made an earlier upload FAILED, it is (ErrorRequeued,
\* ErrorUncleaned).
THEOREM ReadyIsFinal ==
    ASSUME MaxSweeps = 0, NoLateFaults
    PROVE  Spec /\ []OneDecisionPerVideo => ReadyStaysReady
<1>1. Spec => []TypeInv
  BY TypeInvInit, TypeInvStep, PTL DEF Spec
<1>2. TypeInv /\ [Lifecycle!Next]_(Lifecycle!vars) => [\A v \in Videos : vstat[v] = "READY" => vstat'[v] = "READY"]_vstat
  BY DEF Lifecycle!Next, Lifecycle!vars, Lifecycle!Begin, Lifecycle!Submit, Lifecycle!Abandon,
         Lifecycle!Publish, Lifecycle!Fail, TypeInv, TypeOK
<1>3. QED
  BY <1>1, <1>2, LifecycleRefines, PTL DEF ReadyStaysReady

============================================================================
