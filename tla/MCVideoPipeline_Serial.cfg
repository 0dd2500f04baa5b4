\* One request at a time, no sweep, a crash or a shutdown.
CONSTANTS
    Videos = {v1}
    NoVideo = NoVideo
    MaxJobs = 3
    TotalChunks = 2
    Requests = {r1}
    Workers = {w1}
    MaxAttempts = 2
    FaultPoints = {"read", "mark", "assemble", "encode", "unpublish", "publish", "previous", "commit", "error", "permanent", "failed"}
    MaxStops = 1
    MaxSweeps = 0
SPECIFICATION Spec
INVARIANTS
    JobsMatchVideos
\* Every upload may be settled and nobody need start another.
CHECK_DEADLOCK FALSE
