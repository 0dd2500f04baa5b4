\* One request at a time, no sweep: what the owner is promised.
CONSTANTS
    Videos = {v1}
    NoVideo = NoVideo
    MaxJobs = 3
    TotalChunks = 1
    Requests = {r1}
    Workers = {w1}
    MaxAttempts = 2
    FaultPoints = {"read", "mark", "assemble", "encode", "unpublish", "publish", "previous", "commit"}
    MaxStops = 2
    MaxSweeps = 0
SPECIFICATION FairSpec
PROPERTIES
    ImplementsLifecycle
\* Every upload may be settled and nobody need start another.
CHECK_DEADLOCK FALSE
