\* A sweep, a crash and two slots; the jobs must end all the same.
CONSTANTS
    Videos = {v1}
    NoVideo = NoVideo
    MaxJobs = 2
    TotalChunks = 1
    Requests = {r1}
    Workers = {w1, w2}
    MaxAttempts = 2
    FaultPoints = {"mark", "assemble", "encode", "unpublish", "publish", "previous", "commit"}
    MaxStops = 1
    MaxSweeps = 1
SPECIFICATION FairSpec
INVARIANTS
    TypeOK
    AssetOnDisk
    PublishedIsFinal
PROPERTIES
    JobsSettle
    ImplementsJobQueue
\* Every upload may be settled and nobody need start another.
CHECK_DEADLOCK FALSE
