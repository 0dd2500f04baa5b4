\* The database fails once after the video is READY.
CONSTANTS
    Videos = {v1}
    NoVideo = NoVideo
    MaxJobs = 1
    TotalChunks = 1
    Requests = {r1}
    Workers = {w1}
    MaxAttempts = 2
    FaultPoints = {"announce"}
    MaxStops = 0
    MaxSweeps = 0
SPECIFICATION Spec
PROPERTIES
    ReadyStaysReady
CHECK_DEADLOCK FALSE
