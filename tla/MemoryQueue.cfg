SPECIFICATION FairSpec
CONSTANTS
    Ids = {a, b, c}
    NoId = NoId
    Slots = {s1, s2}
    MaxAttempts = 3
    Callers = {x}
    MaxAdds = 5
CHECK_DEADLOCK FALSE
INVARIANTS
    NoIdleSlot
PROPERTIES
    IdleMeansIdle
    ImplementsJobQueue
    WaitersAnswered
