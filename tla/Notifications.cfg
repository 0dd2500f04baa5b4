SPECIFICATION Spec
CONSTANTS
    Notes = {n1}
    Students = {s1, s2, s3}
    Batch = 2
    MaxAttempts = 3
    MaxChanges = 2
    MaxStops = 2
CHECK_DEADLOCK FALSE
INVARIANTS
    TypeOK
    DeliveredToAudience
PROPERTIES
    ReadStaysRead
    FanoutSettles
