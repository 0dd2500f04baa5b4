SPECIFICATION Spec
CONSTANTS
    Uploads = {f1}
    PhotoRequests = {p1, p2}
    FirstPhoto = FirstPhoto
    NoKey = NoKey
    MaxCrashes = 1
CHECK_DEADLOCK FALSE
INVARIANTS
    TypeOK
    RowsHaveBytes
    NothingLeftBehind
PROPERTIES
    TempsGo
