SPECIFICATION Spec
CONSTANTS
    math = math
    mathT = mathT
    video = video
    topic = topic
    ali = ali
    Students = {ali}
    Student = ali
    Subjects = {math}
    Teachers = {mathT}
    SubjectOf <- MCSubjectOf
    Items = {video}
    Videos = {video}
    Scope <- MCScope
    Nodes = {topic}
    Above <- MCAbove
    Requests = {r1, r2}
    Admin = Admin
    Readers <- MCReaders
    NoStudent = NoStudent
    NoItem = NoItem
    SettingsTTL = 1
    MaxLicences = 2
    MaxAge = 1
CONSTRAINTS OneChanges Changes
SYMMETRY Symmetry
CHECK_DEADLOCK FALSE
INVARIANTS
    TypeOK
    OneLicence
    IssuedIsAllowed
    SyncTakesClosed
