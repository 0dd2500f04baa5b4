SPECIFICATION Spec
CONSTANTS
    ali = ali
    math = math
    mathT = mathT
    video = video
    file = file
    topic = topic
    grade = grade
    phone = phone
    Students = {ali}
    Subjects = {math}
    Teachers = {mathT}
    SubjectOf <- MCSubjectOf
    Items = {video, file}
    Videos = {video}
    Scope <- MCScope
    Nodes = {topic}
    Above <- MCAbove
    Requests = {r1, r2}
    NoStudent = NoStudent
    NoItem = NoItem
    Sessions = {phone}
    StudentOf <- MCStudentOf
    NoSession = NoSession
    TTL = 2
    MaxEntries = 1
    MaxAge = 1
CONSTRAINTS Overlaps Watches Changes
SYMMETRY Symmetry
CHECK_DEADLOCK FALSE
INVARIANTS
    TypeOK
    FreshIsCurrent
    NobodyShutOut
    CutOffInTime
