SPECIFICATION AccountsSpec
CONSTANTS
    tenth = tenth
    eleventh = eleventh
    twelfth = twelfth
    math = math
    physics = physics
    sami = sami
    rana = rana
    algebra = algebra
    analysis = analysis
    first = first
    second = second
    intro = intro
    proof = proof
    plan = plan
    notes = notes
    huda = huda
    omar = omar
    ali = ali
    a = a
    b = b
    Grades = {tenth, eleventh, twelfth}
    Subjects = {math, physics}
    Teachers = {sami, rana}
    Topics = {algebra, analysis}
    Sessions = {first, second}
    Videos = {intro, proof}
    Files = {plan, notes}
    Owners = {huda, omar}
    Students = {ali}
    Names = {a, b}
    Requests = {r1, r2}
    Seeded <- MCSeeded
    SeedParent <- MCSeedParent
    SeedName <- MCSeedName
    MaxRequests = 3
    MaxPosition = 3
    AllGrades = AllGrades
    AllTeachers = AllTeachers
    NoGrade = NoGrade
    Nothing = Nothing
SYMMETRY Symmetry
CHECK_DEADLOCK FALSE
INVARIANTS
    TypeOK
PROPERTIES
    NamesStayUnique
    NewComesLast
    ParentsOpen
    OwnerStaysAlone
