------------------------------- MODULE Catalog -------------------------------
(***************************************************************************)
(* The catalogue: grades, their subjects, teachers, the spaces of teachers *)
(* in subjects, topics, sessions, videos and the files of all these, kept  *)
(* by several owners at once.  A request checks first, outside its         *)
(* transaction, and writes later; the transaction reads (the last          *)
(* position, the siblings, the parent) and then writes, without locks on   *)
(* what it has read.  Nothing is deleted.  Requests that are refused       *)
(* change nothing and are left out.                                        *)
(***************************************************************************)
EXTENDS Integers, FiniteSets, FiniteSetsExt

CONSTANTS
    Grades, Subjects, Teachers, Topics, Sessions, Videos, Files,    \* ids of rows
    Owners, Students,   \* ids of accounts, see Accounts
    Names,          \* titles and names, also those of topics, sessions and videos; phones of accounts
    Requests,       \* handlers under way
    Seeded, SeedParent, SeedName,   \* the rows there are at the start
    MaxRequests,    \* requests that are made (bound)
    MaxPosition,    \* positions that are given (bound)
    AllGrades, AllTeachers, \* stand for the parent of grades and of teachers
    NoGrade,        \* stands for the grade of an account that has none
    Nothing         \* no row, no name; in an update, a field that is kept

\* subject_teachers, by its unique key.
Spaces == Subjects \X Teachers
Accounts == Owners \cup Students
Items == Grades \cup Subjects \cup Teachers \cup Spaces \cup Topics \cup Sessions \cup Videos \cup Files
         \cup Accounts
Parents == Items \cup {AllGrades, AllTeachers, NoGrade}

\* Ids tell rows of different tables apart; owners have no grade.
ASSUME CatalogAssumption ==
    /\ IsFiniteSet(Items) /\ Items \cap {AllGrades, AllTeachers, NoGrade} = {}
    /\ LET kinds == <<Grades, Subjects, Teachers, Spaces, Topics, Sessions, Videos, Files, Owners, Students>>
       IN  \A k, l \in 1 .. 10 : k # l => kinds[k] \cap kinds[l] = {}
    /\ Seeded \subseteq Items
    /\ SeedParent \in [Seeded -> Parents] /\ SeedName \in [Seeded -> Names \cup {Nothing}]
    /\ \A o \in Seeded \cap Owners : SeedParent[o] = NoGrade
    /\ MaxRequests \in Nat /\ MaxPosition \in Nat \ {0} /\ Nothing \notin Names \cup Parents

VARIABLES
    exists,     \* rows that have been written
    open,       \* those whose archived_at is null
    parent,     \* foreign keys
    name,
    position,   \* sort_order; teachers and accounts have none
    req,        \* of each request: where it is and what it will write
    left,       \* requests that may still be made
    calm        \* history: requests during which no other request has written

rows == <<exists, open, parent, name, position>>
vars == <<exists, open, parent, name, position, req, left, calm>>

Idle == [pc |-> "idle", items |-> {}, under |-> Nothing, name |-> Nothing, place |-> <<>>, fresh |-> {}]

Init ==
    /\ exists = Seeded /\ open = Seeded
    /\ parent = [i \in Items |-> IF i \in Seeded THEN SeedParent[i] ELSE Nothing]
    /\ name = [i \in Items |-> IF i \in Seeded THEN SeedName[i] ELSE Nothing]
    /\ position = [i \in Items |-> IF i \in Seeded \ (Teachers \cup Accounts) THEN 1 ELSE 0]
    /\ req = [r \in Requests |-> Idle]
    /\ left = MaxRequests
    /\ calm = {}

TypeOK ==
    /\ open \subseteq exists /\ exists \subseteq Items
    /\ parent \in [Items -> Parents \cup {Nothing}] /\ name \in [Items -> Names \cup {Nothing}]
    /\ position \in [Items -> 0 .. MaxPosition]
    /\ \A i \in Items : parent[i] = Nothing <=> i \notin exists
    /\ \A r \in Requests :
        /\ req[r].pc \in {"idle", "creating", "inserting", "patching", "restoring", "ordering"}
        /\ req[r].items \subseteq Items /\ req[r].fresh \subseteq req[r].items
        /\ req[r].pc \in {"patching", "restoring", "ordering"} => req[r].items \subseteq exists
    /\ left \in 0 .. MaxRequests /\ calm \subseteq Requests

(***************************************************************************)
(* What requests read                                                      *)
(***************************************************************************)

\* The rows that must be active for a row under p: the parent only, not what is above it.
Above(i, p) ==
    CASE i \in Grades \cup Teachers -> {}
      [] i \in Spaces -> {i[1], i[2]}
      [] OTHER -> {p} \ {NoGrade}

Children(p) == {i \in exists \ (Files \cup Accounts) : parent[i] = p}

FilesOf(p) == {i \in exists \cap Files : parent[i] = p}

\* Mutant: positions are counted among the active siblings.
LastActivePosition(siblings) == Max({0} \cup {position[i] : i \in siblings \cap open})

LastPosition(siblings) == Max({0} \cup {position[i] : i \in siblings})

\* Where i is put among the rows of its kind under p.
NextPosition(i, p) == LastPosition(IF i \in Files THEN FilesOf(p) ELSE Children(p)) + 1

UniqueGradeName(n, except) == \A g \in (Grades \cap open) \ {except} : name[g] # n

UniqueSubjectName(g, n, except) ==
    \A s \in (Subjects \cap open) \ {except} : parent[s] = g => name[s] # n

\* A unique key refuses what request r writes: that of the spaces, or that of phones.
KeyTaken(r) ==
    \/ req[r].fresh \cap exists # {}
    \/ \E i \in req[r].items \cap Accounts, j \in exists \cap Accounts : i # j /\ name[j] = req[r].name

Unused(i) == i \notin exists /\ \A q \in Requests : i \notin req[q].items

(***************************************************************************)
(* The steps of a request                                                  *)
(***************************************************************************)

Begin(r, pc, items, under, n, place) ==
    /\ req[r].pc = "idle" /\ left > 0
    /\ left' = left - 1
    /\ req' = [req EXCEPT ![r] = [pc |-> pc, items |-> items, under |-> under, name |-> n,
                                  place |-> place, fresh |-> items \ exists]]
    /\ calm' = calm \cup {r}
    /\ UNCHANGED rows

Leave(r) == req' = [req EXCEPT ![r] = Idle]

\* The request has written, and no other request is alone any more.
Written(r) == Leave(r) /\ calm' = {} /\ UNCHANGED left

\* The transaction of a creation or of an assignment reads the last position, and whether the row
\* of the space is there; an assignment that is already active is its answer.
Place(r) ==
    /\ req[r].pc = "creating"
    /\ IF req[r].items \cap Spaces \cap open # {} THEN Leave(r)
       ELSE /\ \A i \in req[r].items : NextPosition(i, req[r].under) <= MaxPosition
            /\ req' = [req EXCEPT ![r].pc = "inserting",
                                  ![r].place = [i \in req[r].items |-> NextPosition(i, req[r].under)],
                                  ![r].fresh = req[r].items \ exists]
    /\ UNCHANGED <<rows, left, calm>>

\* The rows are created or, for an archived space, updated.
Insert(r) ==
    /\ req[r].pc = "inserting" /\ ~KeyTaken(r)
    /\ exists' = exists \cup req[r].items
    /\ open' = open \cup req[r].items
    /\ parent' = [i \in Items |-> IF i \notin req[r].items THEN parent[i]
                                  ELSE IF i \in Spaces THEN i[1]
                                  ELSE IF i \in Teachers THEN AllTeachers ELSE req[r].under]
    /\ name' = [i \in Items |-> IF i \in req[r].items \ Spaces THEN req[r].name ELSE name[i]]
    /\ position' = [i \in Items |-> IF i \in req[r].items THEN req[r].place[i] ELSE position[i]]
    /\ Written(r)

\* The key was taken before the write; for phones nothing else is checked.
WriteFails(r) ==
    /\ req[r].pc \in {"inserting", "patching"} /\ KeyTaken(r)
    /\ Leave(r)
    /\ UNCHANGED <<rows, left, calm>>

\* Only the fields of the request are written.
Patch(r) ==
    /\ req[r].pc = "patching" /\ ~KeyTaken(r)
    /\ parent' = [i \in Items |-> IF i \in req[r].items /\ req[r].under # Nothing
                                  THEN req[r].under ELSE parent[i]]
    /\ name' = [i \in Items |-> IF i \in req[r].items /\ req[r].name # Nothing
                                THEN req[r].name ELSE name[i]]
    /\ Written(r)
    /\ UNCHANGED <<exists, open, position>>

Restored(r) ==
    /\ req[r].pc = "restoring"
    /\ open' = open \cup req[r].items
    /\ Written(r)
    /\ UNCHANGED <<exists, parent, name, position>>

SetOrder(r) ==
    /\ req[r].pc = "ordering"
    /\ position' = [i \in Items |-> IF i \in req[r].items THEN req[r].place[i] ELSE position[i]]
    /\ Written(r)
    /\ UNCHANGED <<exists, open, parent, name>>

\* archiveEntity: what the transaction reads decides only whether there is anything to write.
Archive(i) ==
    /\ left > 0 /\ left' = left - 1
    /\ i \in open /\ open' = open \ {i}
    /\ calm' = {}
    /\ UNCHANGED <<exists, parent, name, position, req>>

\* Mutant: the row is not loaded first.
RestoreUnread(r, i, above) ==
    /\ i \notin open /\ above \subseteq open
    /\ Begin(r, "restoring", {i}, Nothing, Nothing, <<>>)

\* restoreEntity, up to its write.
Restore(r, i, above) ==
    /\ i \in exists \ open /\ above \subseteq open
    /\ Begin(r, "restoring", {i}, Nothing, Nothing, <<>>)

\* reorderEntities, up to its writes: any of the active siblings, in any order.
Reorder(r, p, siblings) ==
    \E items \in SUBSET (siblings \cap open) \ {{}} :
        \E order \in [items -> 1 .. Cardinality(items)] :
            /\ \A i, j \in items : i # j => order[i] # order[j]
            /\ Cardinality(items) <= MaxPosition
            /\ Begin(r, "ordering", items, p, Nothing, order)

Create(r, i, p, n) ==
    /\ Unused(i)
    /\ Above(i, p) \subseteq open
    /\ Begin(r, "creating", {i}, p, n, <<>>)

Retitle(r, i, n) == i \in exists /\ Begin(r, "patching", {i}, Nothing, n, <<>>)

(***************************************************************************)
(* Grades                                                                  *)
(***************************************************************************)

CreateGrade(r, g, n) == UniqueGradeName(n, Nothing) /\ Create(r, g, AllGrades, n)

UpdateGrade(r, g, n) == (n # name[g] => UniqueGradeName(n, g)) /\ Retitle(r, g, n)

ArchiveGrade(g) == Archive(g)

\* The name is checked before the transaction and only if the grade is archived by then.
RestoreGrade(r, g) ==
    /\ g \in exists
    /\ g \notin open => UniqueGradeName(name[g], g)
    /\ Begin(r, "restoring", {g}, Nothing, Nothing, <<>>)

ReorderGrades(r) == Reorder(r, AllGrades, Children(AllGrades))

(***************************************************************************)
(* Subjects                                                                *)
(***************************************************************************)

CreateSubject(r, s, g, n) == UniqueSubjectName(g, n, Nothing) /\ Create(r, s, g, n)

\* Mutant: the name is checked only when it changes.
UpdateSubjectMoving(r, s, g, n) ==
    /\ s \in exists
    /\ g \notin {Nothing, parent[s]} => g \in open
    /\ n \notin {Nothing, name[s]} => UniqueSubjectName(IF g = Nothing THEN parent[s] ELSE g, n, s)
    /\ Begin(r, "patching", {s}, g, n, <<>>)

UpdateSubject(r, s, g, n) ==
    LET grade == IF g = Nothing THEN parent[s] ELSE g
        title == IF n = Nothing THEN name[s] ELSE n
    IN  /\ s \in exists
        /\ grade # parent[s] => grade \in open
        /\ grade # parent[s] \/ title # name[s] => UniqueSubjectName(grade, title, s)
        /\ Begin(r, "patching", {s}, g, n, <<>>)

ArchiveSubject(s) == Archive(s)

\* Unlike for a grade, the name is not checked.
RestoreSubject(r, s) == Restore(r, s, {parent[s]})

ReorderSubjects(r, g) == Reorder(r, g, Children(g))

(***************************************************************************)
(* Teachers and their spaces                                               *)
(***************************************************************************)

\* One transaction: it reads the subjects and, of each, the last position.
CreateTeacher(r, t, n, in) ==
    /\ Unused(t) /\ in \subseteq open
    /\ \A s \in in : NextPosition(<<s, t>>, s) <= MaxPosition
    /\ Begin(r, "inserting", {t} \cup in \X {t}, Nothing, n,
             [i \in {t} \cup in \X {t} |-> IF i = t THEN 0 ELSE NextPosition(i, i[1])])

UpdateTeacher(r, t, n) == Retitle(r, t, n)
ArchiveTeacher(t) == Archive(t)
RestoreTeacher(r, t) == Restore(r, t, {})

AssignTeacher(r, s, t) ==
    /\ {s, t} \subseteq open
    /\ Begin(r, "creating", {<<s, t>>}, s, Nothing, <<>>)

UnassignTeacher(a) == Archive(a)
RestoreAssignment(r, a) == Restore(r, a, {a[1], a[2]})
ReorderSubjectTeachers(r, s) == Reorder(r, s, Children(s))

(***************************************************************************)
(* Topics, sessions, videos and files                                      *)
(***************************************************************************)

CreateTopic(r, i, a, n) == Create(r, i, a, n)
UpdateTopic(r, i, n) == Retitle(r, i, n)
ArchiveTopic(i) == Archive(i)
RestoreTopic(r, i) == Restore(r, i, {parent[i]})
ReorderTopics(r, a) == Reorder(r, a, Children(a))

\* Mutant: the topic may be archived.
CreateSessionAnywhere(r, i, p, n) ==
    /\ Unused(i) /\ p \in exists
    /\ Begin(r, "creating", {i}, p, n, <<>>)

CreateSession(r, i, p, n) == Create(r, i, p, n)
UpdateSession(r, i, n) == Retitle(r, i, n)
ArchiveSession(i) == Archive(i)
RestoreSession(r, i) == Restore(r, i, {parent[i]})
ReorderSessions(r, p) == Reorder(r, p, Children(p))

CreateVideoUpload(r, i, p, n) == Create(r, i, p, n)
UpdateVideo(r, i, n) == Retitle(r, i, n)
ArchiveVideo(i) == Archive(i)
RestoreVideo(r, i) == Restore(r, i, {parent[i]})
ReorderVideos(r, p) == Reorder(r, p, Children(p))

\* The files of a subject, a space, a topic or a session; their bytes are in StoredFiles.
Scopes == Subjects \cup Spaces \cup Topics \cup Sessions

UploadFile(r, i, p, n) == Create(r, i, p, n)
UpdateFile(r, i, n) == Retitle(r, i, n)
ArchiveFile(i) == Archive(i)
RestoreFile(r, i) == Restore(r, i, {parent[i]})
ReorderFiles(r, p) == Reorder(r, p, FilesOf(p))

GradesStep(r) ==
    \/ \E g \in Grades, n \in Names : CreateGrade(r, g, n) \/ UpdateGrade(r, g, n)
    \/ \E g \in Grades : RestoreGrade(r, g)
    \/ ReorderGrades(r)

SubjectsStep(r) ==
    \/ \E s \in Subjects, g \in Grades, n \in Names : CreateSubject(r, s, g, n)
    \/ \E s \in Subjects, g \in Grades \cup {Nothing}, n \in Names \cup {Nothing} : UpdateSubject(r, s, g, n)
    \/ \E s \in Subjects : RestoreSubject(r, s) \/ ReorderSubjectTeachers(r, s)
    \/ \E g \in Grades : ReorderSubjects(r, g)

TeachersStep(r) ==
    \/ \E t \in Teachers, n \in Names :
        UpdateTeacher(r, t, n) \/ \E in \in SUBSET Subjects : CreateTeacher(r, t, n, in)
    \/ \E t \in Teachers : RestoreTeacher(r, t) \/ \E s \in Subjects : AssignTeacher(r, s, t)
    \/ \E a \in Spaces : RestoreAssignment(r, a) \/ ReorderTopics(r, a)

ContentStep(r) ==
    \/ \E i \in Topics, n \in Names : UpdateTopic(r, i, n) \/ \E a \in Spaces : CreateTopic(r, i, a, n)
    \/ \E i \in Topics : RestoreTopic(r, i) \/ ReorderSessions(r, i)
    \/ \E i \in Sessions, n \in Names : UpdateSession(r, i, n) \/ \E p \in Topics : CreateSession(r, i, p, n)
    \/ \E i \in Sessions : RestoreSession(r, i) \/ ReorderVideos(r, i)
    \/ \E i \in Videos, n \in Names : UpdateVideo(r, i, n) \/ \E p \in Sessions : CreateVideoUpload(r, i, p, n)
    \/ \E i \in Videos : RestoreVideo(r, i)

FilesStep(r) ==
    \/ \E i \in Files : \/ \E n \in Names : UpdateFile(r, i, n) \/ \E p \in Scopes : UploadFile(r, i, p, n)
                        \/ RestoreFile(r, i)
    \/ \E p \in Scopes : ReorderFiles(r, p)

Next ==
    \/ \E r \in Requests :
        \/ GradesStep(r) \/ SubjectsStep(r) \/ TeachersStep(r) \/ ContentStep(r) \/ FilesStep(r)
        \/ Place(r) \/ Insert(r) \/ WriteFails(r) \/ Patch(r) \/ Restored(r) \/ SetOrder(r)
    \/ \E i \in Grades : ArchiveGrade(i)
    \/ \E i \in Subjects : ArchiveSubject(i)
    \/ \E i \in Teachers : ArchiveTeacher(i)
    \/ \E i \in Spaces : UnassignTeacher(i)
    \/ \E i \in Topics : ArchiveTopic(i)
    \/ \E i \in Sessions : ArchiveSession(i)
    \/ \E i \in Videos : ArchiveVideo(i)
    \/ \E i \in Files : ArchiveFile(i)

Spec == Init /\ [][Next]_vars

(***************************************************************************)
(* Properties                                                              *)
(***************************************************************************)

\* r ends by writing, and no other request has written since r's first read.
WritesAlone(r) == r \in calm /\ req[r].pc # "idle" /\ rows' # rows /\ req'[r].pc = "idle"

\* Active grades of one name, and active subjects of one name in one grade.
Clashes ==
    {p \in (Grades \cap open) \X (Grades \cap open) : p[1] # p[2] /\ name[p[1]] = name[p[2]]}
    \cup {p \in (Subjects \cap open) \X (Subjects \cap open) :
              p[1] # p[2] /\ parent[p[1]] = parent[p[2]] /\ name[p[1]] = name[p[2]]}

\* Creations, renamings and moves, and the restoring of grades, keep active names apart, as long
\* as nobody else writes between their check and their write; the restoring of subjects does not.
NamesStayUnique ==
    [][\A r \in Requests :
        WritesAlone(r) /\ ~(req[r].pc = "restoring" /\ req[r].items \subseteq Subjects)
            => Clashes' \subseteq Clashes]_vars

\* What is created, and a teacher who is assigned again, comes after all siblings, the archived
\* ones included, so that restoring one never makes it share the place of a newer one.
NewComesLast ==
    [][\A r \in Requests : WritesAlone(r) /\ req[r].pc = "inserting"
        => \A i \in req[r].items \ (Teachers \cup Accounts), j \in exists \ Accounts :
               j # i /\ parent'[j] = parent'[i] /\ (j \in Files <=> i \in Files)
                   => position[j] < position'[i]]_vars

\* Nothing becomes active below, and no active subject or student moves to, an archived parent,
\* unless another request has written since the check; only that of a student who is restored
\* may be archived.
ParentsOpen ==
    [][\A r \in Requests : WritesAlone(r)
        => \A i \in open' :
               i \notin open \/ parent'[i] # parent[i]
                   => Above(i, parent'[i]) \subseteq open' \/ (i \in Students /\ req[r].pc = "restoring")]_vars

\* docs/database.md: "unique active name per grade (service rule)".
NamesUnique == Clashes = {}

=============================================================================
