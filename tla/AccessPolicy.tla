---------------------------- MODULE AccessPolicy ----------------------------
(***************************************************************************)
(* Grants of access, and the policy that decides from them whether a       *)
(* student may open an item.  A grant is for a subject, or for a teacher   *)
(* within a subject (a subject-teacher).  The policy reads the item with   *)
(* what is above it, then the grants, each in a query of its own, while    *)
(* owners go on changing them and the pipeline the state of videos.        *)
(* The module has no specification of its own: MediaGuard and              *)
(* OfflineLicenses extend it.                                              *)
(***************************************************************************)
EXTENDS Integers

CONSTANTS
    Students,
    Subjects,
    Teachers,       \* subject-teachers
    SubjectOf,      \* of each of Teachers
    Items,          \* videos and files
    Videos,         \* the items that are videos
    Scope,          \* of each item: the teacher it belongs to, or, for a file of a subject, the subject
    Nodes,          \* what can be archived: grades, subjects, teachers, topics, sessions, items
    Above,          \* of each item: the nodes that must be active, itself included
    Requests,       \* requests under way at a time (bound)
    NoStudent,
    NoItem

Places == Subjects \cup Teachers

ASSUME PolicyAssumption ==
    /\ SubjectOf \in [Teachers -> Subjects]
    /\ Scope \in [Items -> Places]
    /\ Above \in [Items -> SUBSET Nodes]
    /\ Videos \subseteq Items
    /\ Subjects \cap Teachers = {} /\ {"chain", "ready"} \cap Places = {}
    /\ NoStudent \notin Students /\ NoItem \notin Items

VARIABLES
    open,           \* grants that are open: student_subject_access, student_teacher_access
    archived,       \* nodes with archived_at
    ready,          \* videos that are READY (which gives them an asset)
    check           \* of each request: its evaluation of the policy

accessVars == <<open, archived, ready, check>>

(***************************************************************************)
(* The policy                                                              *)
(***************************************************************************)

\* The grants an item takes.
Needs(i) ==
    IF Scope[i] \in Subjects THEN {Scope[i]} ELSE {Scope[i], SubjectOf[Scope[i]]}

\* What has to be found: of a video also that it is READY, where the policy is about the video
\* itself (assertVideoAccess) and in a search, but not for the space around it.
Facts(how, i) ==
    {"chain"} \cup Needs(i) \cup IF i \in Videos /\ how \in {"policy", "search"} THEN {"ready"} ELSE {}

\* What of it holds at this moment.
Holding(s, i) ==
    {f \in {"chain", "ready"} \cup Needs(i) :
        CASE f = "chain" -> Above[i] \cap archived = {}
          [] f = "ready" -> i \in ready
          [] OTHER -> <<s, f>> \in open}

Checks ==
    [pc : {"off", "policy", "space", "page", "search"},
     student : Students \cup {NoStudent}, item : Items \cup {NoItem},
     asked : SUBSET ({"chain", "ready"} \cup Places), found : SUBSET ({"chain", "ready"} \cup Places)]

NoCheck == [pc |-> "off", student |-> NoStudent, item |-> NoItem, asked |-> {}, found |-> {}]

AccessTypeOK ==
    /\ open \subseteq Students \X Places
    /\ archived \subseteq Nodes /\ ready \subseteq Videos
    /\ check \in [Requests -> Checks]

AccessInit ==
    /\ open \in SUBSET (Students \X Places)
    /\ archived = {} /\ ready \in SUBSET Videos
    /\ check = [r \in Requests |-> NoCheck]

\* `check` once request r begins to read: by the policy for the item ("policy") or for the teacher,
\* topic or session it is in ("space"), for a "page" of items with their locks, or for a "search".
Started(r, how, s, i) ==
    [check EXCEPT ![r] = [pc |-> how, student |-> s, item |-> i, asked |-> {}, found |-> {}]]

Stopped(r) == [check EXCEPT ![r] = NoCheck]

ByPolicy(c) == c.pc \in {"policy", "space"}

\* The policy reads the chain first and stops there if it is not active, then the grants side by
\* side; a search reads the grants first; a page asks for everything at once.
MayAsk(c, f) ==
    CASE ByPolicy(c) -> (f = "chain") # ("chain" \in c.found)
      [] c.pc = "search" -> f = "chain" => Needs(c.item) \subseteq c.asked
      [] c.pc = "page" -> TRUE

\* What the query for f answers: the state of a video comes with its chain.
Answers(c, f) == IF f = "chain" THEN {"chain", "ready"} \cap Facts(c.pc, c.item) ELSE {f}

\* One query.
ReadFact(r, f) ==
    LET c == check[r] IN
    /\ c.pc # "off" /\ f \in Facts(c.pc, c.item) \ (c.asked \cup {"ready"})
    /\ MayAsk(c, f)
    /\ check' = [check EXCEPT ![r].asked = @ \cup Answers(c, f),
                              ![r].found = @ \cup (Answers(c, f) \cap Holding(c.student, c.item))]
    /\ UNCHANGED <<open, archived, ready>>

Passed(r) == check[r].pc # "off" /\ check[r].found = Facts(check[r].pc, check[r].item)

\* Once everything is asked, or the chain is not active.
Denied(r) ==
    LET c == check[r] IN
    /\ c.pc # "off" /\ c.found # Facts(c.pc, c.item)
    /\ c.asked = Facts(c.pc, c.item) \/ (ByPolicy(c) /\ "chain" \in c.asked \ c.found)

(***************************************************************************)
(* What owners do (the pipeline last).  Each is one transaction; what it checks before it (that *)
(* the student and the place are not archived) comes to the same as when   *)
(* they are archived after it.                                             *)
(***************************************************************************)

\* A grant to each of some students: setSubjectAccess, setTeacherAccess (one student) and
\* bulkSetAccess.  Opening a teacher opens the subject too.
Grants(ss, x) == ss \X (IF x \in Teachers THEN {x, SubjectOf[x]} ELSE {x})

SetAccess(ss, x, on) ==
    /\ open' = IF on THEN open \cup Grants(ss, x) ELSE open \ (ss \X {x})
    /\ open' # open
    /\ UNCHANGED <<archived, ready, check>>

\* archiveEntity and restoreEntity of the catalogue.
SetArchived(n) ==
    /\ archived' = IF n \in archived THEN archived \ {n} ELSE archived \cup {n}
    /\ UNCHANGED <<open, ready, check>>

\* The pipeline publishes a video; or it fails one, which may be READY when an attempt fails after
\* it has published (VideoPipeline).
SetReady(i) ==
    /\ ready' = IF i \in ready THEN ready \ {i} ELSE ready \cup {i}
    /\ UNCHANGED <<open, archived, check>>

OthersAct ==
    \/ \E ss \in SUBSET Students \ {{}}, x \in Places, on \in BOOLEAN : SetAccess(ss, x, on)
    \/ \E n \in Nodes : SetArchived(n)
    \/ \E i \in Videos : SetReady(i)

=============================================================================
