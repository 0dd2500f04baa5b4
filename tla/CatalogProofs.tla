--------------------------- MODULE CatalogProofs ---------------------------
(***************************************************************************)
(* What holds of Catalog with Accounts for any rows, names, requests and   *)
(* bounds: the types, and what a request ensures that writes alone.        *)
(***************************************************************************)
EXTENDS Accounts, FiniteSetTheorems, WellFoundedInduction, TLAPS

Pcs == {"idle", "creating", "inserting", "patching", "restoring", "ordering"}

\* The parent that Insert gives.
Under(i, q) == IF i \in Spaces THEN i[1] ELSE IF i \in Teachers THEN AllTeachers ELSE q.under

\* What a request holds, whoever else writes: rows are never removed.
Fits(q) ==
    /\ q.pc \in Pcs
    /\ q.items \subseteq Items /\ q.fresh \subseteq q.items
    /\ q.pc \in {"patching", "restoring", "ordering"} => q.items \subseteq exists
    /\ q.pc \in {"creating", "inserting"} =>
           /\ \A i \in q.items \ Spaces : q.name \in Names
           /\ \A i \in q.items : Under(i, q) \in Parents /\ (i \in Owners => q.under = NoGrade)
           /\ \A i, j \in q.items : i # j => {i, j} \subseteq Spaces \cup Teachers /\ Under(i, q) # Under(j, q)
    /\ q.pc = "creating" =>
           q.items \cap (Teachers \cup Accounts) = {} /\ \A i \in q.items \cap Spaces : i[1] = q.under
    /\ q.pc \in {"inserting", "ordering"} => q.place \in [q.items -> 0 .. MaxPosition]
    /\ q.pc = "patching" =>
           /\ \E i \in Items : q.items = {i}
           /\ q.under \in Parents \cup {Nothing} /\ q.name \in Names \cup {Nothing}
           /\ q.under # Nothing => q.items \subseteq Subjects \cup Students
    /\ q.pc = "restoring" => \E i \in Items : q.items = {i}

\* What its checks have found, and is still so as long as nobody else writes: of a creation,
CheckedInsert(q) ==
    /\ \A i \in q.items : Above(i, Under(i, q)) \subseteq open \cup q.items
    /\ \A i \in q.items \cap Grades : UniqueGradeName(q.name, i)
    /\ \A i \in q.items \cap Subjects : UniqueSubjectName(q.under, q.name, i)
    /\ q.items \cap Owners # {} => Owners \cap open = {}

\* of its places,
CheckedPlaces(q) ==
    \A i \in q.items \ (Teachers \cup Accounts), j \in exists \ Accounts :
        parent[j] = Under(i, q) /\ (j \in Files <=> i \in Files) => position[j] < q.place[i]

\* of an update,
CheckedPatch(q) ==
    \A i \in q.items :
        /\ q.under \in {Nothing, parent[i]} \/ Above(i, q.under) \subseteq open
        /\ i \in Grades => q.name \in {Nothing, name[i]} \/ UniqueGradeName(q.name, i)
        /\ i \in Subjects =>
               \/ q.under \in {Nothing, parent[i]} /\ q.name \in {Nothing, name[i]}
               \/ UniqueSubjectName(IF q.under = Nothing THEN parent[i] ELSE q.under,
                                    IF q.name = Nothing THEN name[i] ELSE q.name, i)

\* and of a restoring.
CheckedRestore(q) ==
    \A i \in q.items :
        /\ i \in open \cup Students \/ Above(i, parent[i]) \subseteq open
        /\ i \in Grades \ open => UniqueGradeName(name[i], i)
        /\ i \in Owners => Owners \cap open \subseteq {i}

Checked(q) ==
    /\ q.pc \in {"creating", "inserting"} => CheckedInsert(q)
    /\ q.pc = "inserting" => CheckedPlaces(q)
    /\ q.pc = "patching" => CheckedPatch(q)
    /\ q.pc = "restoring" => CheckedRestore(q)

Record(pc, items, under, n, place, fresh) ==
    [pc |-> pc, items |-> items, under |-> under, name |-> n, place |-> place, fresh |-> fresh]

Shaped ==
    req = [r \in Requests |-> Record(req[r].pc, req[r].items, req[r].under, req[r].name, req[r].place, req[r].fresh)]

OwnersFree == \A o \in Owners \cap exists : parent[o] = NoGrade

IInv ==
    /\ TypeOK /\ Shaped /\ OwnersFree
    /\ \A r \in Requests : Fits(req[r])
    /\ \A r \in calm : Checked(req[r])

(***************************************************************************)
(* Kinds of rows, and positions.                                           *)
(***************************************************************************)

\* No id is of two kinds.
LEMMA KindsApart ==
    /\ Grades \cap (Subjects \cup Teachers \cup Spaces \cup Topics \cup Sessions \cup Videos \cup Files \cup Owners \cup Students) = {}
    /\ Subjects \cap (Teachers \cup Spaces \cup Topics \cup Sessions \cup Videos \cup Files \cup Owners \cup Students) = {}
    /\ Teachers \cap (Spaces \cup Topics \cup Sessions \cup Videos \cup Files \cup Owners \cup Students) = {}
    /\ Spaces \cap (Topics \cup Sessions \cup Videos \cup Files \cup Owners \cup Students) = {}
    /\ Files \cap (Topics \cup Sessions \cup Videos \cup Owners \cup Students) = {}
    /\ (Owners \cup Students) \cap (Topics \cup Sessions \cup Videos) = {}
    /\ Owners \cap Students = {}
<1> DEFINE kinds == <<Grades, Subjects, Teachers, Spaces, Topics, Sessions, Videos, Files, Owners, Students>>
<1>1. \A k, l \in 1 .. 10 : k # l => kinds[k] \cap kinds[l] = {}
  BY CatalogAssumption
<1>2. /\ kinds[1] = Grades /\ kinds[2] = Subjects /\ kinds[3] = Teachers /\ kinds[4] = Spaces
      /\ kinds[5] = Topics /\ kinds[6] = Sessions /\ kinds[7] = Videos /\ kinds[8] = Files
      /\ kinds[9] = Owners /\ kinds[10] = Students
  OBVIOUS
<1> HIDE DEF kinds
<1>3. \A k \in {1, 2, 3, 4, 8} : \A l \in 1 .. 10 : k # l => kinds[k] \cap kinds[l] = {}
  BY <1>1
<1>4. \A k \in {5, 6, 7, 9} : kinds[k] \cap kinds[10] = {} /\ (k # 9 => kinds[9] \cap kinds[k] = {})
  BY <1>1
<1>5. \A l \in 2 .. 10 : Grades \cap kinds[l] = {}
  BY <1>2, <1>3
<1>6. \A l \in 3 .. 10 : Subjects \cap kinds[l] = {}
  BY <1>2, <1>3
<1>7. \A l \in 4 .. 10 : Teachers \cap kinds[l] = {}
  BY <1>2, <1>3
<1>8. \A l \in 5 .. 10 : Spaces \cap kinds[l] = {}
  BY <1>2, <1>3
<1>9. \A l \in {5, 6, 7, 9, 10} : Files \cap kinds[l] = {}
  BY <1>2, <1>3
<1>10. QED
  BY <1>2, <1>4, <1>5, <1>6, <1>7, <1>8, <1>9

\* The maximum of a set of positions.
LEMMA MaxIsThere ==
    ASSUME NEW N \in Nat, NEW S \in SUBSET (0 .. N), S # {}
    PROVE  Max(S) \in S /\ \A x \in S : x <= Max(S)
<1> DEFINE B == {b \in Nat : \A x \in S : x <= b}
<1>1. N \in B
  OBVIOUS
<1>2. PICK m \in B : \A b \in B : <<b, m>> \notin OpToRel(<, Nat)
  BY <1>1, WFMin, NatLessThanWellFounded, Zenon
<1>3. \A b \in B : ~(b < m)
  BY <1>2, Zenon DEF OpToRel
<1>4. m \in S
  <2> SUFFICES ASSUME m \notin S PROVE FALSE
    OBVIOUS
  <2>1. PICK x \in S : TRUE
    OBVIOUS
  <2>2. m - 1 \in B
    BY <2>1
  <2>3. QED
    BY <1>3, <2>2
<1>5. m \in S /\ \A y \in S : m >= y
  BY <1>2, <1>4
<1>6. QED
  BY <1>5 DEF Max

LEMMA LastIsLast ==
    ASSUME TypeOK, NEW S \in SUBSET Items
    PROVE  LastPosition(S) \in 0 .. MaxPosition /\ \A i \in S : position[i] <= LastPosition(S)
<1> DEFINE P == {0} \cup {position[i] : i \in S}
<1>1. P \in SUBSET (0 .. MaxPosition) /\ P # {} /\ MaxPosition \in Nat
  BY CatalogAssumption DEF TypeOK
<1>2. Max(P) \in P /\ \A x \in P : x <= Max(P)
  BY <1>1, MaxIsThere
<1>3. LastPosition(S) = Max(P)
  BY DEF LastPosition
<1>4. QED
  BY <1>1, <1>2, <1>3

LEMMA NextIsAfter ==
    ASSUME TypeOK, NEW i, NEW p
    PROVE  /\ NextPosition(i, p) \in 1 .. MaxPosition + 1
           /\ \A j \in exists \ Accounts :
                  parent[j] = p /\ (j \in Files <=> i \in Files) => position[j] < NextPosition(i, p)
<1> DEFINE S == IF i \in Files THEN FilesOf(p) ELSE Children(p)
<1>1. S \in SUBSET Items
  BY DEF FilesOf, Children, TypeOK
<1>2. LastPosition(S) \in 0 .. MaxPosition /\ \A j \in S : position[j] <= LastPosition(S)
  BY <1>1, LastIsLast
<1>3. NextPosition(i, p) = LastPosition(S) + 1
  BY DEF NextPosition
<1>4. \A j \in exists \ Accounts : parent[j] = p /\ (j \in Files <=> i \in Files) => j \in S
  BY DEF FilesOf, Children
<1>5. \A j \in exists : position[j] \in 0 .. MaxPosition
  BY DEF TypeOK
<1> HIDE DEF S
<1>6. QED
  BY <1>2, <1>3, <1>4, <1>5, CatalogAssumption

(***************************************************************************)
(* What steps leave alone.                                                 *)
(***************************************************************************)
LEMMA FitsKeeps ==
    ASSUME NEW q, Fits(q), exists \subseteq exists'
    PROVE  Fits(q)'
BY DEF Fits, Under

LEMMA CheckedKeeps ==
    ASSUME NEW q, Checked(q), UNCHANGED rows
    PROVE  Checked(q)'
BY DEF Checked, CheckedInsert, CheckedPlaces, CheckedPatch, CheckedRestore, UniqueGradeName,
       UniqueSubjectName, Under, Above, rows

\* A request that goes on, or is over.
LEMMA RequestGoes ==
    ASSUME Shaped, NEW r \in Requests, NEW q, req' = [req EXCEPT ![r] = q],
           \E pc, items, under, n, place, fresh : q = Record(pc, items, under, n, place, fresh)
    PROVE  Shaped' /\ req'[r] = q /\ \A x \in Requests \ {r} : req'[x] = req[x]
BY DEF Shaped, Record

LEMMA RequestOver ==
    ASSUME Shaped, NEW r \in Requests, Leave(r)
    PROVE  /\ Shaped' /\ req'[r] = Idle
           /\ \A q \in Requests \ {r} : req'[q] = req[q]
BY DEF Shaped, Record, Leave, Idle

LEMMA IdleFits == Fits(Idle) /\ Checked(Idle)
BY DEF Fits, Checked, Idle, Pcs

\* The part of TypeOK about requests is in Fits.
LEMMA TypeOfRequests ==
    ASSUME NEW r \in Requests, Fits(req[r])
    PROVE  /\ req[r].pc \in {"idle", "creating", "inserting", "patching", "restoring", "ordering"}
           /\ req[r].items \subseteq Items /\ req[r].fresh \subseteq req[r].items
           /\ req[r].pc \in {"patching", "restoring", "ordering"} => req[r].items \subseteq exists
BY DEF Fits, Pcs

LEMMA InitInv == Init => IInv
<1> SUFFICES ASSUME Init PROVE IInv
  OBVIOUS
<1>1. \A r \in Requests : req[r] = Idle
  BY DEF Init
<1>2. Shaped
  BY <1>1 DEF Init, Shaped, Record, Idle
<1>3. \A r \in Requests : Fits(req[r])
  BY <1>1, IdleFits
<1>4. OwnersFree
  BY CatalogAssumption, KindsApart DEF Init, OwnersFree, Items, Accounts
<1>5. TypeOK
  <2>1. \A i \in Items : parent[i] \in Parents \cup {Nothing} /\ (parent[i] = Nothing <=> i \notin exists)
    BY CatalogAssumption DEF Init
  <2>2. \A i \in Items : name[i] \in Names \cup {Nothing}
    BY CatalogAssumption DEF Init
  <2>3. \A i \in Items : position[i] \in 0 .. MaxPosition
    BY CatalogAssumption DEF Init
  <2>4. parent \in [Items -> Parents \cup {Nothing}] /\ name \in [Items -> Names \cup {Nothing}]
        /\ position \in [Items -> 0 .. MaxPosition]
    BY <2>1, <2>2, <2>3 DEF Init
  <2>5. left \in 0 .. MaxRequests /\ calm \subseteq Requests /\ open \subseteq exists /\ exists \subseteq Items
    BY CatalogAssumption DEF Init
  <2>6. QED
    BY <1>3, <2>1, <2>4, <2>5, TypeOfRequests DEF TypeOK
<1>6. QED
  BY <1>2, <1>3, <1>4, <1>5 DEF IInv, Init

\* Steps that write no row: requests that begin, go on, or leave.
LEMMA RowsKept ==
    ASSUME IInv, UNCHANGED rows, left' \in 0 .. MaxRequests, NEW r \in Requests, Shaped',
           \A q \in Requests \ {r} : req'[q] = req[q],
           Fits(req'[r]), r \in calm' => Checked(req'[r]),
           calm' \subseteq calm \cup {r}
    PROVE  IInv'
<1>1. exists' = exists /\ open' = open /\ parent' = parent /\ name' = name /\ position' = position
  BY DEF rows
<1>2. ASSUME NEW q \in Requests PROVE Fits(req[q])'
  <2>1. PICK v : v = req'[q]
    OBVIOUS
  <2>2. Fits(v)
    BY <2>1 DEF IInv
  <2>3. Fits(v)'
    BY <1>1, <2>2, FitsKeeps
  <2>4. QED
    BY <2>1, <2>3
<1>3. ASSUME NEW q \in calm' PROVE Checked(req[q])'
  <2>1. PICK v : v = req'[q]
    OBVIOUS
  <2>2. Checked(v)
    BY <2>1, <1>3 DEF IInv, TypeOK
  <2>3. Checked(v)'
    BY <2>2, CheckedKeeps
  <2>4. QED
    BY <2>1, <2>3
<1>4. OwnersFree'
  BY <1>1 DEF OwnersFree, IInv
<1>5. TypeOK'
  <2>1. \A q \in Requests :
            /\ req'[q].pc \in {"idle", "creating", "inserting", "patching", "restoring", "ordering"}
            /\ req'[q].items \subseteq Items /\ req'[q].fresh \subseteq req'[q].items
            /\ req'[q].pc \in {"patching", "restoring", "ordering"} => req'[q].items \subseteq exists'
    BY <1>2 DEF Fits, Pcs
  <2>2. QED
    BY <1>1, <2>1 DEF IInv, TypeOK
<1>6. QED
  BY <1>2, <1>3, <1>4, <1>5 DEF IInv

\* Steps that write rows: nobody is alone any more.
LEMMA RowsWritten ==
    ASSUME IInv, calm' = {}, left' \in 0 .. MaxRequests, Shaped', OwnersFree',
           \A q \in Requests : req'[q] \in {req[q], Idle},
           open' \subseteq exists', exists \subseteq exists', exists' \subseteq Items,
           parent' \in [Items -> Parents \cup {Nothing}], name' \in [Items -> Names \cup {Nothing}],
           position' \in [Items -> 0 .. MaxPosition],
           \A i \in Items : parent'[i] = Nothing <=> i \notin exists'
    PROVE  IInv'
<1>1. ASSUME NEW q \in Requests PROVE Fits(req[q])'
  <2>1. PICK v : v = req'[q]
    OBVIOUS
  <2>2. Fits(v)
    BY <2>1, IdleFits DEF IInv
  <2>3. Fits(v)'
    BY <2>2, FitsKeeps
  <2>4. QED
    BY <2>1, <2>3
<1>2. \A q \in Requests :
          /\ req'[q].pc \in {"idle", "creating", "inserting", "patching", "restoring", "ordering"}
          /\ req'[q].items \subseteq Items /\ req'[q].fresh \subseteq req'[q].items
          /\ req'[q].pc \in {"patching", "restoring", "ordering"} => req'[q].items \subseteq exists'
  BY <1>1 DEF Fits, Pcs
<1>3. TypeOK'
  BY <1>2 DEF TypeOK
<1>4. QED
  BY <1>1, <1>3 DEF IInv

(***************************************************************************)
(* Requests begin with what they have checked.                             *)
(***************************************************************************)
Begins(r) ==
    \E pc, items, under, n, place :
        /\ Begin(r, pc, items, under, n, place)
        /\ Fits(Record(pc, items, under, n, place, items \ exists))
        /\ Checked(Record(pc, items, under, n, place, items \ exists))

LEMMA BeginKeeps ==
    ASSUME IInv, NEW r \in Requests, Begins(r)
    PROVE  IInv' /\ UNCHANGED rows
<1>1. PICK pc, items, under, n, place :
          /\ Begin(r, pc, items, under, n, place)
          /\ Fits(Record(pc, items, under, n, place, items \ exists))
          /\ Checked(Record(pc, items, under, n, place, items \ exists))
  BY DEF Begins
<1>2. PICK fresh : fresh = items \ exists
  OBVIOUS
<1>3. PICK q : q = Record(pc, items, under, n, place, fresh)
  OBVIOUS
<1>4. Shaped' /\ req'[r] = q /\ \A x \in Requests \ {r} : req'[x] = req[x]
  <2>1. req' = [req EXCEPT ![r] = q]
    BY <1>1, <1>2, <1>3 DEF Begin, Record
  <2>2. Shaped
    BY DEF IInv
  <2>3. QED
    BY <1>3, <2>1, <2>2, RequestGoes
<1>5. left' \in 0 .. MaxRequests /\ UNCHANGED rows /\ calm' \subseteq calm \cup {r}
  BY <1>1, CatalogAssumption DEF Begin, IInv, TypeOK
<1>6. Fits(q) /\ Checked(q)
  BY <1>1, <1>2, <1>3
<1>7. QED
  BY <1>4, <1>5, <1>6, RowsKept

LEMMA CreateWell ==
    ASSUME NEW r, NEW i \in Items \ (Teachers \cup Spaces \cup Accounts), NEW p \in Parents, NEW n \in Names,
           Create(r, i, p, n),
           i \in Grades => UniqueGradeName(n, i),
           i \in Subjects => UniqueSubjectName(p, n, i)
    PROVE  Begins(r)
<1>1. PICK q : q = Record("creating", {i}, p, n, <<>>, {i} \ exists)
  OBVIOUS
<1>2. q.pc = "creating" /\ q.items = {i} /\ q.under = p /\ q.name = n /\ q.fresh = {i} \ exists
  BY <1>1 DEF Record
<1>3. Under(i, q) = p
  BY <1>2 DEF Under
<1>4. Fits(q)
  BY <1>2, <1>3 DEF Fits, Pcs, Accounts
<1>5. Above(i, p) \subseteq open /\ Begin(r, "creating", {i}, p, n, <<>>)
  BY DEF Create
<1>6. Checked(q)
  BY <1>2, <1>3, <1>5 DEF Checked, CheckedInsert, Accounts
<1>7. QED
  BY <1>1, <1>4, <1>5, <1>6 DEF Begins

LEMMA PatchWell ==
    ASSUME NEW r, NEW i \in Items, NEW p \in Parents \cup {Nothing}, NEW n \in Names \cup {Nothing},
           i \in exists, Begin(r, "patching", {i}, p, n, <<>>),
           p # Nothing => i \in Subjects \cup Students,
           p \in {Nothing, parent[i]} \/ Above(i, p) \subseteq open,
           i \in Grades => n = name[i] \/ UniqueGradeName(n, i),
           i \in Subjects =>
               \/ p \in {Nothing, parent[i]} /\ n \in {Nothing, name[i]}
               \/ UniqueSubjectName(IF p = Nothing THEN parent[i] ELSE p, IF n = Nothing THEN name[i] ELSE n, i)
    PROVE  Begins(r)
<1>1. PICK q : q = Record("patching", {i}, p, n, <<>>, {i} \ exists)
  OBVIOUS
<1>2. q.pc = "patching" /\ q.items = {i} /\ q.under = p /\ q.name = n /\ q.fresh = {i} \ exists
  BY <1>1 DEF Record
<1>3. Fits(q)
  BY <1>2 DEF Fits, Pcs
<1>4. CheckedPatch(q)
  BY <1>2 DEF CheckedPatch
<1>5. Checked(q)
  BY <1>2, <1>4 DEF Checked
<1>6. QED
  BY <1>1, <1>3, <1>5 DEF Begins

LEMMA RetitleWell ==
    ASSUME NEW r, NEW i \in Items \ Subjects, NEW n \in Names, Retitle(r, i, n),
           i \in Grades => n = name[i] \/ UniqueGradeName(n, i)
    PROVE  Begins(r)
BY PatchWell DEF Retitle

LEMMA RestoringWell ==
    ASSUME NEW r, NEW i \in Items, i \in exists, Begin(r, "restoring", {i}, Nothing, Nothing, <<>>),
           i \in open \cup Students \/ Above(i, parent[i]) \subseteq open,
           i \in Grades \ open => UniqueGradeName(name[i], i),
           i \in Owners => Owners \cap open \subseteq {i}
    PROVE  Begins(r)
<1>1. PICK q : q = Record("restoring", {i}, Nothing, Nothing, <<>>, {i} \ exists)
  OBVIOUS
<1>2. q.pc = "restoring" /\ q.items = {i} /\ q.fresh = {i} \ exists
  BY <1>1 DEF Record
<1>3. Fits(q)
  BY <1>2 DEF Fits, Pcs
<1>4. Checked(q)
  BY <1>2 DEF Checked, CheckedRestore
<1>5. QED
  BY <1>1, <1>3, <1>4 DEF Begins

LEMMA RestoreWell ==
    ASSUME NEW r, NEW i \in Items \ (Grades \cup Owners), NEW above, Restore(r, i, above), open \subseteq exists,
           i \in Students \/ Above(i, parent[i]) \subseteq above
    PROVE  Begins(r)
BY RestoringWell DEF Restore

LEMMA ReorderWell ==
    ASSUME IInv, NEW r, NEW p, NEW siblings \in SUBSET exists, Reorder(r, p, siblings)
    PROVE  Begins(r)
<1>1. PICK items \in SUBSET (siblings \cap open) \ {{}} : \E order \in [items -> 1 .. Cardinality(items)] :
          Cardinality(items) <= MaxPosition /\ Begin(r, "ordering", items, p, Nothing, order)
  BY DEF Reorder
<1>2. PICK order \in [items -> 1 .. Cardinality(items)] :
          Cardinality(items) <= MaxPosition /\ Begin(r, "ordering", items, p, Nothing, order)
  BY <1>1
<1>3. items \subseteq exists /\ exists \subseteq Items
  BY <1>1 DEF IInv, TypeOK
<1>4. Cardinality(items) \in Nat
  BY <1>3, CatalogAssumption, FS_Subset, FS_CardinalityType
<1>5. order \in [items -> 0 .. MaxPosition]
  BY <1>2, <1>4, CatalogAssumption
<1>6. PICK q : q = Record("ordering", items, p, Nothing, order, items \ exists)
  OBVIOUS
<1>7. q.pc = "ordering" /\ q.items = items /\ q.place = order /\ q.fresh = items \ exists
  BY <1>6 DEF Record
<1>8. Fits(q)
  BY <1>3, <1>5, <1>7 DEF Fits, Pcs
<1>9. Checked(q)
  BY <1>7 DEF Checked
<1>10. QED
  BY <1>2, <1>6, <1>8, <1>9 DEF Begins

\* A single row of an account, and a teacher with spaces.
LEMMA AccountWell ==
    ASSUME NEW r, NEW i \in Accounts, NEW p \in Parents, NEW n \in Names,
           Begin(r, "inserting", {i}, p, n, [j \in {i} |-> 0]),
           {p} \ {NoGrade} \subseteq open,
           i \in Owners => p = NoGrade /\ Owners \cap open = {}
    PROVE  Begins(r)
<1>1. PICK place : place = [j \in {i} |-> 0]
  OBVIOUS
<1>2. PICK q : q = Record("inserting", {i}, p, n, place, {i} \ exists)
  OBVIOUS
<1>3. /\ q.pc = "inserting" /\ q.items = {i} /\ q.under = p /\ q.name = n /\ q.fresh = {i} \ exists
      /\ q.place = place
  BY <1>2 DEF Record
<1>4. i \notin Spaces \cup Teachers \cup Grades \cup Subjects
  BY KindsApart DEF Accounts
<1>5. Under(i, q) = p /\ Above(i, p) = {p} \ {NoGrade}
  BY <1>3, <1>4 DEF Under, Above
<1>6. place \in [{i} -> 0 .. MaxPosition]
  BY <1>1, CatalogAssumption
<1>7. Fits(q)
  BY <1>3, <1>4, <1>5, <1>6 DEF Fits, Pcs, Items
<1>8. CheckedInsert(q) /\ CheckedPlaces(q)
  BY <1>3, <1>4, <1>5 DEF CheckedInsert, CheckedPlaces
<1>9. Checked(q)
  BY <1>3, <1>8 DEF Checked
<1>10. QED
  BY <1>1, <1>2, <1>7, <1>9 DEF Begins

LEMMA TeacherWell ==
    ASSUME IInv, NEW r, NEW t \in Teachers, NEW n \in Names, NEW in \in SUBSET Subjects, CreateTeacher(r, t, n, in)
    PROVE  Begins(r)
<1>1. PICK items : items = {t} \cup in \X {t}
  OBVIOUS
<1>2. PICK place : place = [i \in items |-> IF i = t THEN 0 ELSE NextPosition(i, i[1])]
  OBVIOUS
<1>3. in \subseteq open /\ (\A s \in in : NextPosition(<<s, t>>, s) <= MaxPosition)
      /\ Begin(r, "inserting", items, Nothing, n, place)
  BY <1>1, <1>2 DEF CreateTeacher
<1>4. PICK q : q = Record("inserting", items, Nothing, n, place, items \ exists)
  OBVIOUS
<1>5. /\ q.pc = "inserting" /\ q.items = items /\ q.under = Nothing /\ q.name = n /\ q.fresh = items \ exists
      /\ q.place = place
  BY <1>4 DEF Record
<1>6. t \notin Spaces /\ items \subseteq {t} \cup Spaces /\ \A i \in items \ {t} : i = <<i[1], t>> /\ i[1] \in in
  BY <1>1, KindsApart DEF Spaces
<1>7. Under(t, q) = AllTeachers /\ \A i \in items \ {t} : Under(i, q) = i[1]
  BY <1>6 DEF Under
<1>8. items \cap (Grades \cup Subjects \cup Owners \cup Files \cup Students) = {} /\ items \subseteq Items
  BY <1>6, KindsApart DEF Items
<1>9. AllTeachers \notin Subjects /\ Subjects \subseteq Parents /\ AllTeachers \in Parents
  BY CatalogAssumption DEF Items, Parents
<1>10. place \in [items -> 0 .. MaxPosition]
  <2>1. ASSUME NEW i \in items PROVE place[i] \in 0 .. MaxPosition
    <3>1. CASE i = t
      BY <1>2, <3>1, CatalogAssumption
    <3>2. CASE i # t
      <4>1. NextPosition(i, i[1]) <= MaxPosition
        BY <1>3, <1>6, <3>2
      <4>2. NextPosition(i, i[1]) \in 1 .. MaxPosition + 1
        BY NextIsAfter DEF IInv
      <4>3. QED
        BY <1>2, <3>2, <4>1, <4>2, CatalogAssumption
    <3>3. QED
      BY <3>1, <3>2
  <2>2. QED
    BY <1>2, <2>1
<1>11. Fits(q)
  BY <1>5, <1>6, <1>7, <1>8, <1>9, <1>10 DEF Fits, Pcs
<1>12. CheckedInsert(q)
  <2>1. ASSUME NEW i \in items PROVE Above(i, Under(i, q)) \subseteq open \cup items
    <3>1. CASE i = t
      BY <3>1, KindsApart DEF Above
    <3>2. CASE i # t
      BY <1>1, <1>3, <1>6, <3>2, KindsApart DEF Above
    <3>3. QED
      BY <3>1, <3>2
  <2>2. QED
    BY <1>5, <1>8, <2>1 DEF CheckedInsert
<1>13. CheckedPlaces(q)
  <2>1. ASSUME NEW i \in items \ {t}, NEW j \in exists \ Accounts, parent[j] = i[1], j \in Files <=> i \in Files
        PROVE  position[j] < place[i]
    <3>1. place[i] = NextPosition(i, i[1])
      BY <1>2, <2>1
    <3>2. QED
      BY <2>1, <3>1, NextIsAfter DEF IInv
  <2>2. QED
    BY <1>5, <1>7, <2>1 DEF CheckedPlaces
<1>14. Checked(q)
  BY <1>5, <1>12, <1>13 DEF Checked
<1>15. QED
  BY <1>3, <1>4, <1>11, <1>14 DEF Begins

LEMMA AssignWell ==
    ASSUME NEW r, NEW s \in Subjects, NEW t \in Teachers, AssignTeacher(r, s, t)
    PROVE  Begins(r)
<1>1. PICK i : i = <<s, t>>
  OBVIOUS
<1>2. {s, t} \subseteq open /\ Begin(r, "creating", {i}, s, Nothing, <<>>)
  BY <1>1 DEF AssignTeacher
<1>3. PICK q : q = Record("creating", {i}, s, Nothing, <<>>, {i} \ exists)
  OBVIOUS
<1>4. q.pc = "creating" /\ q.items = {i} /\ q.under = s /\ q.fresh = {i} \ exists
  BY <1>3 DEF Record
<1>5. i \in Spaces /\ i[1] = s /\ i[2] = t /\ i \in Items /\ s \in Parents
  BY <1>1 DEF Spaces, Items, Parents
<1>6. i \notin Teachers \cup Accounts \cup Grades \cup Subjects
  BY <1>5, KindsApart DEF Accounts
<1>7. Under(i, q) = s /\ Above(i, s) = {s, t}
  BY <1>5, <1>6 DEF Under, Above
<1>8. Fits(q)
  BY <1>4, <1>5, <1>6, <1>7 DEF Fits, Pcs, Accounts
<1>9. Checked(q)
  BY <1>2, <1>4, <1>6, <1>7 DEF Checked, CheckedInsert, Accounts
<1>10. QED
  BY <1>2, <1>3, <1>8, <1>9 DEF Begins

(***************************************************************************)
(* Every operation begins so.                                              *)
(***************************************************************************)
LEMMA SiblingsExist == ASSUME NEW p PROVE Children(p) \subseteq exists /\ FilesOf(p) \subseteq exists
BY DEF Children, FilesOf

LEMMA GradesWell ==
    ASSUME IInv, NEW r \in Requests, GradesStep(r)
    PROVE  Begins(r)
<1>1. Grades \subseteq Items \ (Subjects \cup Teachers \cup Spaces \cup Accounts \cup Owners \cup Students)
  BY KindsApart DEF Items, Accounts
<1>2. ASSUME NEW g \in Grades, NEW n \in Names, CreateGrade(r, g, n) PROVE Begins(r)
  <2>1. UniqueGradeName(n, g) /\ Create(r, g, AllGrades, n) /\ AllGrades \in Parents
    BY <1>1, <1>2, CatalogAssumption DEF CreateGrade, UniqueGradeName, Parents
  <2>2. QED
    BY <1>1, <2>1, CreateWell
<1>3. ASSUME NEW g \in Grades, NEW n \in Names, UpdateGrade(r, g, n) PROVE Begins(r)
  BY <1>1, <1>3, RetitleWell DEF UpdateGrade
<1>4. ASSUME NEW g \in Grades, RestoreGrade(r, g) PROVE Begins(r)
  <2>1. Above(g, parent[g]) = {}
    BY <1>1 DEF Above
  <2>2. QED
    BY <1>1, <1>4, <2>1, RestoringWell DEF RestoreGrade
<1>5. ASSUME ReorderGrades(r) PROVE Begins(r)
  BY <1>5, ReorderWell, SiblingsExist DEF ReorderGrades
<1>6. QED
  BY <1>2, <1>3, <1>4, <1>5 DEF GradesStep

LEMMA SubjectsWell ==
    ASSUME IInv, NEW r \in Requests, SubjectsStep(r)
    PROVE  Begins(r)
<1>1. Subjects \subseteq Items \ (Grades \cup Teachers \cup Spaces \cup Accounts \cup Owners \cup Students)
  BY KindsApart DEF Items, Accounts
<1>2. Grades \subseteq Parents /\ Nothing \notin Grades \cup Names
  BY CatalogAssumption DEF Parents, Items
<1>3. ASSUME NEW s \in Subjects, NEW p PROVE Above(s, p) = {p} \ {NoGrade}
  BY <1>1 DEF Above
<1>4. ASSUME NEW s \in Subjects, NEW g \in Grades, NEW n \in Names, CreateSubject(r, s, g, n) PROVE Begins(r)
  <2>1. UniqueSubjectName(g, n, s) /\ Create(r, s, g, n)
    BY <1>1, <1>4, CatalogAssumption DEF CreateSubject, UniqueSubjectName, Parents
  <2>2. QED
    BY <1>1, <1>2, <2>1, CreateWell
<1>5. ASSUME NEW s \in Subjects, NEW g \in Grades \cup {Nothing}, NEW n \in Names \cup {Nothing},
             UpdateSubject(r, s, g, n)
      PROVE  Begins(r)
  <2>1. s \in exists /\ Begin(r, "patching", {s}, g, n, <<>>)
    BY <1>5 DEF UpdateSubject
  <2>2. g \in {Nothing, parent[s]} \/ Above(s, g) \subseteq open
    BY <1>3, <1>5 DEF UpdateSubject
  <2>3. \/ g \in {Nothing, parent[s]} /\ n \in {Nothing, name[s]}
        \/ UniqueSubjectName(IF g = Nothing THEN parent[s] ELSE g, IF n = Nothing THEN name[s] ELSE n, s)
    BY <1>5 DEF UpdateSubject
  <2>4. QED
    BY <1>1, <1>2, <2>1, <2>2, <2>3, PatchWell
<1>6. ASSUME NEW s \in Subjects, RestoreSubject(r, s) PROVE Begins(r)
  BY <1>1, <1>3, <1>6, RestoreWell DEF RestoreSubject, IInv, TypeOK
<1>7. ASSUME NEW s \in Subjects, ReorderSubjectTeachers(r, s) PROVE Begins(r)
  BY <1>7, ReorderWell, SiblingsExist DEF ReorderSubjectTeachers
<1>8. ASSUME NEW g \in Grades, ReorderSubjects(r, g) PROVE Begins(r)
  BY <1>8, ReorderWell, SiblingsExist DEF ReorderSubjects
<1>9. QED
  BY <1>4, <1>5, <1>6, <1>7, <1>8 DEF SubjectsStep

LEMMA TeachersWell ==
    ASSUME IInv, NEW r \in Requests, TeachersStep(r)
    PROVE  Begins(r)
<1>1. Teachers \subseteq Items \ (Grades \cup Subjects \cup Spaces \cup Accounts \cup Owners \cup Students)
  BY KindsApart DEF Items, Accounts
<1>2. Spaces \subseteq Items \ (Grades \cup Subjects \cup Teachers \cup Accounts \cup Owners \cup Students)
  BY KindsApart DEF Items, Accounts
<1>3. ASSUME NEW t \in Teachers, NEW n \in Names, UpdateTeacher(r, t, n) PROVE Begins(r)
  BY <1>1, <1>3, RetitleWell DEF UpdateTeacher
<1>4. ASSUME NEW t \in Teachers, NEW n \in Names, NEW in \in SUBSET Subjects, CreateTeacher(r, t, n, in)
      PROVE  Begins(r)
  BY <1>4, TeacherWell
<1>5. ASSUME NEW t \in Teachers, RestoreTeacher(r, t) PROVE Begins(r)
  <2>1. Above(t, parent[t]) = {}
    BY <1>1 DEF Above
  <2>2. QED
    BY <1>1, <1>5, <2>1, RestoreWell DEF RestoreTeacher, IInv, TypeOK
<1>6. ASSUME NEW t \in Teachers, NEW s \in Subjects, AssignTeacher(r, s, t) PROVE Begins(r)
  BY <1>6, AssignWell
<1>7. ASSUME NEW a \in Spaces, RestoreAssignment(r, a) PROVE Begins(r)
  <2>1. Above(a, parent[a]) = {a[1], a[2]}
    BY <1>2 DEF Above
  <2>2. QED
    BY <1>2, <1>7, <2>1, RestoreWell DEF RestoreAssignment, IInv, TypeOK
<1>8. ASSUME NEW a \in Spaces, ReorderTopics(r, a) PROVE Begins(r)
  BY <1>8, ReorderWell, SiblingsExist DEF ReorderTopics
<1>9. QED
  BY <1>3, <1>4, <1>5, <1>6, <1>7, <1>8 DEF TeachersStep

\* Topics, sessions, videos and files.
Content == Topics \cup Sessions \cup Videos \cup Files

LEMMA ContentApart ==
    /\ Content \subseteq Items \ (Grades \cup Subjects \cup Teachers \cup Spaces \cup Accounts \cup Owners \cup Students)
    /\ \A i \in Content : \A p : Above(i, p) = {p} \ {NoGrade}
BY KindsApart DEF Content, Items, Accounts, Above

LEMMA ContentCreated ==
    ASSUME NEW r \in Requests, NEW i \in Content, NEW p \in Items, NEW n \in Names, Create(r, i, p, n)
    PROVE  Begins(r)
BY ContentApart, CreateWell DEF Parents

LEMMA ContentRestored ==
    ASSUME IInv, NEW r \in Requests, NEW i \in Content, Restore(r, i, {parent[i]})
    PROVE  Begins(r)
BY ContentApart, RestoreWell DEF IInv, TypeOK

LEMMA ContentWell ==
    ASSUME IInv, NEW r \in Requests, ContentStep(r)
    PROVE  Begins(r)
<1> USE DEF Content
<1>1. ASSUME NEW i \in Topics, NEW n \in Names, UpdateTopic(r, i, n) PROVE Begins(r)
  BY <1>1, ContentApart, RetitleWell DEF UpdateTopic
<1>2. ASSUME NEW i \in Topics, NEW n \in Names, NEW a \in Spaces, CreateTopic(r, i, a, n) PROVE Begins(r)
  BY <1>2, ContentCreated DEF CreateTopic, Items
<1>3. ASSUME NEW i \in Topics, RestoreTopic(r, i) PROVE Begins(r)
  BY <1>3, ContentRestored DEF RestoreTopic
<1>4. ASSUME NEW i \in Topics, ReorderSessions(r, i) PROVE Begins(r)
  BY <1>4, ReorderWell, SiblingsExist DEF ReorderSessions
<1>5. ASSUME NEW i \in Sessions, NEW n \in Names, UpdateSession(r, i, n) PROVE Begins(r)
  BY <1>5, ContentApart, RetitleWell DEF UpdateSession
<1>6. ASSUME NEW i \in Sessions, NEW n \in Names, NEW p \in Topics, CreateSession(r, i, p, n) PROVE Begins(r)
  BY <1>6, ContentCreated DEF CreateSession, Items
<1>7. ASSUME NEW i \in Sessions, RestoreSession(r, i) PROVE Begins(r)
  BY <1>7, ContentRestored DEF RestoreSession
<1>8. ASSUME NEW i \in Sessions, ReorderVideos(r, i) PROVE Begins(r)
  BY <1>8, ReorderWell, SiblingsExist DEF ReorderVideos
<1>9. ASSUME NEW i \in Videos, NEW n \in Names, UpdateVideo(r, i, n) PROVE Begins(r)
  BY <1>9, ContentApart, RetitleWell DEF UpdateVideo
<1>10. ASSUME NEW i \in Videos, NEW n \in Names, NEW p \in Sessions, CreateVideoUpload(r, i, p, n) PROVE Begins(r)
  BY <1>10, ContentCreated DEF CreateVideoUpload, Items
<1>11. ASSUME NEW i \in Videos, RestoreVideo(r, i) PROVE Begins(r)
  BY <1>11, ContentRestored DEF RestoreVideo
<1>12. QED
  BY <1>1, <1>2, <1>3, <1>4, <1>5, <1>6, <1>7, <1>8, <1>9, <1>10, <1>11 DEF ContentStep

LEMMA FilesWell ==
    ASSUME IInv, NEW r \in Requests, FilesStep(r)
    PROVE  Begins(r)
<1> USE DEF Content
<1>1. ASSUME NEW i \in Files, NEW n \in Names, UpdateFile(r, i, n) PROVE Begins(r)
  BY <1>1, ContentApart, RetitleWell DEF UpdateFile
<1>2. ASSUME NEW i \in Files, NEW n \in Names, NEW p \in Scopes, UploadFile(r, i, p, n) PROVE Begins(r)
  BY <1>2, ContentCreated DEF UploadFile, Items, Scopes
<1>3. ASSUME NEW i \in Files, RestoreFile(r, i) PROVE Begins(r)
  BY <1>3, ContentRestored DEF RestoreFile
<1>4. ASSUME NEW p \in Scopes, ReorderFiles(r, p) PROVE Begins(r)
  BY <1>4, ReorderWell, SiblingsExist DEF ReorderFiles
<1>5. QED
  BY <1>1, <1>2, <1>3, <1>4 DEF FilesStep

LEMMA AccountsWell ==
    ASSUME IInv, NEW r \in Requests, AccountsStep(r)
    PROVE  Begins(r)
<1>1. Owners \cup Students \subseteq Items \ (Grades \cup Subjects \cup Teachers \cup Spaces) /\ Owners \cap Students = {}
  BY KindsApart DEF Items, Accounts
<1>2. NoGrade \in Parents /\ Grades \subseteq Parents /\ Nothing \notin Parents
  BY CatalogAssumption DEF Parents, Items
<1>3. ASSUME NEW i \in Owners \cup Students, NEW p PROVE Above(i, p) = {p} \ {NoGrade}
  BY <1>1 DEF Above
<1>4. ASSUME NEW o \in Owners, RestoreOwner(r, o) PROVE Begins(r)
  <2>1. o \in exists /\ Owners \cap open \subseteq {o} /\ Begin(r, "restoring", {o}, Nothing, Nothing, <<>>)
    BY <1>4 DEF RestoreOwner, NoOtherActiveOwner, Restore
  <2>2. parent[o] = NoGrade
    BY <2>1 DEF IInv, OwnersFree
  <2>3. Above(o, parent[o]) = {}
    BY <1>3, <2>2
  <2>4. QED
    BY <1>1, <2>1, <2>3, RestoringWell
<1>5. ASSUME NEW o \in Owners, NEW n \in Names, CreateOwner(r, o, n) PROVE Begins(r)
  <2>1. Nothing \notin Owners
    BY <1>2 DEF Parents, Items, Accounts
  <2>2. Owners \cap open = {} /\ Begin(r, "inserting", {o}, NoGrade, n, [i \in {o} |-> 0])
    BY <1>5, <2>1 DEF CreateOwner, NoOtherActiveOwner
  <2>3. QED
    BY <1>2, <2>2, AccountWell DEF Accounts
<1>6. ASSUME NEW o \in Owners, NEW n \in Names, UpdateOwner(r, o, n) PROVE Begins(r)
  BY <1>1, <1>6, RetitleWell DEF UpdateOwner
<1>7. ASSUME NEW s \in Students, NEW g \in Grades \cup {NoGrade}, NEW n \in Names, CreateStudent(r, s, g, n)
      PROVE  Begins(r)
  <2>1. {g} \ {NoGrade} \subseteq open /\ Begin(r, "inserting", {s}, g, n, [i \in {s} |-> 0])
    BY <1>2, <1>7 DEF CreateStudent, AssertGrade
  <2>2. QED
    BY <1>1, <1>2, <2>1, AccountWell DEF Accounts
<1>8. ASSUME NEW s \in Students, NEW g \in Grades \cup {NoGrade, Nothing}, NEW n \in Names \cup {Nothing},
             UpdateStudent(r, s, g, n)
      PROVE  Begins(r)
  <2>1. s \in exists /\ Begin(r, "patching", {s}, g, n, <<>>) /\ {g} \ {NoGrade, Nothing} \subseteq open
    BY <1>8 DEF UpdateStudent, AssertGrade
  <2>2. g \in {Nothing, parent[s]} \/ Above(s, g) \subseteq open
    BY <1>3, <2>1
  <2>3. QED
    BY <1>1, <1>2, <2>1, <2>2, PatchWell
<1>9. ASSUME NEW s \in Students, RestoreStudent(r, s) PROVE Begins(r)
  BY <1>1, <1>9, RestoreWell DEF RestoreStudent, IInv, TypeOK
<1>10. QED
  BY <1>4, <1>5, <1>6, <1>7, <1>8, <1>9 DEF AccountsStep

(***************************************************************************)
(* The other steps, and the invariant.                                     *)
(***************************************************************************)
LEMMA LeaveKeeps ==
    ASSUME IInv, NEW r \in Requests, Leave(r), UNCHANGED <<rows, left, calm>>
    PROVE  IInv'
<1>1. Shaped' /\ req'[r] = Idle /\ \A q \in Requests \ {r} : req'[q] = req[q]
  BY RequestOver DEF IInv
<1>2. QED
  BY <1>1, IdleFits, RowsKept DEF IInv, TypeOK

LEMMA PlaceKeeps ==
    ASSUME IInv, NEW r \in Requests, Place(r)
    PROVE  IInv' /\ UNCHANGED rows
<1>1. CASE req[r].items \cap Spaces \cap open # {}
  BY <1>1, LeaveKeeps DEF Place
<1>2. CASE req[r].items \cap Spaces \cap open = {}
  <2>1. PICK items, under, n : items = req[r].items /\ under = req[r].under /\ n = req[r].name
    OBVIOUS
  <2>2. PICK place : place = [i \in items |-> NextPosition(i, under)]
    OBVIOUS
  <2>3. PICK q : q = Record("inserting", items, under, n, place, items \ exists)
    OBVIOUS
  <2>4. req' = [req EXCEPT ![r] = q]
    <3>1. req' = [req EXCEPT ![r].pc = "inserting", ![r].place = place, ![r].fresh = items \ exists]
      BY <1>2, <2>1, <2>2 DEF Place
    <3>2. req = [x \in Requests |-> req[x]]
          /\ \E pc, pl, fr : req[r] = Record(pc, items, under, n, pl, fr)
      BY <2>1 DEF IInv, Shaped
    <3>3. PICK pc, pl, fr : req[r] = Record(pc, items, under, n, pl, fr)
      BY <3>2
    <3>4. [req[r] EXCEPT !.pc = "inserting", !.place = place, !.fresh = items \ exists] = q
      <4>0. PICK old, free : old = [pc |-> pc, items |-> items, under |-> under, name |-> n, place |-> pl, fresh |-> fr]
                              /\ free = items \ exists
        OBVIOUS
      <4>1. PICK new : new = [old EXCEPT !.pc = "inserting", !.place = place, !.fresh = free]
        OBVIOUS
      <4>2. /\ new.pc = "inserting" /\ new.items = items /\ new.under = under /\ new.name = n
            /\ new.place = place /\ new.fresh = free
            /\ new = [f \in {"pc", "items", "under", "name", "place", "fresh"} |-> new[f]]
        BY <4>0, <4>1
      <4>3. new = q
        BY <2>3, <4>0, <4>2 DEF Record
      <4>4. old = req[r]
        BY <3>3, <4>0 DEF Record
      <4>5. QED
        BY <4>0, <4>1, <4>3, <4>4
    <3>5. req' = [req EXCEPT ![r] = [req[r] EXCEPT !.pc = "inserting", !.place = place, !.fresh = items \ exists]]
      BY <3>1, <3>2
    <3>6. QED
      BY <3>4, <3>5
  <2>5. Shaped' /\ req'[r] = q /\ \A x \in Requests \ {r} : req'[x] = req[x]
    BY <2>3, <2>4, RequestGoes DEF IInv
  <2>6. /\ q.pc = "inserting" /\ q.items = items /\ q.under = under /\ q.name = n /\ q.place = place
        /\ q.fresh = items \ exists
    BY <2>3 DEF Record
  <2>7. \A i \in items : NextPosition(i, under) \in 0 .. MaxPosition
    <3>1. \A i \in items : NextPosition(i, under) <= MaxPosition
      BY <1>2, <2>1 DEF Place
    <3>2. \A i \in items : NextPosition(i, under) \in 1 .. MaxPosition + 1
      BY NextIsAfter DEF IInv
    <3>3. QED
      BY <3>1, <3>2, CatalogAssumption
  <2>8. place \in [items -> 0 .. MaxPosition]
    BY <2>2, <2>7
  <2>9. PICK old : old = req[r]
    OBVIOUS
  <2>10. Fits(old) /\ old.pc = "creating" /\ old.items = items /\ old.under = under /\ old.name = n
    BY <2>1, <2>9 DEF IInv, Place
  <2>11. \A i \in items : Under(i, q) = Under(i, old)
    BY <2>6, <2>10 DEF Under
  <2>12. \A i \in items : Under(i, q) = under
    BY <2>6, <2>10 DEF Under, Fits
  <2>13. Fits(q)
    BY <2>6, <2>8, <2>10, <2>11 DEF Fits, Pcs
  <2>14. ASSUME r \in calm PROVE Checked(q)
    <3>1. CheckedInsert(old)
      BY <2>9, <2>10, <2>14 DEF IInv, Checked
    <3>2. CheckedInsert(q)
      BY <2>6, <2>10, <2>11, <3>1 DEF CheckedInsert
    <3>3. CheckedPlaces(q)
      BY <2>2, <2>6, <2>12, NextIsAfter DEF CheckedPlaces, IInv
    <3>4. QED
      BY <2>6, <3>2, <3>3 DEF Checked
  <2>15. QED
    BY <2>5, <2>13, <2>14, RowsKept DEF Place, IInv, TypeOK
<1>3. QED
  BY <1>1, <1>2 DEF Place

LEMMA WrittenOver ==
    ASSUME IInv, NEW r \in Requests, Written(r)
    PROVE  /\ calm' = {} /\ left' \in 0 .. MaxRequests /\ Shaped'
           /\ req'[r] = Idle /\ \A q \in Requests : req'[q] \in {req[q], Idle}
<1>1. Shaped' /\ req'[r] = Idle /\ \A q \in Requests \ {r} : req'[q] = req[q]
  BY RequestOver DEF IInv, Written
<1>2. QED
  BY <1>1 DEF IInv, TypeOK, Written

\* What Insert writes.
LEMMA InsertGives ==
    ASSUME NEW r, Insert(r)
    PROVE  /\ \A i \in Items : parent'[i] = IF i \in req[r].items THEN Under(i, req[r]) ELSE parent[i]
           /\ \A i \in Items : name'[i] = IF i \in req[r].items \ Spaces THEN req[r].name ELSE name[i]
           /\ \A i \in Items : position'[i] = IF i \in req[r].items THEN req[r].place[i] ELSE position[i]
           /\ exists' = exists \cup req[r].items /\ open' = open \cup req[r].items
BY DEF Insert, Under

LEMMA InsertKeeps ==
    ASSUME IInv, NEW r \in Requests, Insert(r)
    PROVE  IInv'
<1>1. PICK q : q = req[r]
  OBVIOUS
<1>2. Fits(q) /\ q.pc = "inserting"
  BY <1>1 DEF IInv, Insert
<1>3. /\ \A i \in Items : parent'[i] = IF i \in q.items THEN Under(i, q) ELSE parent[i]
      /\ \A i \in Items : name'[i] = IF i \in q.items \ Spaces THEN q.name ELSE name[i]
      /\ \A i \in Items : position'[i] = IF i \in q.items THEN q.place[i] ELSE position[i]
      /\ exists' = exists \cup q.items /\ open' = open \cup q.items
  BY <1>1, InsertGives
<1>4. /\ parent' = [i \in Items |-> parent'[i]] /\ name' = [i \in Items |-> name'[i]]
      /\ position' = [i \in Items |-> position'[i]]
  BY DEF Insert
<1>5. \A i \in q.items : Under(i, q) \in Parents /\ (i \notin Spaces => q.name \in Names)
                         /\ q.place[i] \in 0 .. MaxPosition /\ i \in Items
  BY <1>2 DEF Fits
<1>6. \A i \in q.items \cap Owners : Under(i, q) = NoGrade
  BY <1>2, KindsApart DEF Fits, Under
<1>7. OwnersFree'
  BY <1>3, <1>6 DEF IInv, OwnersFree, TypeOK, Items, Accounts
<1>8. TypeOK /\ Nothing \notin Parents
  BY CatalogAssumption DEF IInv
<1>9. \A i \in Items : /\ parent'[i] \in Parents \cup {Nothing} /\ name'[i] \in Names \cup {Nothing}
                       /\ position'[i] \in 0 .. MaxPosition
                       /\ parent'[i] = Nothing <=> i \notin exists'
  BY <1>3, <1>5, <1>8 DEF TypeOK
<1>10. /\ parent' \in [Items -> Parents \cup {Nothing}] /\ name' \in [Items -> Names \cup {Nothing}]
       /\ position' \in [Items -> 0 .. MaxPosition]
  BY <1>4, <1>9
<1>11. open' \subseteq exists' /\ exists \subseteq exists' /\ exists' \subseteq Items
  BY <1>3, <1>5, <1>8 DEF TypeOK
<1>12. QED
  BY <1>7, <1>9, <1>10, <1>11, WrittenOver, RowsWritten DEF Insert

LEMMA PatchKeeps ==
    ASSUME IInv, NEW r \in Requests, Patch(r)
    PROVE  IInv'
<1>1. PICK q : q = req[r]
  OBVIOUS
<1>2. Fits(q) /\ q.pc = "patching" /\ TypeOK /\ OwnersFree
  BY <1>1 DEF IInv, Patch
<1>3. /\ parent' = [i \in Items |-> IF i \in q.items /\ q.under # Nothing THEN q.under ELSE parent[i]]
      /\ name' = [i \in Items |-> IF i \in q.items /\ q.name # Nothing THEN q.name ELSE name[i]]
      /\ Written(r) /\ UNCHANGED <<exists, open, position>>
  BY <1>1 DEF Patch
<1>4. /\ q.under \in Parents \cup {Nothing} /\ q.name \in Names \cup {Nothing} /\ q.items \subseteq exists
      /\ q.under # Nothing => q.items \cap Owners = {}
  BY <1>2, KindsApart DEF Fits
<1>5. OwnersFree'
  BY <1>2, <1>3, <1>4 DEF OwnersFree, TypeOK, Items, Accounts
<1>6. /\ parent' \in [Items -> Parents \cup {Nothing}] /\ name' \in [Items -> Names \cup {Nothing}]
      /\ \A i \in Items : parent'[i] = Nothing <=> i \notin exists'
  BY <1>2, <1>3, <1>4 DEF TypeOK
<1>7. QED
  BY <1>2, <1>3, <1>5, <1>6, WrittenOver, RowsWritten DEF TypeOK

LEMMA RestoredKeeps ==
    ASSUME IInv, NEW r \in Requests, Restored(r)
    PROVE  IInv'
<1>1. req[r].items \subseteq exists /\ TypeOK /\ OwnersFree
  BY DEF IInv, Restored, Fits
<1>2. OwnersFree'
  BY <1>1 DEF OwnersFree, Restored
<1>3. QED
  BY <1>1, <1>2, WrittenOver, RowsWritten DEF TypeOK, Restored

LEMMA SetOrderKeeps ==
    ASSUME IInv, NEW r \in Requests, SetOrder(r)
    PROVE  IInv'
<1>1. PICK q : q = req[r]
  OBVIOUS
<1>2. Fits(q) /\ q.pc = "ordering" /\ TypeOK /\ OwnersFree
  BY <1>1 DEF IInv, SetOrder
<1>3. position' = [i \in Items |-> IF i \in q.items THEN q.place[i] ELSE position[i]]
  BY <1>1 DEF SetOrder
<1>4. \A i \in q.items : q.place[i] \in 0 .. MaxPosition
  BY <1>2 DEF Fits
<1>5. position' \in [Items -> 0 .. MaxPosition]
  BY <1>2, <1>3, <1>4 DEF TypeOK
<1>6. OwnersFree'
  BY <1>2 DEF OwnersFree, SetOrder
<1>7. QED
  BY <1>2, <1>5, <1>6, WrittenOver, RowsWritten DEF TypeOK, SetOrder

LEMMA ArchiveKeeps ==
    ASSUME IInv, NEW i, Archive(i)
    PROVE  IInv'
<1>1. TypeOK /\ OwnersFree /\ Shaped
  BY DEF IInv
<1>2. OwnersFree' /\ Shaped'
  BY <1>1 DEF OwnersFree, Shaped, Archive
<1>3. left' \in 0 .. MaxRequests
  BY <1>1, CatalogAssumption DEF Archive, TypeOK
<1>4. QED
  BY <1>1, <1>2, <1>3, RowsWritten DEF TypeOK, Archive

\* The steps there are.
LEMMA Steps ==
    ASSUME IInv, AccountsNext
    PROVE  \/ \E r \in Requests : \/ Begins(r)
                                  \/ Place(r)
                                  \/ WriteFails(r)
                                  \/ Insert(r)
                                  \/ Patch(r)
                                  \/ Restored(r)
                                  \/ SetOrder(r)
           \/ \E i : Archive(i)
<1>1. ASSUME NEW r \in Requests,
             GradesStep(r) \/ SubjectsStep(r) \/ TeachersStep(r) \/ ContentStep(r) \/ FilesStep(r) \/ AccountsStep(r)
      PROVE  Begins(r)
  BY <1>1, GradesWell, SubjectsWell, TeachersWell, ContentWell, FilesWell, AccountsWell
<1>2. CASE \E r \in Requests :
               \/ GradesStep(r) \/ SubjectsStep(r) \/ TeachersStep(r) \/ ContentStep(r) \/ FilesStep(r)
               \/ AccountsStep(r)
               \/ Place(r) \/ Insert(r) \/ WriteFails(r) \/ Patch(r) \/ Restored(r) \/ SetOrder(r)
  BY <1>1, <1>2
<1>3. CASE \/ \E i \in Grades : ArchiveGrade(i)
           \/ \E i \in Subjects : ArchiveSubject(i)
           \/ \E i \in Teachers : ArchiveTeacher(i)
           \/ \E i \in Spaces : UnassignTeacher(i)
           \/ \E i \in Topics : ArchiveTopic(i)
           \/ \E i \in Sessions : ArchiveSession(i)
           \/ \E i \in Videos : ArchiveVideo(i)
           \/ \E i \in Files : ArchiveFile(i)
           \/ \E o \in Owners : ArchiveOwner(o)
           \/ \E s \in Students : ArchiveStudent(s)
  BY <1>3 DEF ArchiveGrade, ArchiveSubject, ArchiveTeacher, UnassignTeacher, ArchiveTopic, ArchiveSession,
              ArchiveVideo, ArchiveFile, ArchiveOwner, ArchiveStudent
<1>4. QED
  BY <1>2, <1>3 DEF AccountsNext, Next

LEMMA Step == IInv /\ [AccountsNext]_vars => IInv'
<1> SUFFICES ASSUME IInv, [AccountsNext]_vars PROVE IInv'
  OBVIOUS
<1>1. CASE UNCHANGED vars
  <2>1. UNCHANGED <<exists, open, parent, name, position, req, left, calm>>
    BY <1>1 DEF vars
  <2>2. TypeOK' /\ Shaped' /\ OwnersFree'
    BY <2>1 DEF IInv, TypeOK, Shaped, OwnersFree
  <2>3. ASSUME NEW r \in Requests PROVE Fits(req[r])' /\ (r \in calm => Checked(req[r])')
    <3>1. PICK q : q = req[r]
      OBVIOUS
    <3>2. Fits(q) /\ (r \in calm => Checked(q))
      BY <3>1 DEF IInv
    <3>3. Fits(q)' /\ (r \in calm => Checked(q)')
      BY <2>1, <3>2, FitsKeeps, CheckedKeeps DEF rows
    <3>4. QED
      BY <2>1, <3>1, <3>3
  <2>4. QED
    BY <2>1, <2>2, <2>3 DEF IInv, TypeOK
<1>2. CASE AccountsNext
  <2>1. CASE \E i : Archive(i)
    BY <2>1, ArchiveKeeps
  <2>2. ASSUME NEW r \in Requests, WriteFails(r) PROVE IInv'
    BY <2>2, LeaveKeeps DEF WriteFails
  <2>3. CASE \E r \in Requests : Begins(r) \/ Place(r)
    BY <2>3, BeginKeeps, PlaceKeeps
  <2>4. CASE \E r \in Requests : Insert(r) \/ Patch(r) \/ Restored(r) \/ SetOrder(r)
    BY <2>4, InsertKeeps, PatchKeeps, RestoredKeeps, SetOrderKeeps
  <2>5. QED
    BY <1>2, <2>1, <2>2, <2>3, <2>4, Steps
<1>3. QED
  BY <1>1, <1>2

LEMMA Invariant == AccountsSpec => []IInv
BY InitInv, Step, PTL DEF AccountsSpec

\* Whatever requests overlap, rows keep their types, a row has a parent exactly if it was written,
\* and what a request under way is going to change was written before.
THEOREM TypeCorrect == AccountsSpec => []TypeOK
<1>1. IInv => TypeOK
  BY DEF IInv
<1>2. QED
  BY <1>1, Invariant, PTL

(***************************************************************************)
(* A request that writes alone writes what it has checked.                 *)
(***************************************************************************)
LEMMA WhoWrites ==
    ASSUME IInv, AccountsNext, NEW r \in Requests, WritesAlone(r)
    PROVE  /\ Insert(r) \/ Patch(r) \/ Restored(r) \/ SetOrder(r)
           /\ Fits(req[r]) /\ Checked(req[r])
<1>1. r \in calm /\ req[r].pc # "idle" /\ rows' # rows /\ req'[r].pc = "idle"
  BY DEF WritesAlone
<1>2. ~ \E i : Archive(i)
  BY <1>1 DEF Archive
<1>3. ~ \E q \in Requests : Begins(q) \/ Place(q)
  BY <1>1, BeginKeeps, PlaceKeeps
<1>4. ~ \E q \in Requests : WriteFails(q)
  BY <1>1 DEF WriteFails
<1>5. ASSUME NEW q \in Requests, Insert(q) \/ Patch(q) \/ Restored(q) \/ SetOrder(q)
      PROVE  q = r
  <2>1. Leave(q)
    BY <1>5 DEF Insert, Patch, Restored, SetOrder, Written
  <2>2. QED
    BY <1>1, <2>1, RequestOver DEF IInv
<1>6. QED
  BY <1>1, <1>2, <1>3, <1>4, <1>5, Steps DEF IInv

\* Two active grades, or two active subjects of a grade, with one name.
GradesClash(a, b) == a \in Grades \cap open /\ b \in Grades \cap open /\ a # b /\ name[a] = name[b]

SubjectsClash(a, b) ==
    a \in Subjects \cap open /\ b \in Subjects \cap open /\ a # b /\ parent[a] = parent[b] /\ name[a] = name[b]

LEMMA ClashesOf ==
    ASSUME \A a, b : GradesClash(a, b)' => GradesClash(a, b),
           \A a, b : SubjectsClash(a, b)' => SubjectsClash(a, b)
    PROVE  Clashes' \subseteq Clashes
<1>1. ASSUME NEW p, p \in Clashes' PROVE p \in Clashes
  <2>1. p = <<p[1], p[2]>> /\ (GradesClash(p[1], p[2])' \/ SubjectsClash(p[1], p[2])')
    BY <1>1 DEF Clashes, GradesClash, SubjectsClash
  <2>2. GradesClash(p[1], p[2]) \/ SubjectsClash(p[1], p[2])
    BY <2>1
  <2>3. QED
    BY <2>1, <2>2 DEF Clashes, GradesClash, SubjectsClash
<1>2. QED
  BY <1>1

LEMMA NamesStep ==
    ASSUME IInv, AccountsNext, NEW r \in Requests, WritesAlone(r),
           ~(req[r].pc = "restoring" /\ req[r].items \subseteq Subjects)
    PROVE  Clashes' \subseteq Clashes
<1>1. PICK q : q = req[r]
  OBVIOUS
<1>2. /\ Fits(q) /\ Checked(q) /\ ~(q.pc = "restoring" /\ q.items \subseteq Subjects)
      /\ Grades \cup Subjects \subseteq Items
  BY <1>1, WhoWrites DEF Items
<1>3. CASE Insert(r)
  <2>1. /\ \A i \in Items : parent'[i] = IF i \in q.items THEN Under(i, q) ELSE parent[i]
        /\ \A i \in Items : name'[i] = IF i \in q.items \ Spaces THEN q.name ELSE name[i]
        /\ open' = open \cup q.items
    BY <1>1, <1>3, InsertGives
  <2>2. q.pc = "inserting"
    BY <1>1, <1>3 DEF Insert
  <2>3. \A i \in q.items \cap (Grades \cup Subjects) : i \notin Spaces \cup Teachers /\ Under(i, q) = q.under
    BY KindsApart DEF Under
  <2>4. \A i \in q.items \cap (Grades \cup Subjects) : \A j \in q.items : i = j
    BY <1>2, <2>2, <2>3 DEF Fits
  <2>5. /\ \A i \in q.items \cap Grades : UniqueGradeName(q.name, i)
        /\ \A i \in q.items \cap Subjects : UniqueSubjectName(q.under, q.name, i)
    BY <1>2, <2>2 DEF Checked, CheckedInsert
  <2>6. ASSUME NEW a, NEW b, GradesClash(a, b)' PROVE GradesClash(a, b)
    <3>1. a \in Items /\ b \in Items
      BY <1>2, <2>6 DEF GradesClash
    <3>2. a \notin q.items /\ b \notin q.items
      BY <2>1, <2>3, <2>4, <2>5, <2>6, <3>1 DEF GradesClash, UniqueGradeName
    <3>3. QED
      BY <2>1, <2>6, <3>1, <3>2 DEF GradesClash
  <2>7. ASSUME NEW a, NEW b, SubjectsClash(a, b)' PROVE SubjectsClash(a, b)
    <3>1. a \in Items /\ b \in Items
      BY <1>2, <2>7 DEF SubjectsClash
    <3>2. a \notin q.items /\ b \notin q.items
      BY <2>1, <2>3, <2>4, <2>5, <2>7, <3>1 DEF SubjectsClash, UniqueSubjectName
    <3>3. QED
      BY <2>1, <2>7, <3>1, <3>2 DEF SubjectsClash
  <2>8. QED
    BY <2>6, <2>7, ClashesOf
<1>4. CASE Patch(r)
  <2>1. PICK i \in Items : q.items = {i}
    BY <1>1, <1>2, <1>4 DEF Patch, Fits
  <2>2. /\ \A j \in Items : parent'[j] = IF j = i /\ q.under # Nothing THEN q.under ELSE parent[j]
        /\ \A j \in Items : name'[j] = IF j = i /\ q.name # Nothing THEN q.name ELSE name[j]
        /\ open' = open
    BY <1>1, <1>4, <2>1 DEF Patch
  <2>3. /\ i \in Grades => q.name \in {Nothing, name[i]} \/ UniqueGradeName(q.name, i)
        /\ i \in Subjects =>
               \/ q.under \in {Nothing, parent[i]} /\ q.name \in {Nothing, name[i]}
               \/ UniqueSubjectName(IF q.under = Nothing THEN parent[i] ELSE q.under,
                                    IF q.name = Nothing THEN name[i] ELSE q.name, i)
    BY <1>1, <1>2, <1>4, <2>1 DEF Patch, Checked, CheckedPatch
  <2>4. ASSUME NEW a, NEW b, GradesClash(a, b)' PROVE GradesClash(a, b)
    BY <1>2, <2>2, <2>3, <2>4 DEF GradesClash, UniqueGradeName
  <2>5. ASSUME NEW a, NEW b, SubjectsClash(a, b)' PROVE SubjectsClash(a, b)
    BY <1>2, <2>2, <2>3, <2>5 DEF SubjectsClash, UniqueSubjectName
  <2>6. QED
    BY <2>4, <2>5, ClashesOf
<1>5. CASE Restored(r)
  <2>1. PICK i \in Items : q.items = {i}
    BY <1>1, <1>2, <1>5 DEF Restored, Fits
  <2>2. open' = open \cup {i} /\ parent' = parent /\ name' = name
    BY <1>1, <1>5, <2>1 DEF Restored
  <2>3. i \notin Subjects /\ (i \in Grades \ open => UniqueGradeName(name[i], i))
    BY <1>1, <1>2, <1>5, <2>1 DEF Restored, Checked, CheckedRestore
  <2>4. ASSUME NEW a, NEW b, GradesClash(a, b)' PROVE GradesClash(a, b)
    BY <2>2, <2>3, <2>4 DEF GradesClash, UniqueGradeName
  <2>5. ASSUME NEW a, NEW b, SubjectsClash(a, b)' PROVE SubjectsClash(a, b)
    BY <2>2, <2>3, <2>5 DEF SubjectsClash
  <2>6. QED
    BY <2>4, <2>5, ClashesOf
<1>6. CASE SetOrder(r)
  BY <1>6 DEF SetOrder, Clashes
<1>7. QED
  BY <1>3, <1>4, <1>5, <1>6, WhoWrites

\* Whatever grades and subjects there are: creations, renamings and moves, and the restoring of
\* grades, keep active names apart, unless somebody else writes between their check and their write.
THEOREM NamesKept == AccountsSpec => NamesStayUnique
<1>1. IInv /\ [AccountsNext]_vars =>
          [\A r \in Requests :
              WritesAlone(r) /\ ~(req[r].pc = "restoring" /\ req[r].items \subseteq Subjects)
                  => Clashes' \subseteq Clashes]_vars
  BY NamesStep
<1>2. QED
  BY <1>1, Invariant, PTL DEF NamesStayUnique, AccountsSpec

LEMMA LastStep ==
    ASSUME IInv, AccountsNext, NEW r \in Requests, WritesAlone(r), req[r].pc = "inserting",
           NEW i \in req[r].items \ (Teachers \cup Accounts), NEW j \in exists \ Accounts,
           j # i, parent'[j] = parent'[i], j \in Files <=> i \in Files
    PROVE  position[j] < position'[i]
<1>1. PICK q : q = req[r]
  OBVIOUS
<1>2. Fits(q) /\ Checked(q) /\ q.pc = "inserting" /\ Insert(r)
  BY <1>1, WhoWrites DEF Patch, Restored, SetOrder
<1>3. /\ \A k \in Items : parent'[k] = IF k \in q.items THEN Under(k, q) ELSE parent[k]
      /\ \A k \in Items : position'[k] = IF k \in q.items THEN q.place[k] ELSE position[k]
  BY <1>1, <1>2, InsertGives
<1>4. i \in q.items \ (Teachers \cup Accounts) /\ i \in Items /\ j \in Items
  BY <1>1, <1>2 DEF Fits, IInv, TypeOK
<1>5. j \notin q.items
  BY <1>2, <1>3, <1>4 DEF Fits
<1>6. CheckedPlaces(q)
  BY <1>2 DEF Checked
<1>7. position[j] < q.place[i]
  BY <1>3, <1>4, <1>5, <1>6 DEF CheckedPlaces
<1>8. QED
  BY <1>3, <1>4, <1>7

\* Whatever rows and positions there are: what is created comes after all its siblings, archived
\* or not, unless somebody else writes between the reading of the last position and the write.
THEOREM NewIsLast == AccountsSpec => NewComesLast
<1>1. IInv /\ [AccountsNext]_vars =>
          [\A r \in Requests : WritesAlone(r) /\ req[r].pc = "inserting"
              => \A i \in req[r].items \ (Teachers \cup Accounts), j \in exists \ Accounts :
                     j # i /\ parent'[j] = parent'[i] /\ (j \in Files <=> i \in Files)
                         => position[j] < position'[i]]_vars
  BY LastStep
<1>2. QED
  BY <1>1, Invariant, PTL DEF NewComesLast, AccountsSpec

LEMMA ParentsStep ==
    ASSUME IInv, AccountsNext, NEW r \in Requests, WritesAlone(r), NEW i \in open',
           i \notin open \/ parent'[i] # parent[i]
    PROVE  Above(i, parent'[i]) \subseteq open' \/ (i \in Students /\ req[r].pc = "restoring")
<1>1. PICK q : q = req[r]
  OBVIOUS
<1>2. Fits(q) /\ Checked(q) /\ q.items \subseteq Items /\ open \subseteq Items
  BY <1>1, WhoWrites DEF Fits, IInv, TypeOK
<1>3. CASE Insert(r)
  <2>1. /\ \A k \in Items : parent'[k] = IF k \in q.items THEN Under(k, q) ELSE parent[k]
        /\ open' = open \cup q.items
    BY <1>1, <1>3, InsertGives
  <2>2. i \in q.items
    BY <1>2, <2>1
  <2>3. Above(i, Under(i, q)) \subseteq open \cup q.items
    BY <1>1, <1>2, <1>3, <2>2 DEF Insert, Checked, CheckedInsert
  <2>4. QED
    BY <1>2, <2>1, <2>2, <2>3
<1>4. CASE Patch(r)
  <2>1. /\ \A k \in Items : parent'[k] = IF k \in q.items /\ q.under # Nothing THEN q.under ELSE parent[k]
        /\ open' = open
    BY <1>1, <1>4 DEF Patch
  <2>2. i \in q.items /\ q.under \notin {Nothing, parent[i]} /\ parent'[i] = q.under
    BY <1>2, <2>1
  <2>3. Above(i, q.under) \subseteq open
    BY <1>1, <1>2, <1>4, <2>2 DEF Patch, Checked, CheckedPatch
  <2>4. QED
    BY <2>1, <2>2, <2>3
<1>5. CASE Restored(r)
  <2>1. open' = open \cup q.items /\ parent' = parent /\ q.pc = "restoring"
    BY <1>1, <1>5 DEF Restored
  <2>2. i \in q.items \ open
    BY <2>1
  <2>3. i \in Students \/ Above(i, parent[i]) \subseteq open
    BY <1>2, <2>1, <2>2 DEF Checked, CheckedRestore
  <2>4. QED
    BY <1>1, <2>1, <2>3
<1>6. CASE SetOrder(r)
  BY <1>6 DEF SetOrder
<1>7. QED
  BY <1>3, <1>4, <1>5, <1>6, WhoWrites

\* Whatever rows there are: nothing becomes active below, or moves to, an archived parent, unless
\* somebody else writes between check and write, or a student is restored.
THEOREM ParentsStayOpen == AccountsSpec => ParentsOpen
<1>1. IInv /\ [AccountsNext]_vars =>
          [\A r \in Requests : WritesAlone(r)
              => \A i \in open' :
                     i \notin open \/ parent'[i] # parent[i]
                         => Above(i, parent'[i]) \subseteq open' \/ (i \in Students /\ req[r].pc = "restoring")]_vars
  BY ParentsStep
<1>2. QED
  BY <1>1, Invariant, PTL DEF ParentsOpen, AccountsSpec

LEMMA OwnerStep ==
    ASSUME IInv, AccountsNext, NEW r \in Requests, WritesAlone(r), ~(Owners \cap open' \subseteq open)
    PROVE  Cardinality(Owners \cap open') = 1
<1>1. PICK q : q = req[r]
  OBVIOUS
<1>2. Fits(q) /\ Checked(q)
  BY <1>1, WhoWrites
<1>3. PICK o \in Owners : o \in open' \ open
  OBVIOUS
<1>4. CASE Insert(r)
  <2>1. open' = open \cup q.items /\ q.pc = "inserting"
    BY <1>1, <1>4 DEF Insert
  <2>2. o \in q.items /\ o \notin Spaces \cup Teachers
    BY <1>3, <2>1, KindsApart
  <2>3. \A j \in q.items : j = o
    BY <1>2, <2>1, <2>2 DEF Fits
  <2>4. Owners \cap open = {}
    BY <1>2, <2>1, <2>2 DEF Checked, CheckedInsert
  <2>5. Owners \cap open' = {o}
    BY <2>1, <2>2, <2>3, <2>4
  <2>6. QED
    BY <2>5, FS_Singleton
<1>5. CASE Restored(r)
  <2>1. open' = open \cup q.items /\ q.pc = "restoring"
    BY <1>1, <1>5 DEF Restored
  <2>2. q.items = {o}
    BY <1>2, <1>3, <2>1 DEF Fits
  <2>3. Owners \cap open \subseteq {o}
    BY <1>2, <2>1, <2>2 DEF Checked, CheckedRestore
  <2>4. Owners \cap open' = {o}
    BY <2>1, <2>2, <2>3
  <2>5. QED
    BY <2>4, FS_Singleton
<1>6. CASE Patch(r) \/ SetOrder(r)
  BY <1>3, <1>6 DEF Patch, SetOrder
<1>7. QED
  BY <1>4, <1>5, <1>6, WhoWrites

\* Whatever owners there are: none becomes active beside another, unless somebody else writes
\* between check and write.
THEOREM OwnerAlone == AccountsSpec => OwnerStaysAlone
<1>1. IInv /\ [AccountsNext]_vars =>
          [\A r \in Requests :
              WritesAlone(r) /\ ~(Owners \cap open' \subseteq open) => Cardinality(Owners \cap open') = 1]_vars
  BY OwnerStep
<1>2. QED
  BY <1>1, Invariant, PTL DEF OwnerStaysAlone, AccountsSpec

(***************************************************************************)
(* Requests that do not overlap a write of another.                        *)
(***************************************************************************)

\* No request has had another write while it was under way.
Undisturbed == \A r \in Requests : req[r].pc # "idle" => r \in calm

LEMMA Writers ==
    ASSUME IInv, AccountsNext, Undisturbed
    PROVE  \/ UNCHANGED rows
           \/ \E i : Archive(i)
           \/ \E r \in Requests : WritesAlone(r)
<1>1. ASSUME NEW r \in Requests, Insert(r) \/ Patch(r) \/ Restored(r) \/ SetOrder(r)
      PROVE  UNCHANGED rows \/ WritesAlone(r)
  <2>1. Written(r) /\ req[r].pc # "idle"
    BY <1>1 DEF Insert, Patch, Restored, SetOrder
  <2>2. req'[r].pc = "idle"
    BY <2>1, WrittenOver DEF Idle
  <2>3. QED
    BY <2>1, <2>2 DEF WritesAlone, Undisturbed
<1>2. ASSUME NEW r \in Requests, Begins(r) \/ Place(r) \/ WriteFails(r)
      PROVE  UNCHANGED rows
  BY <1>2, BeginKeeps, PlaceKeeps DEF WriteFails
<1>3. QED
  BY <1>1, <1>2, Steps

Alone == \A o, p \in Owners \cap open : o = p

LEMMA AloneIsSingle == ASSUME IInv PROVE Alone <=> SingleOwner
<1> DEFINE S == Owners \cap open
<1>1. IsFiniteSet(S)
  <2>1. S \subseteq Items
    BY DEF Items, Accounts
  <2>2. QED
    BY <2>1, CatalogAssumption, FS_Subset
<1>2. Cardinality(S) \in Nat /\ (Cardinality(S) = 0 <=> S = {}) /\ (Cardinality(S) = 1 <=> \E x : S = {x})
  BY <1>1, FS_CardinalityType, FS_EmptySet, FS_Singleton
<1>3. Cardinality(S) <= 1 <=> S = {} \/ \E x : S = {x}
  BY <1>2
<1>4. Alone <=> S = {} \/ \E x : S = {x}
  BY DEF Alone
<1>5. QED
  BY <1>3, <1>4 DEF SingleOwner

LEMMA AloneStep ==
    ASSUME IInv, IInv', AccountsNext, Undisturbed, Alone
    PROVE  Alone'
<1>1. CASE UNCHANGED rows
  BY <1>1 DEF Alone, rows
<1>2. CASE \E i : Archive(i)
  BY <1>2 DEF Alone, Archive
<1>3. ASSUME NEW r \in Requests, WritesAlone(r) PROVE Alone'
  <2>1. CASE Owners \cap open' \subseteq open
    BY <2>1 DEF Alone
  <2>2. CASE ~(Owners \cap open' \subseteq open)
    <3>1. Cardinality(Owners \cap open') = 1
      BY <1>3, <2>2, OwnerStep
    <3>2. SingleOwner'
      BY <3>1 DEF SingleOwner
    <3>3. (IInv => (Alone <=> SingleOwner))'
      BY AloneIsSingle, PTL
    <3>4. QED
      BY <3>2, <3>3
  <2>3. QED
    BY <2>1, <2>2
<1>4. QED
  BY <1>1, <1>2, <1>3, Writers

\* "Single institute => at most one non-archived owner" (owners.service.ts), for any accounts and
\* requests: so it is from a start with one at most, if no request has another write between its
\* check and its write. Without that it is not.
THEOREM OneOwner == AccountsSpec /\ SingleOwner /\ []Undisturbed => []SingleOwner
<1>1. IInv /\ IInv' /\ Undisturbed /\ Alone /\ [AccountsNext]_vars => Alone'
  <2> SUFFICES ASSUME IInv, IInv', Undisturbed, Alone, [AccountsNext]_vars PROVE Alone'
    OBVIOUS
  <2>1. CASE UNCHANGED vars
    BY <2>1 DEF vars, Alone
  <2>2. QED
    BY <2>1, AloneStep
<1>2. IInv => (Alone <=> SingleOwner)
  BY AloneIsSingle
<1>3. QED
  BY <1>1, <1>2, Invariant, PTL DEF AccountsSpec

GradeNamesApart == \A a, b : ~GradesClash(a, b)

LEMMA GradeNamesStep ==
    ASSUME IInv, AccountsNext, Undisturbed, GradeNamesApart
    PROVE  GradeNamesApart'
<1>1. CASE UNCHANGED rows
  BY <1>1 DEF GradeNamesApart, GradesClash, rows
<1>2. CASE \E i : Archive(i)
  BY <1>2 DEF GradeNamesApart, GradesClash, Archive
<1>3. ASSUME NEW r \in Requests, WritesAlone(r) PROVE GradeNamesApart'
  <2>1. CASE req[r].pc = "restoring" /\ req[r].items \subseteq Subjects
    <3>1. Restored(r)
      BY <1>3, <2>1, WhoWrites DEF Insert, Patch, SetOrder
    <3>2. QED
      BY <2>1, <3>1, KindsApart DEF Restored, GradeNamesApart, GradesClash
  <2>2. CASE ~(req[r].pc = "restoring" /\ req[r].items \subseteq Subjects)
    <3>1. Clashes' \subseteq Clashes
      BY <1>3, <2>2, NamesStep
    <3>2. ASSUME NEW a, NEW b, GradesClash(a, b)' PROVE FALSE
      <4>1. <<a, b>> \in Clashes'
        BY <3>2 DEF GradesClash, Clashes
      <4>2. <<a, b>> \in Clashes
        BY <3>1, <4>1
      <4>3. a \in Grades
        BY <3>2 DEF GradesClash
      <4>4. GradesClash(a, b)
        BY <4>2, <4>3, KindsApart DEF Clashes, GradesClash
      <4>5. QED
        BY <4>4 DEF GradeNamesApart
    <3>3. QED
      BY <3>2 DEF GradeNamesApart
  <2>3. QED
    BY <2>1, <2>2
<1>4. QED
  BY <1>1, <1>2, <1>3, Writers

\* What assertUniqueName (grades.service.ts) is for, with any grades and requests: active grades
\* have different names if they have at the start, and no request has another write between its
\* check and its write. Of subjects this does not hold, since a restored subject is not checked.
THEOREM GradeNamesUnique == AccountsSpec /\ GradeNamesApart /\ []Undisturbed => []GradeNamesApart
<1>1. IInv /\ Undisturbed /\ GradeNamesApart /\ [AccountsNext]_vars => GradeNamesApart'
  <2> SUFFICES ASSUME IInv, Undisturbed, GradeNamesApart, [AccountsNext]_vars PROVE GradeNamesApart'
    OBVIOUS
  <2>1. CASE UNCHANGED vars
    BY <2>1 DEF vars, GradeNamesApart, GradesClash
  <2>2. QED
    BY <2>1, GradeNamesStep
<1>2. QED
  BY <1>1, Invariant, PTL DEF AccountsSpec

=============================================================================
