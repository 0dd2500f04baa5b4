------------------------------ MODULE Accounts ------------------------------
(***************************************************************************)
(* The accounts of owners and students beside the catalogue, to which the  *)
(* grades of students belong.  They are kept as the catalogue's rows are:  *)
(* checked first, written later; but their phones have a unique key.  What *)
(* becomes of their sessions is in AuthSessions.                           *)
(***************************************************************************)
EXTENDS Catalog

\* A single active owner: checked by a read of its own, and by nothing else.
NoOtherActiveOwner(o) == Owners \cap open \subseteq {o}

CreateOwner(r, o, phone) ==
    /\ Unused(o) /\ NoOtherActiveOwner(Nothing)
    /\ Begin(r, "inserting", {o}, NoGrade, phone, [i \in {o} |-> 0])

UpdateOwner(r, o, phone) == Retitle(r, o, phone)
ArchiveOwner(o) == Archive(o)

\* Mutant: as for a student.
RestoreOwnerBeside(r, o) == Restore(r, o, {})

RestoreOwner(r, o) == NoOtherActiveOwner(o) /\ Restore(r, o, {})

AssertGrade(g) == {g} \ {NoGrade, Nothing} \subseteq open

CreateStudent(r, s, g, phone) ==
    /\ Unused(s) /\ AssertGrade(g)
    /\ Begin(r, "inserting", {s}, g, phone, [i \in {s} |-> 0])

\* Only the fields that are given; the grade is checked whenever it is given.
UpdateStudent(r, s, g, phone) ==
    /\ s \in exists /\ AssertGrade(g)
    /\ Begin(r, "patching", {s}, g, phone, <<>>)

ArchiveStudent(s) == Archive(s)

\* The grade is not looked at.
RestoreStudent(r, s) == Restore(r, s, {})

AccountsStep(r) ==
    \/ \E o \in Owners : RestoreOwner(r, o) \/ \E n \in Names : CreateOwner(r, o, n) \/ UpdateOwner(r, o, n)
    \/ \E s \in Students, g \in Grades \cup {NoGrade}, n \in Names : CreateStudent(r, s, g, n)
    \/ \E s \in Students, g \in Grades \cup {NoGrade, Nothing}, n \in Names \cup {Nothing} :
        UpdateStudent(r, s, g, n)
    \/ \E s \in Students : RestoreStudent(r, s)

AccountsNext ==
    \/ Next
    \/ \E r \in Requests : AccountsStep(r)
    \/ \E o \in Owners : ArchiveOwner(o)
    \/ \E s \in Students : ArchiveStudent(s)

AccountsSpec == Init /\ [][AccountsNext]_vars

(***************************************************************************)
(* Properties                                                              *)
(***************************************************************************)

\* No creation and no restoring makes an owner active beside another, as long as nobody else
\* writes between its check and its write.
OwnerStaysAlone ==
    [][\A r \in Requests :
        WritesAlone(r) /\ ~(Owners \cap open' \subseteq open) => Cardinality(Owners \cap open') = 1]_vars

\* owners.service.ts: "Single institute => at most one non-archived owner."
SingleOwner == Cardinality(Owners \cap open) <= 1

=============================================================================
