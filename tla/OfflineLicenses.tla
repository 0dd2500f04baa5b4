--------------------------- MODULE OfflineLicenses ---------------------------
(***************************************************************************)
(* Licences to keep a video on a device: issued after the settings and the *)
(* access policy allow it, checked again by the app's sync, revoked by     *)
(* that, by the student, by a device reset, and by expiry.  A step is one  *)
(* access to the database with what the request does after its answer.     *)
(***************************************************************************)
EXTENDS AccessPolicy, SystemSettings, FiniteSets

CONSTANTS
    Student,        \* the student whose device it is
    Admin,          \* the reader of settings that updates them
    MaxLicences,    \* rows (bound)
    MaxAge          \* ticks a request takes at most (assumption)

ASSUME LicenceAssumption ==
    /\ Student \in Students /\ Readers = Requests \cup {Admin} /\ Admin \notin Requests
    /\ MaxLicences \in Nat /\ MaxAge \in Nat

Licences == 1 .. MaxLicences
Cap == SettingsTTL + 2 * MaxAge

VARIABLES
    licences,       \* offline_licenses: of each row the item and "none" (no row yet), "valid",
                    \* "lapsed" (past expires_at) or "revoked"
    req,            \* of each request: where it is, the item it is about, the row it looks at, and
                    \* the rows it has yet to look at (a sync) or will revoke (an issue)
    admin,          \* where the update of the settings is
    watched,        \* history: an item and one fact it takes, chosen at the start
    seen,           \* history: issues under way during whose check that fact has held
    missed,         \* history: syncs under way during whose check of a row some fact was missing
    overlapped,     \* history: whether two requests for a licence were under way together
    since           \* history: for how many ticks downloads have been off, up to Cap

vars == <<open, archived, ready, check, stored, settings, fetched, licences, req, admin,
          watched, seen, missed, overlapped, since>>

NoLicence == [item |-> NoItem, state |-> "none"]
Idle == [pc |-> "idle", item |-> NoItem, row |-> 0, rows |-> {}, age |-> 0]

Init ==
    /\ AccessInit /\ SettingsInit
    /\ licences = [l \in Licences |-> NoLicence]
    /\ req = [r \in Requests |-> Idle]
    /\ admin = "idle"
    /\ watched \in {w \in Items \X ({"chain", "ready"} \cup Places) : w[2] \in Facts("policy", w[1])}
    /\ seen = {} /\ missed = {} /\ overlapped = FALSE /\ since = 0

Issuing == {"settings", "policy", "revoke", "insert"}
Syncing == {"sync", "look", "denied", "error"}

TypeOK ==
    /\ AccessTypeOK /\ SettingsTypeOK
    /\ licences \in [Licences -> [item : Items \cup {NoItem},
                                  state : {"none", "valid", "lapsed", "revoked"}]]
    /\ req \in [Requests -> [pc : {"idle"} \cup Issuing \cup Syncing, item : Items \cup {NoItem},
                             row : 0 .. MaxLicences, rows : SUBSET Licences, age : 0 .. MaxAge]]
    /\ admin \in {"idle", "committed", "invalidated"}
    /\ seen \subseteq Requests /\ missed \subseteq Requests
    /\ overlapped \in BOOLEAN /\ since \in 0 .. Cap
    /\ \A r \in Requests : (check[r].pc # "off") <=> (req[r].pc \in {"policy", "look"})

Goto(r, pc) == req' = [req EXCEPT ![r].pc = pc]
Leave(r) == req' = [req EXCEPT ![r] = Idle]
Begin(r, pc, i, rows) ==
    req' = [req EXCEPT ![r] = [pc |-> pc, item |-> i, row |-> 0, rows |-> rows, age |-> 0]]

RowsOf(i, states) == {l \in Licences : licences[l].item = i /\ licences[l].state \in states}
Revoked(rows) == [l \in Licences |-> IF l \in rows THEN [licences[l] EXCEPT !.state = "revoked"]
                                     ELSE licences[l]]

(***************************************************************************)
(* issueOfflineLicense                                                     *)
(***************************************************************************)

Ask(r, i) ==
    /\ req[r].pc = "idle"
    /\ Begin(r, "settings", i, {})
    /\ UNCHANGED <<accessVars, settingsVars, licences, admin>>

\* With the value of the setting: the request is refused, or goes on to the policy.
Decide(r, value) ==
    IF value = "on"
    THEN Goto(r, "policy") /\ check' = Started(r, "policy", Student, req[r].item)
    ELSE Leave(r) /\ UNCHANGED check

\* getSettings, from the cache.
SettingsCached(r) ==
    /\ req[r].pc = "settings" /\ fetched[r] = "none" /\ Cached
    /\ Decide(r, settings.value)
    /\ UNCHANGED <<open, archived, ready, settingsVars, licences, admin>>

SettingsRead(r) ==
    /\ req[r].pc = "settings"
    /\ Fetch(r)
    /\ UNCHANGED <<accessVars, licences, req, admin>>

SettingsFilled(r) ==
    /\ req[r].pc = "settings"
    /\ Decide(r, fetched[r])
    /\ Fill(r)
    /\ UNCHANGED <<open, archived, ready, licences, admin>>

\* A query of the policy, of an issue or of a sync.
Read(r) ==
    /\ req[r].pc \in {"policy", "look"}
    /\ \E f \in Facts("policy", check[r].item) : ReadFact(r, f)
    /\ UNCHANGED <<settingsVars, licences, req, admin>>

Judge(r) ==
    /\ req[r].pc = "policy"
    /\ \/ Passed(r) /\ Goto(r, "revoke")
       \/ Denied(r) /\ Leave(r)
    /\ check' = Stopped(r)
    /\ UNCHANGED <<open, archived, ready, settingsVars, licences, admin>>

\* The transaction: it revokes the rows it finds (nothing is committed yet), then inserts.
RevokeFormer(r) ==
    /\ req[r].pc = "revoke"
    /\ req' = [req EXCEPT ![r].pc = "insert", ![r].rows = RowsOf(req[r].item, {"valid", "lapsed"})]
    /\ UNCHANGED <<accessVars, settingsVars, licences, admin>>

\* Mutant: a renewed licence is another licence.
InsertBeside(r) ==
    /\ req[r].pc = "insert"
    /\ \E l \in Licences :
        /\ licences[l].state = "none" /\ \A k \in 1 .. l - 1 : licences[k].state # "none"
        /\ licences' = [licences EXCEPT ![l] = [item |-> req[r].item, state |-> "valid"]]
    /\ Leave(r)
    /\ UNCHANGED <<accessVars, settingsVars, admin>>

Insert(r) ==
    /\ req[r].pc = "insert"
    /\ \E l \in Licences :
        /\ licences[l].state = "none" /\ \A k \in 1 .. l - 1 : licences[k].state # "none"
        /\ licences' = [Revoked(req[r].rows) EXCEPT ![l] = [item |-> req[r].item, state |-> "valid"]]
    /\ Leave(r)
    /\ UNCHANGED <<accessVars, settingsVars, admin>>

(***************************************************************************)
(* syncOfflineLicenses                                                     *)
(***************************************************************************)

List(r) ==
    /\ req[r].pc = "idle"
    /\ \E i \in Items : RowsOf(i, {"valid"}) # {}
    /\ Begin(r, "sync", NoItem, {l \in Licences : licences[l].state = "valid"})
    /\ UNCHANGED <<accessVars, settingsVars, licences, admin>>

\* The next row, as it was listed; after the last one, the answer.
LookAt(r) ==
    /\ req[r].pc = "sync"
    /\ \/ \E l \in req[r].rows :
            /\ req' = [req EXCEPT ![r].pc = "look", ![r].row = l, ![r].rows = @ \ {l}]
            /\ check' = Started(r, "policy", Student, licences[l].item)
       \/ req[r].rows = {} /\ Leave(r) /\ UNCHANGED check
    /\ UNCHANGED <<open, archived, ready, settingsVars, licences, admin>>

\* Mutant: the first grant that is found decides.
SettleEarly(r) ==
    /\ req[r].pc = "look"
    /\ \/ Passed(r) /\ Goto(r, "sync")
       \/ check[r].asked # {} /\ ~Passed(r) /\ Goto(r, "denied")
    /\ check' = Stopped(r)
    /\ UNCHANGED <<open, archived, ready, settingsVars, licences, admin>>

Settle(r) ==
    /\ req[r].pc = "look"
    /\ \/ Passed(r) /\ Goto(r, "sync")
       \/ Denied(r) /\ Goto(r, "denied")
    /\ check' = Stopped(r)
    /\ UNCHANGED <<open, archived, ready, settingsVars, licences, admin>>

\* The catch block, which is entered for any error.
Drop(r) ==
    /\ req[r].pc \in {"denied", "error"}
    /\ licences' = Revoked({req[r].row})
    /\ Goto(r, "sync")
    /\ UNCHANGED <<accessVars, settingsVars, admin>>

\* The database fails: in the check of a sync that enters the catch block, elsewhere the request
\* ends with an error, its transaction undone.
RequestFails(r) ==
    /\ req[r].pc # "idle"
    /\ IF req[r].pc = "look" THEN Goto(r, "error") ELSE Leave(r)
    /\ check' = Stopped(r)
    /\ fetched' = [fetched EXCEPT ![r] = "none"]
    /\ UNCHANGED <<open, archived, ready, stored, settings, licences, admin>>

(***************************************************************************)
(* Around them                                                             *)
(***************************************************************************)

\* revokeOwnOfflineLicense; and a device reset, for all rows of the device.
RevokeOwn(l) ==
    /\ licences[l].state \in {"valid", "lapsed"}
    /\ licences' = Revoked({l})
    /\ UNCHANGED <<accessVars, settingsVars, req, admin>>

Expire(l) ==
    /\ licences[l].state = "valid"
    /\ licences' = [licences EXCEPT ![l].state = "lapsed"]
    /\ UNCHANGED <<accessVars, settingsVars, req, admin>>

CleanupExpired ==
    /\ \E i \in Items : RowsOf(i, {"lapsed"}) # {}
    /\ licences' = Revoked({l \in Licences : licences[l].state = "lapsed"})
    /\ UNCHANGED <<accessVars, settingsVars, req, admin>>

\* updateSettings: the transaction, the cache, and the answer by way of getSettings.
UpdateSettings ==
    /\ \/ admin = "idle" /\ admin' = "committed" /\ Commit(IF stored = "on" THEN "off" ELSE "on")
       \/ admin = "committed" /\ admin' = "invalidated" /\ Invalidate
       \/ admin = "invalidated" /\ UNCHANGED admin /\ Fetch(Admin)
       \/ admin = "invalidated" /\ admin' = "idle" /\ Fill(Admin)
       \/ /\ admin = "invalidated" /\ admin' = "idle" /\ Cached /\ fetched[Admin] = "none"
          /\ UNCHANGED settingsVars
    /\ UNCHANGED <<accessVars, licences, req>>

Others ==
    /\ OthersAct
    /\ UNCHANGED <<settingsVars, licences, req, admin>>

Tick ==
    /\ \A r \in Requests : req[r].pc # "idle" => req[r].age < MaxAge
    /\ req' = [r \in Requests |-> IF req[r].pc = "idle" THEN req[r] ELSE [req[r] EXCEPT !.age = @ + 1]]
    /\ Age
    /\ UNCHANGED <<accessVars, licences, admin>>

(***************************************************************************)
(* History, brought up to date by every step                               *)
(***************************************************************************)

Entitled(r) == Facts("policy", check[r].item) \subseteq Holding(Student, check[r].item)

Observe(ticks) ==
    /\ UNCHANGED watched
    /\ seen' = {r \in Requests :
                   /\ req'[r].pc \in {"policy", "revoke", "insert"}
                   /\ \/ r \in seen
                      \/ check'[r].pc # "off" /\ (watched[2] \in Holding(Student, watched[1]))'}
    /\ missed' = {r \in Requests :
                   /\ req'[r].pc \in {"look", "denied", "error"}
                   /\ \/ r \in missed
                      \/ check'[r].pc # "off" /\ ~Entitled(r)'}
    /\ overlapped' = (overlapped \/ \E q, r \in Requests :
                         q # r /\ req'[q].pc \in {"revoke", "insert"} /\ req'[r].pc \in {"revoke", "insert"})
    /\ since' = IF stored' = "on" THEN 0 ELSE IF since + ticks > Cap THEN Cap ELSE since + ticks

Step(r) ==
    \/ \E i \in Items : Ask(r, i)
    \/ SettingsCached(r) \/ SettingsRead(r) \/ SettingsFilled(r) \/ Read(r) \/ Judge(r)
    \/ RevokeFormer(r) \/ Insert(r)
    \/ List(r) \/ LookAt(r) \/ Settle(r) \/ Drop(r) \/ RequestFails(r)

Next ==
    \/ /\ \/ \E r \in Requests : Step(r)
          \/ \E l \in Licences : RevokeOwn(l) \/ Expire(l)
          \/ CleanupExpired \/ UpdateSettings \/ Others
       /\ Observe(0)
    \/ Tick /\ Observe(1)

Spec == Init /\ [][Next]_vars

(***************************************************************************)
(* Properties                                                              *)
(***************************************************************************)

\* A device has at most one licence in force for a video, however issues, syncs, revocations and
\* expiry alternate, unless the transactions of two issues have overlapped: then each revokes
\* what it finds, and both may insert.
OneLicence ==
    overlapped \/ \A i \in Items : Cardinality(RowsOf(i, {"valid"})) <= 1

\* No licence is written unless each grant was open, the chain active and the video READY at some
\* moment since the check began, and downloads were on no longer ago than the settings are cached,
\* a late answer fills the cache, and the request takes.
IssuedIsAllowed ==
    \A r \in Requests :
        req[r].pc = "insert" => /\ watched[1] = req[r].item => r \in seen
                                /\ since < Cap

\* A sync that gets its answers takes away only licences of videos that were closed to the student,
\* or not READY, at some moment of the check.
SyncTakesClosed ==
    \A r \in Requests : req[r].pc = "denied" => r \in missed

\* The comment of syncOfflineLicenses says that grants whose access was closed are revoked; the
\* rows it revokes are those, whatever made it do so.
SyncTakesOnlyClosed ==
    \A r \in Requests : req[r].pc \in {"denied", "error"} => r \in missed

=============================================================================
