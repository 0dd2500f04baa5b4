---------------------------- MODULE AuthSessions ----------------------------
(***************************************************************************)
(* Accounts, their passwords, bound devices and auth sessions: login,      *)
(* registration, logout, password change, and what staff do to accounts    *)
(* and devices.  The API runs requests side by side; a step is what one of *)
(* them does up to and including one access to the database, where a       *)
(* transaction that only writes is one access.  Refresh tokens have a      *)
(* module of their own.                                                    *)
(***************************************************************************)
EXTENDS Integers

CONSTANTS
    Students, Staff,    \* accounts that may exist
    NoUser,
    Phones,             \* identifiers that apps send as their device
    NoPhone,
    Requests,           \* requests in flight together
    MaxDevices,         \* device rows (bound)
    MaxSessions,        \* session rows (bound)
    MaxPasswords        \* passwords an account has had (bound)

Users      == Students \cup Staff
DeviceIds  == 1 .. MaxDevices
SessionIds == 1 .. MaxSessions

ASSUME UsersAssumption == NoUser \notin Users /\ Students \cap Staff = {}
ASSUME PhonesAssumption == NoPhone \notin Phones
ASSUME BoundsAssumption == MaxDevices \in Nat /\ MaxSessions \in Nat /\ MaxPasswords \in Nat \ {0}

VARIABLES
    accounts,   \* users that exist
    status,     \* users.status
    archived,   \* users with archived_at
    password,   \* the password whose hash the row holds; numbered as they are set
    oldHash,    \* users whose hash has former parameters (needsRehash)
    latest,     \* history: the password set last
    devices,    \* rows of devices
    sessions,   \* rows of auth_sessions
    licensed,   \* devices with an offline licence that is not revoked
    req,        \* what each request is doing, and has read
    overlapped  \* history: accounts two requests of which were in flight together

rows == <<accounts, status, archived, password, oldHash, latest, devices, sessions, licensed>>
vars == <<rows, req, overlapped>>

NoDevice  == [student |-> NoUser, phone |-> NoPhone, status |-> "unused"]
NoSession == [user |-> NoUser, device |-> 0, state |-> "unused", password |-> 0]
Idle == [pc |-> "idle", user |-> NoUser, password |-> 0, phone |-> NoPhone,
         device |-> 0, session |-> 0]

Init ==
    /\ accounts \in SUBSET Users
    /\ status = [u \in Users |-> "ACTIVE"]
    /\ archived = {}
    /\ password = [u \in Users |-> 1]
    /\ oldHash \in SUBSET accounts
    /\ latest = [u \in Users |-> 1]
    /\ devices = [d \in DeviceIds |-> NoDevice]
    /\ sessions = [s \in SessionIds |-> NoSession]
    /\ licensed = {}
    /\ req = [r \in Requests |-> Idle]
    /\ overlapped = {}

(***************************************************************************)
(* Devices and sessions.                                                   *)
(***************************************************************************)
ActiveDevices(u) == {d \in DeviceIds : devices[d].status = "ACTIVE" /\ devices[d].student = u}

NextDevice(d) == /\ devices[d].status = "unused"
                 /\ \A e \in 1 .. d - 1 : devices[e].status # "unused"
NextSession(s) == /\ sessions[s].state = "unused"
                  /\ \A t \in 1 .. s - 1 : sessions[t].state # "unused"

\* A session that resolveAuth accepts.
Live(s) ==
    LET u == sessions[s].user IN
    /\ sessions[s].state = "live"
    /\ status[u] = "ACTIVE" /\ u \notin archived
    /\ u \in Students => devices[sessions[s].device].status = "ACTIVE"

CreateSession(u, d, p) ==
    \E s \in SessionIds :
        /\ NextSession(s)
        /\ sessions' = [sessions EXCEPT ![s] =
               [user |-> u, device |-> d, state |-> "live", password |-> p]]

End(S) == [s \in SessionIds |-> IF s \in S /\ sessions[s].state = "live"
                                THEN [sessions[s] EXCEPT !.state = "ended"] ELSE sessions[s]]
SessionsOf(u) == {s \in SessionIds : sessions[s].user = u}
SessionsOn(d) == {s \in SessionIds : sessions[s].device = d}

\* A request on account u begins, and has read what q says.
Begin(r, u, q) ==
    /\ req[r].pc = "idle"
    /\ req' = [req EXCEPT ![r] = q]
    /\ overlapped' = IF \E x \in Requests : req[x].pc # "idle" /\ req[x].user = u
                     THEN overlapped \cup {u} ELSE overlapped
Reply(r) == req' = [req EXCEPT ![r] = Idle] /\ UNCHANGED overlapped
Goto(r, pc) == req' = [req EXCEPT ![r].pc = pc] /\ UNCHANGED overlapped

(***************************************************************************)
(* Login.                                                                  *)
(***************************************************************************)

\* verifyCredentials, when it succeeds; otherwise nothing changes.
Login(r, u, phone) ==
    /\ u \in accounts \ archived /\ status[u] = "ACTIVE"
    /\ phone = NoPhone <=> u \in Staff
    /\ Begin(r, u, [Idle EXCEPT
           !.pc = IF u \in oldHash THEN "rehash" ELSE IF u \in Staff THEN "open" ELSE "bind",
           !.user = u, !.password = password[u], !.phone = phone])
    /\ UNCHANGED rows

\* The password that was verified is stored under the current parameters.
Rehash(r) ==
    LET u == req[r].user IN
    /\ req[r].pc = "rehash"
    /\ password' = [password EXCEPT ![u] = req[r].password]
    /\ oldHash' = oldHash \ {u}
    /\ Goto(r, IF u \in Staff THEN "open" ELSE "bind")
    /\ UNCHANGED <<accounts, status, archived, latest, devices, sessions, licensed>>

\* Mutant: whoever has a device is refused.
BindRefusingAll(r) ==
    /\ req[r].pc = "bind"
    /\ \/ ActiveDevices(req[r].user) = {} /\ Goto(r, "open")
       \/ ActiveDevices(req[r].user) # {} /\ Goto(r, "rejected")
    /\ UNCHANGED rows

\* bindOrVerifyDevice reads the active device of the student.
Bind(r) ==
    LET active == ActiveDevices(req[r].user) IN
    /\ req[r].pc = "bind"
    /\ \/ active = {} /\ Goto(r, "open")
       \/ \E d \in active :
             IF devices[d].phone = req[r].phone
             THEN req' = [req EXCEPT ![r].pc = "open", ![r].device = d] /\ UNCHANGED overlapped
             ELSE Goto(r, "rejected")
    /\ UNCHANGED rows

\* Mutant: active_student_id is not unique.
OpenSessionUnchecked(r) ==
    LET u == req[r].user IN
    /\ req[r].pc = "open"
    /\ \/ /\ u \in Staff \/ req[r].device # 0
          /\ CreateSession(u, req[r].device, req[r].password)
          /\ Reply(r) /\ UNCHANGED devices
       \/ /\ u \in Students /\ req[r].device = 0
          /\ \E d \in DeviceIds :
                /\ NextDevice(d)
                /\ devices' = [devices EXCEPT ![d] =
                       [student |-> u, phone |-> req[r].phone, status |-> "ACTIVE"]]
                /\ CreateSession(u, d, req[r].password)
          /\ Reply(r)
    /\ UNCHANGED <<accounts, status, archived, password, oldHash, latest, licensed>>

\* The rest of the transaction.  A device that was read is written by its id, whatever it
\* is by now; a new one collides with an active one on active_student_id.
OpenSession(r) ==
    LET u == req[r].user IN
    /\ req[r].pc = "open"
    /\ \/ /\ u \in Staff \/ req[r].device # 0
          /\ CreateSession(u, req[r].device, req[r].password)
          /\ Reply(r) /\ UNCHANGED devices
       \/ /\ u \in Students /\ req[r].device = 0 /\ ActiveDevices(u) = {}
          /\ \E d \in DeviceIds :
                /\ NextDevice(d)
                /\ devices' = [devices EXCEPT ![d] =
                       [student |-> u, phone |-> req[r].phone, status |-> "ACTIVE"]]
                /\ CreateSession(u, d, req[r].password)
          /\ Reply(r)
       \/ /\ u \in Students /\ req[r].device = 0 /\ ActiveDevices(u) # {}
          /\ Goto(r, "rejected")
          /\ UNCHANGED <<devices, sessions>>
    /\ UNCHANGED <<accounts, status, archived, password, oldHash, latest, licensed>>

\* The answer DEVICE_ALREADY_BOUND.
Rejected(r) == req[r].pc = "rejected" /\ Reply(r) /\ UNCHANGED rows

\* One transaction; bindOrVerifyDevice finds no device of the new student.
RegisterStudent(u, phone) ==
    /\ u \in Students \ accounts /\ ActiveDevices(u) = {}
    /\ accounts' = accounts \cup {u}
    /\ \E d \in DeviceIds :
          /\ NextDevice(d)
          /\ devices' = [devices EXCEPT ![d] =
                 [student |-> u, phone |-> phone, status |-> "ACTIVE"]]
          /\ CreateSession(u, d, password[u])
    /\ UNCHANGED <<status, archived, password, oldHash, latest, licensed, req, overlapped>>

(***************************************************************************)
(* What the holder of a session does.                                      *)
(***************************************************************************)
Authenticate(r, s) ==
    /\ Live(s)
    /\ \E pc \in {"logout", "verify", "issue"} :
          /\ pc = "issue" => sessions[s].device # 0
          /\ Begin(r, sessions[s].user, [Idle EXCEPT
                 !.pc = pc, !.user = sessions[s].user, !.session = s, !.device = sessions[s].device])
    /\ UNCHANGED rows

Logout(r) ==
    /\ req[r].pc = "logout"
    /\ sessions' = End({req[r].session})
    /\ Reply(r)
    /\ UNCHANGED <<accounts, status, archived, password, oldHash, latest, devices, licensed>>

\* changePassword: the current password is right.
VerifyPassword(r) ==
    /\ req[r].pc = "verify"
    /\ Goto(r, "change")
    /\ UNCHANGED rows

NewPassword(u) ==
    /\ latest[u] < MaxPasswords
    /\ latest' = [latest EXCEPT ![u] = @ + 1]
    /\ password' = [password EXCEPT ![u] = latest[u] + 1]
    /\ oldHash' = oldHash \ {u}

\* The session that changed the password goes on, with the new one.
ChangePassword(r) ==
    LET u == req[r].user
        own == req[r].session
        ended == End(SessionsOf(u) \ {own})
    IN
    /\ req[r].pc = "change"
    /\ NewPassword(u)
    /\ sessions' = [ended EXCEPT ![own].password = latest[u] + 1]
    /\ Reply(r)
    /\ UNCHANGED <<accounts, status, archived, devices, licensed>>

\* issueOfflineLicense for a video the student has access to.
IssueLicence(r) ==
    /\ req[r].pc = "issue"
    /\ licensed' = licensed \cup {req[r].device}
    /\ Reply(r)
    /\ UNCHANGED <<accounts, status, archived, password, oldHash, latest, devices, sessions>>

(***************************************************************************)
(* What staff do.  They read the row first and stop when there is nothing  *)
(* to do.                                                                  *)
(***************************************************************************)
CreateAccount(u) ==
    /\ u \in Users \ accounts
    /\ accounts' = accounts \cup {u}
    /\ UNCHANGED <<status, archived, password, oldHash, latest, devices, sessions, licensed, req, overlapped>>

LoadAccount(r, u) ==
    /\ u \in accounts
    /\ \E pc \in {"disable", "enable", "archive", "restore", "reset"} :
          /\ pc = "disable" => status[u] = "ACTIVE"
          /\ pc = "enable"  => status[u] = "DISABLED"
          /\ pc = "archive" => u \notin archived
          /\ pc = "restore" => u \in archived
          /\ Begin(r, u, [Idle EXCEPT !.pc = pc, !.user = u])
    /\ UNCHANGED rows

\* Mutant: disabling leaves the sessions alone.
SetAccountStatusOnly(r) ==
    LET u == req[r].user IN
    /\ \/ req[r].pc = "disable" /\ status' = [status EXCEPT ![u] = "DISABLED"]
       \/ req[r].pc = "enable"  /\ status' = [status EXCEPT ![u] = "ACTIVE"]
    /\ Reply(r)
    /\ UNCHANGED <<accounts, archived, password, oldHash, latest, devices, sessions, licensed>>

SetAccountStatus(r) ==
    LET u == req[r].user IN
    /\ \/ /\ req[r].pc = "disable"
          /\ status' = [status EXCEPT ![u] = "DISABLED"]
          /\ sessions' = End(SessionsOf(u))
       \/ /\ req[r].pc = "enable"
          /\ status' = [status EXCEPT ![u] = "ACTIVE"]
          /\ UNCHANGED sessions
    /\ Reply(r)
    /\ UNCHANGED <<accounts, archived, password, oldHash, latest, devices, licensed>>

SetAccountArchived(r) ==
    LET u == req[r].user IN
    /\ \/ /\ req[r].pc = "archive"
          /\ archived' = archived \cup {u}
          /\ sessions' = End(SessionsOf(u))
       \/ /\ req[r].pc = "restore"
          /\ archived' = archived \ {u}
          /\ UNCHANGED sessions
    /\ Reply(r)
    /\ UNCHANGED <<accounts, status, password, oldHash, latest, devices, licensed>>

\* Mutant: the sessions go on with the new password.
ResetAccountPasswordOnly(r) ==
    /\ req[r].pc = "reset"
    /\ NewPassword(req[r].user)
    /\ Reply(r)
    /\ UNCHANGED <<accounts, status, archived, devices, sessions, licensed>>

ResetAccountPassword(r) ==
    /\ req[r].pc = "reset"
    /\ NewPassword(req[r].user)
    /\ sessions' = End(SessionsOf(req[r].user))
    /\ Reply(r)
    /\ UNCHANGED <<accounts, status, archived, devices, licensed>>

LoadDevice(r, d) ==
    /\ devices[d].status = "ACTIVE"
    /\ Begin(r, devices[d].student,
             [Idle EXCEPT !.pc = "resetDevice", !.user = devices[d].student, !.device = d])
    /\ UNCHANGED rows

\* Mutant: the licences are left alone.
ResetDeviceOnly(r) ==
    LET d == req[r].device IN
    /\ req[r].pc = "resetDevice"
    /\ devices' = [devices EXCEPT ![d].status = "RESET"]
    /\ sessions' = End(SessionsOn(d))
    /\ Reply(r)
    /\ UNCHANGED <<accounts, status, archived, password, oldHash, latest, licensed>>

ResetDevice(r) ==
    LET d == req[r].device IN
    /\ req[r].pc = "resetDevice"
    /\ devices' = [devices EXCEPT ![d].status = "RESET"]
    /\ sessions' = End(SessionsOn(d))
    /\ licensed' = licensed \ {d}
    /\ Reply(r)
    /\ UNCHANGED <<accounts, status, archived, password, oldHash, latest>>

(***************************************************************************)
(* A session reaches its age, or a rotated refresh token of it comes back; *)
(* licences expire or are given up; a request fails, and what it began is  *)
(* rolled back.                                                            *)
(***************************************************************************)
SessionEnds(s) ==
    /\ sessions[s].state = "live"
    /\ sessions' = End({s})
    /\ UNCHANGED <<accounts, status, archived, password, oldHash, latest, devices, licensed, req, overlapped>>

LicenceEnds(d) ==
    /\ d \in licensed
    /\ licensed' = licensed \ {d}
    /\ UNCHANGED <<accounts, status, archived, password, oldHash, latest, devices, sessions, req, overlapped>>

RequestFails(r) == req[r].pc \notin {"idle", "rejected"} /\ Reply(r) /\ UNCHANGED rows

Next ==
    \/ \E r \in Requests :
          \/ \E u \in Users, phone \in Phones \cup {NoPhone} : Login(r, u, phone)
          \/ Rehash(r) \/ Bind(r) \/ OpenSession(r) \/ Rejected(r)
          \/ \E s \in SessionIds : Authenticate(r, s)
          \/ Logout(r) \/ VerifyPassword(r) \/ ChangePassword(r) \/ IssueLicence(r)
          \/ \E u \in Users : LoadAccount(r, u)
          \/ SetAccountStatus(r) \/ SetAccountArchived(r) \/ ResetAccountPassword(r)
          \/ \E d \in DeviceIds : LoadDevice(r, d)
          \/ ResetDevice(r) \/ RequestFails(r)
    \/ \E u \in Users : CreateAccount(u) \/ \E phone \in Phones : RegisterStudent(u, phone)
    \/ \E s \in SessionIds : SessionEnds(s)
    \/ \E d \in DeviceIds : LicenceEnds(d)

Spec == Init /\ [][Next]_vars

(***************************************************************************)
(* Properties.                                                             *)
(***************************************************************************)
Passwords == 1 .. MaxPasswords

DeviceType  == {NoDevice} \cup
    [student : Students, phone : Phones, status : {"ACTIVE", "RESET"}]
SessionType == {NoSession} \cup
    [user : Students, device : DeviceIds, state : {"live", "ended"}, password : Passwords] \cup
    [user : Staff, device : {0}, state : {"live", "ended"}, password : Passwords]
RequestType ==
    [pc : {"idle", "rehash", "bind", "open", "rejected", "logout", "verify", "change", "issue",
           "disable", "enable", "archive", "restore", "reset", "resetDevice"},
     user : Users \cup {NoUser}, password : {0} \cup Passwords, phone : Phones \cup {NoPhone},
     device : {0} \cup DeviceIds, session : {0} \cup SessionIds]

\* The values every variable may take; in particular a session of a student has a device
\* and one of staff has none.
TypeOK ==
    /\ accounts \in SUBSET Users
    /\ status \in [Users -> {"ACTIVE", "DISABLED"}]
    /\ archived \in SUBSET Users
    /\ password \in [Users -> Passwords]
    /\ oldHash \in SUBSET Users
    /\ latest \in [Users -> Passwords]
    /\ devices \in [DeviceIds -> DeviceType]
    /\ sessions \in [SessionIds -> SessionType]
    /\ licensed \in SUBSET DeviceIds
    /\ req \in [Requests -> RequestType]
    /\ overlapped \in SUBSET Users

\* "One account, one device": whatever logins, registrations and resets run side by side,
\* two sessions of a student that both work are on one device, the only active one.
OneDevicePerStudent ==
    /\ \A u \in Students : \A d, e \in ActiveDevices(u) : d = e
    /\ \A s, t \in SessionIds :
          Live(s) /\ Live(t) /\ sessions[s].user = sessions[t].user /\ sessions[s].user \in Students
             => sessions[s].device = sessions[t].device

\* Whoever is logged in has shown the password the account has now: a change ends "all
\* other sessions of the account", a reset by staff "all sessions".
SessionsKnowPassword ==
    \A s \in SessionIds : sessions[s].state = "live" =>
        sessions[s].password = latest[sessions[s].user]

\* That, and the account has the password that was set last, as long as no two requests of
\* the account overlap.
PasswordRules ==
    /\ \A s \in SessionIds : sessions[s].state = "live" /\ sessions[s].user \notin overlapped =>
          sessions[s].password = latest[sessions[s].user]
    /\ \A u \in Users \ overlapped : password[u] = latest[u]

\* A disabled or archived account has no session left that would work again once it is
\* enabled or restored ("ends all sessions"), unless requests overlapped.
ClosedAccountIsOut ==
    \A s \in SessionIds : sessions[s].state = "live" /\ sessions[s].user \notin overlapped =>
        status[sessions[s].user] = "ACTIVE" /\ sessions[s].user \notin archived

\* A device that was reset has neither sessions nor licences left ("revokes its sessions
\* and offline licenses"), unless requests of its student overlapped.
ResetDeviceIsClean ==
    \A d \in DeviceIds : devices[d].status = "RESET" /\ devices[d].student \notin overlapped =>
        d \notin licensed /\ \A s \in SessionsOn(d) : sessions[s].state # "live"

\* A login is refused with DEVICE_ALREADY_BOUND only "when the account is bound to a
\* different device".
RejectedForOtherDevice ==
    [][\A r \in Requests : req[r].pc # "rejected" /\ req'[r].pc = "rejected" =>
          \E d \in ActiveDevices(req[r].user) : devices[d].phone # req[r].phone]_vars

\* The same of a login that no other request of the student overlaps.
RejectedAloneForOtherDevice ==
    [][\A r \in Requests :
          req[r].pc # "rejected" /\ req'[r].pc = "rejected" /\ req[r].user \notin overlapped =>
          \E d \in ActiveDevices(req[r].user) : devices[d].phone # req[r].phone]_vars

============================================================================
