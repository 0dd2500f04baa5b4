------------------------- MODULE AuthSessionsProofs -------------------------
(***************************************************************************)
(* What holds of AuthSessions for any accounts, phones and requests, and   *)
(* any bounds on rows: the types, one device per student, and what becomes *)
(* of the sessions of an account whose requests did not overlap; and of    *)
(* RefreshTokens, whose theorems are the last part.                        *)
(***************************************************************************)
EXTENDS AuthSessions, RefreshTokens, TLAPS

LoginSteps == {"rehash", "bind", "open", "rejected"}
OwnSteps   == {"logout", "verify", "change", "issue"}
StaffSteps == {"disable", "enable", "archive", "restore", "reset"}

\* What a request in flight has read still exists: rows are never removed, and a device
\* keeps its student.
RefIn(q, dev, ses) ==
    /\ q.pc \in LoginSteps => q.user \in Users /\ q.password \in Passwords
    /\ q.pc \in LoginSteps /\ q.user \in Students => q.phone \in Phones
    /\ q.pc \in {"bind", "rejected"} => q.user \in Students
    /\ q.pc \in {"rehash", "bind"} => q.device = 0
    /\ q.pc = "open" /\ q.device # 0 =>
           q.user \in Students /\ q.device \in DeviceIds /\ dev[q.device].student = q.user
    /\ q.pc \in OwnSteps =>
           q.user \in Users /\ q.session \in SessionIds /\ ses[q.session].state # "unused"
    /\ q.pc = "issue" => q.device \in DeviceIds
    /\ q.pc \in StaffSteps => q.user \in Users
    /\ q.pc = "resetDevice" => q.device \in DeviceIds /\ dev[q.device].status # "unused"

RequestRefs == \A r \in Requests : RefIn(req[r], devices, sessions)

\* A session is on a device of its own student.
OwnedDevices ==
    \A s \in SessionIds : sessions[s].user \in Students =>
        devices[sessions[s].device].student = sessions[s].user

OneActive == \A u \in Students : \A d, e \in ActiveDevices(u) : d = e

IInv == TypeOK /\ RequestRefs /\ OwnedDevices /\ OneActive

(***************************************************************************)
(* How rows change: ids are given once, and devices keep their student.    *)
(***************************************************************************)
DevicesKept ==
    \A d \in DeviceIds : devices[d].status # "unused" =>
        devices'[d].status # "unused" /\ devices'[d].student = devices[d].student

SessionsKept ==
    \A s \in SessionIds : sessions[s].state # "unused" =>
        /\ sessions'[s].state # "unused"
        /\ sessions'[s].user = sessions[s].user /\ sessions'[s].device = sessions[s].device

LEMMA UsedDevice ==
    ASSUME TypeOK, NEW d \in DeviceIds, devices[d].student \in Students
    PROVE  devices[d].status # "unused"
BY UsersAssumption DEF TypeOK, DeviceType, NoDevice, Users

\* A request that does nothing in a step still has what it has read.
LEMMA RefKept ==
    ASSUME TypeOK, DevicesKept, SessionsKept, NEW q \in RequestType, RefIn(q, devices, sessions)
    PROVE  RefIn(q, devices', sessions')
<1>1. q.pc = "open" /\ q.device # 0 => devices'[q.device].student = q.user
  BY UsedDevice DEF RefIn, DevicesKept
<1>2. q.pc = "resetDevice" => devices'[q.device].status # "unused"
  BY DEF RefIn, DevicesKept
<1>3. q.pc \in OwnSteps => sessions'[q.session].state # "unused"
  BY DEF RefIn, SessionsKept
<1>4. QED
  BY <1>1, <1>2, <1>3 DEF RefIn

\* A step of one request.
LEMMA RefsKept ==
    ASSUME TypeOK, RequestRefs, DevicesKept, SessionsKept, NEW r \in Requests,
           NEW q \in RequestType, RefIn(q, devices', sessions'), req' = [req EXCEPT ![r] = q]
    PROVE  RequestRefs' /\ req' \in [Requests -> RequestType]
<1>1. req \in [Requests -> RequestType]
  BY DEF TypeOK
<1>2. ASSUME NEW x \in Requests PROVE RefIn(req'[x], devices', sessions')
  <2>1. CASE x = r
    <3>1. req'[x] = q
      BY <1>1, <2>1
    <3>2. QED
      BY <3>1
  <2>2. CASE x # r
    <3>1. req'[x] = req[x] /\ req[x] \in RequestType /\ RefIn(req[x], devices, sessions)
      BY <1>1, <2>2 DEF RequestRefs
    <3>2. QED
      BY <3>1, RefKept
  <2>3. QED
    BY <2>1, <2>2
<1>3. QED
  BY <1>1, <1>2 DEF RequestRefs

LEMMA UsedSession ==
    ASSUME TypeOK, NEW s \in SessionIds, sessions[s].state # "unused"
    PROVE  /\ sessions[s].user \in Users /\ sessions[s].device \in {0} \cup DeviceIds
           /\ \A p \in Passwords :
                 /\ [sessions[s] EXCEPT !.password = p] \in SessionType
                 /\ [sessions[s] EXCEPT !.password = p].user = sessions[s].user
                 /\ [sessions[s] EXCEPT !.password = p].device = sessions[s].device
                 /\ [sessions[s] EXCEPT !.password = p].state = sessions[s].state
<1>1. sessions[s] \in SessionType /\ sessions[s] # NoSession
  BY DEF TypeOK, NoSession
<1>2. CASE sessions[s] \in [user : Students, device : DeviceIds, state : {"live", "ended"},
                           password : Passwords]
  BY <1>2 DEF SessionType, Users
<1>3. CASE sessions[s] \in [user : Staff, device : {0}, state : {"live", "ended"},
                           password : Passwords]
  BY <1>3 DEF SessionType, Users
<1>4. QED
  BY <1>1, <1>2, <1>3 DEF SessionType

LEMMA EndHolds ==
    ASSUME TypeOK, NEW S
    PROVE  /\ End(S) \in [SessionIds -> SessionType]
           /\ \A s \in SessionIds :
                 /\ End(S)[s].user = sessions[s].user /\ End(S)[s].device = sessions[s].device
                 /\ End(S)[s].state = "unused" <=> sessions[s].state = "unused"
<1>1. ASSUME NEW s \in SessionIds
      PROVE  /\ End(S)[s] \in SessionType
             /\ End(S)[s].user = sessions[s].user /\ End(S)[s].device = sessions[s].device
             /\ End(S)[s].state = "unused" <=> sessions[s].state = "unused"
  <2>1. sessions[s] \in SessionType
    BY DEF TypeOK
  <2>2. CASE sessions[s].state = "live"
    <3>1. [sessions[s] EXCEPT !.state = "ended"] \in SessionType
      BY <2>1, <2>2 DEF SessionType, NoSession
    <3>2. /\ [sessions[s] EXCEPT !.state = "ended"].user = sessions[s].user
          /\ [sessions[s] EXCEPT !.state = "ended"].device = sessions[s].device
          /\ [sessions[s] EXCEPT !.state = "ended"].state = "ended"
      BY <2>1, <2>2 DEF SessionType, NoSession
    <3>3. End(S)[s] = sessions[s] \/ End(S)[s] = [sessions[s] EXCEPT !.state = "ended"]
      BY DEF End
    <3>4. QED
      BY <2>1, <2>2, <3>1, <3>2, <3>3
  <2>3. CASE sessions[s].state # "live"
    <3>1. End(S)[s] = sessions[s]
      BY <2>3 DEF End
    <3>2. QED
      BY <2>1, <3>1
  <2>4. QED
    BY <2>2, <2>3
<1>2. End(S) = [s \in SessionIds |-> End(S)[s]]
  BY DEF End
<1>3. QED
  BY <1>1, <1>2

\* No two active devices of a student come from two that were not both active.
LEMMA ActiveKept ==
    ASSUME OneActive,
           \A d \in DeviceIds : devices'[d].status = "ACTIVE" =>
               devices[d].status = "ACTIVE" /\ devices[d].student = devices'[d].student
    PROVE  OneActive'
BY DEF OneActive, ActiveDevices

\* Sessions that do not move stay on a device of their student.
LEMMA OwnedKept ==
    ASSUME TypeOK, OwnedDevices, DevicesKept,
           sessions' \in [SessionIds -> SessionType],
           \A s \in SessionIds :
               \/ sessions'[s].user = sessions[s].user /\ sessions'[s].device = sessions[s].device
               \/ sessions'[s].user \in Students =>
                     devices'[sessions'[s].device].student = sessions'[s].user
    PROVE  OwnedDevices'
<1>1. ASSUME NEW s \in SessionIds, sessions[s].user \in Students
      PROVE  sessions[s].device \in DeviceIds
  BY <1>1, UsersAssumption DEF TypeOK, SessionType, NoSession, Users
<1>2. QED
  BY <1>1, UsedDevice DEF OwnedDevices, DevicesKept

LEMMA CreateHolds ==
    ASSUME TypeOK, NEW u, NEW d, NEW p \in Passwords, CreateSession(u, d, p),
           \/ u \in Students /\ d \in DeviceIds
           \/ u \in Staff /\ d = 0
    PROVE  /\ sessions' \in [SessionIds -> SessionType]
           /\ SessionsKept
           /\ \A s \in SessionIds : sessions'[s] # sessions[s] =>
                 sessions'[s].user = u /\ sessions'[s].device = d
<1> DEFINE new == [user |-> u, device |-> d, state |-> "live", password |-> p]
<1>1. PICK s \in SessionIds : NextSession(s) /\ sessions' = [sessions EXCEPT ![s] = new]
  BY DEF CreateSession
<1>2. new \in SessionType
  BY DEF SessionType
<1>3. sessions \in [SessionIds -> SessionType] /\ sessions[s].state = "unused"
  BY <1>1 DEF TypeOK, NextSession
<1>4. new.user = u /\ new.device = d /\ new.state = "live"
  OBVIOUS
<1>5. sessions'[s] = new /\ \A t \in SessionIds \ {s} : sessions'[t] = sessions[t]
  BY <1>1, <1>3
<1>6. sessions' \in [SessionIds -> SessionType]
  BY <1>1, <1>2, <1>3
<1>7. SessionsKept
  BY <1>3, <1>5, Zenon DEF SessionsKept
<1>8. QED
  BY <1>4, <1>5, <1>6, <1>7

LEMMA BindHolds ==
    ASSUME TypeOK, OneActive, NEW u \in Students, ActiveDevices(u) = {}, NEW phone \in Phones,
           NEW d \in DeviceIds, NextDevice(d),
           devices' = [devices EXCEPT ![d] =
               [student |-> u, phone |-> phone, status |-> "ACTIVE"]]
    PROVE  /\ devices' \in [DeviceIds -> DeviceType]
           /\ DevicesKept /\ OneActive'
           /\ devices'[d].student = u
<1> DEFINE new == [student |-> u, phone |-> phone, status |-> "ACTIVE"]
<1>1. new \in DeviceType
  BY DEF DeviceType
<1>2. devices \in [DeviceIds -> DeviceType] /\ devices[d].status = "unused"
  BY DEF TypeOK, NextDevice
<1>3. devices'[d] = new /\ \A e \in DeviceIds \ {d} : devices'[e] = devices[e]
  BY <1>2
<1>4. devices' \in [DeviceIds -> DeviceType] /\ DevicesKept
  BY <1>1, <1>2, <1>3 DEF DevicesKept
<1>5. ASSUME NEW v \in Students, NEW e \in ActiveDevices(v)', NEW f \in ActiveDevices(v)'
      PROVE  e = f
  <2>1. CASE v = u
    BY <1>3, <1>5, <2>1 DEF ActiveDevices
  <2>2. CASE v # u
    <3>1. e \in ActiveDevices(v) /\ f \in ActiveDevices(v)
      BY <1>3, <1>5, <2>2 DEF ActiveDevices
    <3>2. QED
      BY <3>1 DEF OneActive
  <2>3. QED
    BY <2>1, <2>2
<1>6. QED
  BY <1>3, <1>4, <1>5 DEF OneActive

LEMMA IdleHolds ==
    /\ Idle \in RequestType
    /\ \A dev, ses : RefIn(Idle, dev, ses)
BY DEF Idle, RequestType, RefIn, LoginSteps, OwnSteps, StaffSteps

\* A step that reads.
LEMMA ReadHolds ==
    ASSUME IInv, UNCHANGED rows, NEW r \in Requests,
           NEW q \in RequestType, RefIn(q, devices, sessions), req' = [req EXCEPT ![r] = q],
           overlapped' = overlapped \/ overlapped' \in SUBSET Users
    PROVE  IInv'
<1>1. DevicesKept /\ SessionsKept
  BY DEF DevicesKept, SessionsKept, rows
<1>2. RequestRefs' /\ req' \in [Requests -> RequestType]
  BY <1>1, RefsKept DEF IInv, rows
<1>3. QED
  BY <1>2 DEF IInv, TypeOK, OwnedDevices, OneActive, ActiveDevices, rows

LEMMA BeginHolds ==
    ASSUME IInv, UNCHANGED rows, NEW r \in Requests, NEW u \in Users,
           NEW q \in RequestType, RefIn(q, devices, sessions), Begin(r, u, q)
    PROVE  IInv'
<1>1. overlapped' \in SUBSET Users
  BY DEF Begin, IInv, TypeOK
<1>2. req' = [req EXCEPT ![r] = q]
  BY DEF Begin
<1>3. QED
  BY <1>1, <1>2, ReadHolds

\* A step that changes accounts or ends sessions, and answers.
LEMMA EndingHolds ==
    ASSUME IInv, NEW r \in Requests, Reply(r), UNCHANGED devices,
           sessions' \in [SessionIds -> SessionType],
           \A s \in SessionIds :
               /\ sessions'[s].user = sessions[s].user /\ sessions'[s].device = sessions[s].device
               /\ sessions'[s].state = "unused" <=> sessions[s].state = "unused"
    PROVE  RequestRefs' /\ req' \in [Requests -> RequestType] /\ OwnedDevices' /\ OneActive'
<1>1. DevicesKept /\ SessionsKept
  BY DEF DevicesKept, SessionsKept
<1>2. RefIn(Idle, devices', sessions') /\ Idle \in RequestType
  BY IdleHolds
<1>3. RequestRefs' /\ req' \in [Requests -> RequestType]
  BY <1>1, <1>2, RefsKept DEF IInv, Reply
<1>4. OwnedDevices'
  BY <1>1, OwnedKept DEF IInv
<1>5. OneActive'
  BY DEF IInv, OneActive, ActiveDevices
<1>6. QED
  BY <1>3, <1>4, <1>5

(***************************************************************************)
(* The inductive invariant.                                                *)
(***************************************************************************)
LEMMA IInvInit == Init => IInv
<1> SUFFICES ASSUME Init PROVE IInv
  OBVIOUS
<1>1. NoDevice \in DeviceType /\ NoSession \in SessionType
  BY DEF DeviceType, SessionType
<1>2. 1 \in Passwords
  BY BoundsAssumption DEF Passwords
<1>3. TypeOK
  BY <1>1, <1>2, IdleHolds DEF Init, TypeOK
<1>4. RequestRefs
  BY IdleHolds DEF Init, RequestRefs
<1>5. OwnedDevices
  BY UsersAssumption DEF Init, OwnedDevices, NoSession, Users
<1>6. OneActive
  BY DEF Init, OneActive, ActiveDevices, NoDevice
<1>7. QED
  BY <1>3, <1>4, <1>5, <1>6 DEF IInv

LEMMA NewPasswordHolds ==
    ASSUME TypeOK, NEW u \in Users, NewPassword(u)
    PROVE  /\ latest' \in [Users -> Passwords] /\ password' \in [Users -> Passwords]
           /\ oldHash' \in SUBSET Users
           /\ latest[u] + 1 \in Passwords
<1>1. latest[u] + 1 \in Passwords
  BY BoundsAssumption DEF TypeOK, NewPassword, Passwords
<1>2. QED
  BY <1>1 DEF TypeOK, NewPassword

LEMMA LoginStep ==
    ASSUME IInv, NEW r \in Requests,
           \/ \E u \in Users, phone \in Phones \cup {NoPhone} : Login(r, u, phone)
           \/ Rehash(r) \/ Bind(r) \/ OpenSession(r) \/ Rejected(r)
    PROVE  IInv'
<1> USE DEF IInv
<1>0. req[r] \in RequestType /\ RefIn(req[r], devices, sessions) /\ req \in [Requests -> RequestType]
  BY DEF TypeOK, RequestRefs
<1>1. ASSUME NEW u \in Users, NEW phone \in Phones \cup {NoPhone}, Login(r, u, phone)
      PROVE  IInv'
  <2> DEFINE pc == IF u \in oldHash THEN "rehash" ELSE IF u \in Staff THEN "open" ELSE "bind"
             q == [Idle EXCEPT !.pc = pc, !.user = u, !.password = password[u], !.phone = phone]
  <2>1. password[u] \in Passwords /\ (u \in Students => phone \in Phones)
    BY <1>1, UsersAssumption DEF TypeOK, Login
  <2>2. q \in RequestType
    BY <2>1 DEF RequestType, Idle
  <2>3. RefIn(q, devices, sessions)
    BY <2>1 DEF RefIn, Idle, LoginSteps, OwnSteps, StaffSteps, Users
  <2>4. QED
    BY <1>1, <2>2, <2>3, BeginHolds DEF Login
<1>2. CASE Rehash(r)
  <2> DEFINE u == req[r].user
             q == [req[r] EXCEPT !.pc = IF u \in Staff THEN "open" ELSE "bind"]
  <2>1. u \in Users /\ req[r].password \in Passwords
    BY <1>0, <1>2 DEF Rehash, RefIn, LoginSteps
  <2>2. q \in RequestType
    BY <1>0 DEF RequestType
  <2>3. RefIn(q, devices, sessions)
    BY <1>0, <1>2, <2>1 DEF RefIn, RequestType, Rehash, LoginSteps, OwnSteps, StaffSteps, Users
  <2>4. DevicesKept /\ SessionsKept
    BY <1>2 DEF Rehash, DevicesKept, SessionsKept
  <2>5. RequestRefs' /\ req' \in [Requests -> RequestType]
    BY <1>2, <2>2, <2>3, <2>4, RefsKept DEF Rehash, Goto
  <2>6. TypeOK'
    BY <1>2, <2>1, <2>5 DEF TypeOK, Rehash, Goto
  <2>7. QED
    BY <1>2, <2>5, <2>6 DEF Rehash, OwnedDevices, OneActive, ActiveDevices
<1>3. CASE Bind(r)
  <2> DEFINE open == [req[r] EXCEPT !.pc = "open"]
             rejected == [req[r] EXCEPT !.pc = "rejected"]
  <2>1. req[r].pc = "bind" /\ req[r].user \in Students /\ UNCHANGED <<rows, overlapped>>
    BY <1>0, <1>3 DEF Bind, RefIn, Goto
  <2>2. open \in RequestType /\ RefIn(open, devices, sessions)
    BY <1>0, <2>1 DEF RequestType, RefIn, LoginSteps, OwnSteps, StaffSteps
  <2>3. rejected \in RequestType /\ RefIn(rejected, devices, sessions)
    BY <1>0, <2>1 DEF RequestType, RefIn, LoginSteps, OwnSteps, StaffSteps
  <2>4. CASE req' = [req EXCEPT ![r] = open]
    BY <2>1, <2>2, <2>4, ReadHolds
  <2>5. CASE req' = [req EXCEPT ![r] = rejected]
    BY <2>1, <2>3, <2>5, ReadHolds
  <2>6. ASSUME NEW d \in ActiveDevices(req[r].user),
               req' = [req EXCEPT ![r].pc = "open", ![r].device = d]
        PROVE  IInv'
    <3> DEFINE q == [req[r] EXCEPT !.pc = "open", !.device = d]
    <3>1. d \in DeviceIds /\ devices[d].student = req[r].user
      BY DEF ActiveDevices
    <3>2. q \in RequestType /\ RefIn(q, devices, sessions)
      BY <1>0, <2>1, <3>1 DEF RequestType, RefIn, LoginSteps, OwnSteps, StaffSteps
    <3>3. req' = [req EXCEPT ![r] = q]
      BY <1>0, <2>6
    <3>4. QED
      BY <2>1, <3>2, <3>3, ReadHolds
  <2>7. QED
    BY <1>3, <2>4, <2>5, <2>6 DEF Bind, Goto
<1>4. CASE OpenSession(r)
  <2> DEFINE u == req[r].user
             p == req[r].password
  <2>1. u \in Users /\ p \in Passwords /\ (u \in Students => req[r].phone \in Phones)
    BY <1>0, <1>4 DEF OpenSession, RefIn, LoginSteps
  <2>2. Idle \in RequestType /\ RefIn(Idle, devices', sessions')
    BY IdleHolds
  <2>3. CASE /\ u \in Staff \/ req[r].device # 0
             /\ CreateSession(u, req[r].device, p) /\ Reply(r) /\ UNCHANGED devices
    <3>1. \/ u \in Students /\ req[r].device \in DeviceIds /\ devices[req[r].device].student = u
          \/ u \in Staff /\ req[r].device = 0
      BY <1>0, <1>4, <2>1, <2>3, UsersAssumption DEF OpenSession, RefIn, RequestType, Users
    <3>2. /\ sessions' \in [SessionIds -> SessionType]
          /\ SessionsKept
          /\ \A s \in SessionIds : sessions'[s] # sessions[s] =>
                 sessions'[s].user = u /\ sessions'[s].device = req[r].device
      BY <2>1, <2>3, <3>1, CreateHolds
    <3>3. DevicesKept
      BY <2>3 DEF DevicesKept
    <3>4. RequestRefs' /\ req' \in [Requests -> RequestType]
      BY <2>2, <2>3, <3>2, <3>3, RefsKept DEF Reply
    <3>5. OwnedDevices'
      BY <2>3, <3>1, <3>2, <3>3, OwnedKept, UsersAssumption
    <3>6. TypeOK'
      BY <1>4, <2>3, <3>2, <3>4 DEF TypeOK, OpenSession, Reply
    <3>7. QED
      BY <2>3, <3>4, <3>5, <3>6 DEF OneActive, ActiveDevices
  <2>4. ASSUME u \in Students, ActiveDevices(u) = {}, Reply(r),
               NEW d \in DeviceIds, NextDevice(d),
               devices' = [devices EXCEPT ![d] =
                   [student |-> u, phone |-> req[r].phone, status |-> "ACTIVE"]],
               CreateSession(u, d, p)
        PROVE  IInv'
    <3>1. /\ devices' \in [DeviceIds -> DeviceType]
          /\ DevicesKept /\ OneActive' /\ devices'[d].student = u
      BY <2>1, <2>4, BindHolds
    <3>2. /\ sessions' \in [SessionIds -> SessionType]
          /\ SessionsKept
          /\ \A s \in SessionIds : sessions'[s] # sessions[s] =>
                 sessions'[s].user = u /\ sessions'[s].device = d
      BY <2>1, <2>4, CreateHolds
    <3>3. RequestRefs' /\ req' \in [Requests -> RequestType]
      BY <2>2, <2>4, <3>1, <3>2, RefsKept DEF Reply
    <3>4. OwnedDevices'
      BY <3>1, <3>2, OwnedKept
    <3>5. UNCHANGED <<accounts, status, archived, password, oldHash, latest, licensed, overlapped>>
      BY <1>4, <2>4 DEF OpenSession, Reply
    <3>6. TypeOK'
      BY <3>1, <3>2, <3>3, <3>5 DEF TypeOK
    <3>7. QED
      BY <3>1, <3>3, <3>4, <3>6
  <2>5. CASE u \in Students /\ Goto(r, "rejected") /\ UNCHANGED <<devices, sessions>>
    <3> DEFINE q == [req[r] EXCEPT !.pc = "rejected"]
    <3>1. UNCHANGED rows
      BY <1>4, <2>5 DEF OpenSession, rows
    <3>2. q \in RequestType /\ RefIn(q, devices, sessions)
      BY <1>0, <1>4, <2>5 DEF OpenSession, RequestType, RefIn, LoginSteps, OwnSteps, StaffSteps
    <3>3. QED
      BY <2>5, <3>1, <3>2, ReadHolds DEF Goto
  <2>6. QED
    BY <1>4, <2>3, <2>4, <2>5 DEF OpenSession
<1>5. CASE Rejected(r)
  BY <1>5, IdleHolds, ReadHolds DEF Rejected, Reply
<1>6. QED
  BY <1>1, <1>2, <1>3, <1>4, <1>5

LEMMA OwnStep ==
    ASSUME IInv, NEW r \in Requests,
           \/ \E s \in SessionIds : Authenticate(r, s)
           \/ Logout(r) \/ VerifyPassword(r) \/ ChangePassword(r) \/ IssueLicence(r)
    PROVE  IInv'
<1> USE DEF IInv
<1>0. req[r] \in RequestType /\ RefIn(req[r], devices, sessions) /\ req \in [Requests -> RequestType]
  BY DEF TypeOK, RequestRefs
<1>1. ASSUME NEW s \in SessionIds, Authenticate(r, s) PROVE IInv'
  <2>1. PICK pc \in {"logout", "verify", "issue"} :
           /\ pc = "issue" => sessions[s].device # 0
           /\ Begin(r, sessions[s].user, [Idle EXCEPT !.pc = pc, !.user = sessions[s].user,
                                  !.session = s, !.device = sessions[s].device])
    BY <1>1 DEF Authenticate
  <2> DEFINE q == [Idle EXCEPT !.pc = pc, !.user = sessions[s].user,
                               !.session = s, !.device = sessions[s].device]
  <2>2. /\ sessions[s].user \in Users /\ sessions[s].state = "live"
        /\ sessions[s].device \in {0} \cup DeviceIds
    BY <1>1, UsedSession DEF Authenticate, Live
  <2>3. q \in RequestType
    BY <2>2 DEF RequestType, Idle
  <2>4. RefIn(q, devices, sessions)
    BY <2>1, <2>2 DEF RefIn, Idle, LoginSteps, OwnSteps, StaffSteps
  <2>5. QED
    BY <1>1, <2>1, <2>2, <2>3, <2>4, BeginHolds DEF Authenticate
<1>2. CASE Logout(r)
  <2>1. RequestRefs' /\ req' \in [Requests -> RequestType] /\ OwnedDevices' /\ OneActive'
    BY <1>2, EndHolds, EndingHolds DEF Logout
  <2>2. sessions' \in [SessionIds -> SessionType]
    BY <1>2, EndHolds DEF Logout
  <2>3. QED
    BY <1>2, <2>1, <2>2 DEF Logout, TypeOK, Reply
<1>3. CASE VerifyPassword(r)
  <2> DEFINE q == [req[r] EXCEPT !.pc = "change"]
  <2>1. req[r].pc = "verify" /\ req[r].user \in Users
    BY <1>0, <1>3 DEF VerifyPassword, RefIn, OwnSteps
  <2>2. q \in RequestType
    BY <1>0, <2>1 DEF RequestType, TypeOK
  <2>3. RefIn(q, devices, sessions)
    BY <1>0, <2>1 DEF RequestType, RefIn, LoginSteps, OwnSteps, StaffSteps
  <2>4. req' = [req EXCEPT ![r] = q]
    BY <1>0, <1>3 DEF VerifyPassword, Goto
  <2>5. QED
    BY <1>3, <2>2, <2>3, <2>4, ReadHolds DEF VerifyPassword, Goto
<1>4. CASE ChangePassword(r)
  <2> DEFINE u == req[r].user
             own == req[r].session
             ended == End(SessionsOf(u) \ {own})
             kept == [ended[own] EXCEPT !.password = latest[u] + 1]
  <2>1. u \in Users /\ own \in SessionIds /\ sessions[own].state # "unused"
    BY <1>0, <1>4 DEF ChangePassword, RefIn, OwnSteps
  <2>2. /\ latest' \in [Users -> Passwords] /\ password' \in [Users -> Passwords]
        /\ oldHash' \in SUBSET Users
        /\ latest[u] + 1 \in Passwords
    BY <1>4, <2>1, NewPasswordHolds DEF ChangePassword
  <2>3. /\ ended \in [SessionIds -> SessionType]
        /\ \A s \in SessionIds :
              /\ ended[s].user = sessions[s].user /\ ended[s].device = sessions[s].device
              /\ ended[s].state = "unused" <=> sessions[s].state = "unused"
    BY EndHolds
  <2>4. sessions' = [ended EXCEPT ![own] = kept]
    BY <1>4, <2>3 DEF ChangePassword
  <2>5. /\ kept \in SessionType
        /\ kept.user = sessions[own].user /\ kept.device = sessions[own].device
        /\ kept.state = sessions[own].state
    <3>1. ended[own] = sessions[own]
      BY <2>1 DEF End
    <3>2. kept = [sessions[own] EXCEPT !.password = latest[u] + 1]
      BY <3>1
    <3>3. QED
      <4> HIDE DEF kept
      <4> QED BY <2>1, <2>2, <3>2, UsedSession
  <2>6. /\ sessions' \in [SessionIds -> SessionType]
        /\ \A s \in SessionIds :
              /\ sessions'[s].user = sessions[s].user /\ sessions'[s].device = sessions[s].device
              /\ sessions'[s].state = "unused" <=> sessions[s].state = "unused"
    <3>1. sessions'[own] = kept
      BY <2>1, <2>3, <2>4
    <3>2. \A s \in SessionIds \ {own} : sessions'[s] = ended[s]
      BY <2>1, <2>3, <2>4
    <3>3. sessions' \in [SessionIds -> SessionType]
      BY <2>1, <2>3, <2>4, <2>5
    <3>4. QED
      <4> HIDE DEF kept, ended
      <4> QED BY <2>3, <2>5, <3>1, <3>2, <3>3
  <2>7. RequestRefs' /\ req' \in [Requests -> RequestType] /\ OwnedDevices' /\ OneActive'
    BY <1>4, <2>6, EndingHolds DEF ChangePassword
  <2>8. QED
    BY <1>4, <2>2, <2>6, <2>7 DEF ChangePassword, TypeOK, Reply
<1>5. CASE IssueLicence(r)
  <2>1. RequestRefs' /\ req' \in [Requests -> RequestType] /\ OwnedDevices' /\ OneActive'
    BY <1>5, EndingHolds DEF IssueLicence, TypeOK, Reply
  <2>2. req[r].device \in DeviceIds
    BY <1>0, <1>5 DEF IssueLicence, RefIn
  <2>3. QED
    BY <1>5, <2>1, <2>2 DEF IssueLicence, TypeOK, Reply
<1>6. QED
  BY <1>1, <1>2, <1>3, <1>4, <1>5

LEMMA StaffStep ==
    ASSUME IInv, NEW r \in Requests,
           \/ \E u \in Users : LoadAccount(r, u)
           \/ SetAccountStatus(r) \/ SetAccountArchived(r) \/ ResetAccountPassword(r)
           \/ \E d \in DeviceIds : LoadDevice(r, d)
           \/ ResetDevice(r) \/ RequestFails(r)
    PROVE  IInv'
<1> USE DEF IInv
<1>0. req[r] \in RequestType /\ RefIn(req[r], devices, sessions) /\ req \in [Requests -> RequestType]
  BY DEF TypeOK, RequestRefs
<1>1. ASSUME NEW u \in Users, LoadAccount(r, u) PROVE IInv'
  <2>1. PICK pc \in StaffSteps : Begin(r, u, [Idle EXCEPT !.pc = pc, !.user = u])
    BY <1>1 DEF LoadAccount, StaffSteps
  <2> DEFINE q == [Idle EXCEPT !.pc = pc, !.user = u]
  <2>2. q \in RequestType /\ RefIn(q, devices, sessions)
    BY DEF RequestType, Idle, RefIn, LoginSteps, OwnSteps, StaffSteps
  <2>3. QED
    BY <1>1, <2>1, <2>2, BeginHolds DEF LoadAccount
<1>2. CASE SetAccountStatus(r)
  <2>1. sessions' = sessions \/ sessions' = End(SessionsOf(req[r].user))
    BY <1>2 DEF SetAccountStatus
  <2>2. RequestRefs' /\ req' \in [Requests -> RequestType] /\ OwnedDevices' /\ OneActive'
    BY <1>2, <2>1, EndHolds, EndingHolds DEF SetAccountStatus, TypeOK
  <2>3. sessions' \in [SessionIds -> SessionType]
    BY <2>1, EndHolds DEF TypeOK
  <2>4. status' \in [Users -> {"ACTIVE", "DISABLED"}]
    BY <1>2 DEF SetAccountStatus, TypeOK, Reply
  <2>5. QED
    BY <1>2, <2>2, <2>3, <2>4 DEF SetAccountStatus, TypeOK, Reply
<1>3. CASE SetAccountArchived(r)
  <2>1. sessions' = sessions \/ sessions' = End(SessionsOf(req[r].user))
    BY <1>3 DEF SetAccountArchived
  <2>2. RequestRefs' /\ req' \in [Requests -> RequestType] /\ OwnedDevices' /\ OneActive'
    BY <1>3, <2>1, EndHolds, EndingHolds DEF SetAccountArchived, TypeOK
  <2>3. sessions' \in [SessionIds -> SessionType]
    BY <2>1, EndHolds DEF TypeOK
  <2>4. archived' \in SUBSET Users
    BY <1>0, <1>3 DEF SetAccountArchived, TypeOK, Reply, RefIn, StaffSteps
  <2>5. QED
    BY <1>3, <2>2, <2>3, <2>4 DEF SetAccountArchived, TypeOK, Reply
<1>4. CASE ResetAccountPassword(r)
  <2>1. req[r].user \in Users
    BY <1>0, <1>4 DEF ResetAccountPassword, RefIn, StaffSteps
  <2>2. RequestRefs' /\ req' \in [Requests -> RequestType] /\ OwnedDevices' /\ OneActive'
    BY <1>4, EndHolds, EndingHolds DEF ResetAccountPassword
  <2>3. sessions' \in [SessionIds -> SessionType]
    BY <1>4, EndHolds DEF ResetAccountPassword
  <2>4. QED
    BY <1>4, <2>1, <2>2, <2>3, NewPasswordHolds DEF ResetAccountPassword, TypeOK, Reply
<1>5. ASSUME NEW d \in DeviceIds, LoadDevice(r, d) PROVE IInv'
  <2> DEFINE q == [Idle EXCEPT !.pc = "resetDevice", !.user = devices[d].student, !.device = d]
  <2>1. devices[d].student \in Users
    <3>1. devices[d] \in DeviceType /\ devices[d].status = "ACTIVE"
      BY <1>5 DEF LoadDevice, TypeOK
    <3>2. NoDevice.status = "unused"
      BY DEF NoDevice
    <3>3. QED
      BY <3>1, <3>2 DEF DeviceType, Users
  <2>2. q \in RequestType
    BY <2>1 DEF RequestType, Idle
  <2>3. RefIn(q, devices, sessions)
    BY <1>5 DEF LoadDevice, Idle, RefIn, LoginSteps, OwnSteps, StaffSteps
  <2>4. QED
    BY <1>5, <2>1, <2>2, <2>3, BeginHolds DEF LoadDevice
<1>6. CASE ResetDevice(r)
  <2> DEFINE d == req[r].device
             reset == [devices[d] EXCEPT !.status = "RESET"]
  <2>1. d \in DeviceIds /\ devices[d].status # "unused" /\ devices \in [DeviceIds -> DeviceType]
    BY <1>0, <1>6 DEF ResetDevice, RefIn, TypeOK
  <2>2. reset \in DeviceType /\ reset.student = devices[d].student /\ reset.status = "RESET"
    <3>1. devices[d] \in [student : Students, phone : Phones, status : {"ACTIVE", "RESET"}]
      BY <2>1 DEF DeviceType, NoDevice
    <3>2. QED
      BY <3>1 DEF DeviceType
  <2>3. devices'[d] = reset /\ \A e \in DeviceIds \ {d} : devices'[e] = devices[e]
    BY <1>6, <2>1 DEF ResetDevice
  <2>4. devices' \in [DeviceIds -> DeviceType]
    BY <1>6, <2>1, <2>2 DEF ResetDevice
  <2>5. DevicesKept
    BY <2>2, <2>3 DEF DevicesKept
  <2>6. /\ sessions' \in [SessionIds -> SessionType]
        /\ \A s \in SessionIds :
              /\ sessions'[s].user = sessions[s].user /\ sessions'[s].device = sessions[s].device
              /\ sessions'[s].state = "unused" <=> sessions[s].state = "unused"
    BY <1>6, EndHolds DEF ResetDevice
  <2>7. SessionsKept
    BY <2>6 DEF SessionsKept
  <2>8. RequestRefs' /\ req' \in [Requests -> RequestType]
    <3>1. RefIn(Idle, devices', sessions') /\ Idle \in RequestType
      BY IdleHolds
    <3>2. QED
      BY <1>6, <2>5, <2>7, <3>1, RefsKept DEF ResetDevice, Reply
  <2>9. OwnedDevices'
    BY <2>5, <2>6, OwnedKept
  <2>10. OneActive'
    BY <2>2, <2>3, ActiveKept
  <2>11. QED
    BY <1>6, <2>4, <2>6, <2>8, <2>9, <2>10 DEF ResetDevice, TypeOK, Reply
<1>7. CASE RequestFails(r)
  BY <1>7, IdleHolds, ReadHolds DEF RequestFails, Reply
<1>8. QED
  BY <1>1, <1>2, <1>3, <1>4, <1>5, <1>6, <1>7

\* The steps that are no request's.
LEMMA OtherStep ==
    ASSUME IInv,
           \/ \E u \in Users : CreateAccount(u) \/ \E phone \in Phones : RegisterStudent(u, phone)
           \/ \E s \in SessionIds : SessionEnds(s)
           \/ \E d \in DeviceIds : LicenceEnds(d)
    PROVE  IInv'
<1> USE DEF IInv
<1>1. ASSUME NEW u \in Users, CreateAccount(u) PROVE IInv'
  BY <1>1 DEF CreateAccount, TypeOK, RequestRefs, OwnedDevices, OneActive, ActiveDevices
<1>2. ASSUME NEW u \in Users, NEW phone \in Phones, RegisterStudent(u, phone) PROVE IInv'
  <2>1. PICK d \in DeviceIds :
           /\ NextDevice(d)
           /\ devices' = [devices EXCEPT ![d] =
                  [student |-> u, phone |-> phone, status |-> "ACTIVE"]]
           /\ CreateSession(u, d, password[u])
    BY <1>2 DEF RegisterStudent
  <2>2. u \in Students /\ ActiveDevices(u) = {} /\ password[u] \in Passwords
    BY <1>2 DEF RegisterStudent, TypeOK
  <2>3. /\ devices' \in [DeviceIds -> DeviceType]
        /\ DevicesKept /\ OneActive' /\ devices'[d].student = u
    BY <2>1, <2>2, BindHolds
  <2>4. /\ sessions' \in [SessionIds -> SessionType]
        /\ SessionsKept
        /\ \A s \in SessionIds : sessions'[s] # sessions[s] =>
                 sessions'[s].user = u /\ sessions'[s].device = d
    BY <2>1, <2>2, CreateHolds
  <2>5. RequestRefs'
    BY <1>2, <2>3, <2>4, RefKept DEF RegisterStudent, RequestRefs, TypeOK
  <2>6. OwnedDevices'
    BY <2>3, <2>4, OwnedKept
  <2>7. TypeOK'
    BY <1>2, <2>3, <2>4 DEF RegisterStudent, TypeOK
  <2>8. QED
    BY <2>3, <2>5, <2>6, <2>7
<1>3. ASSUME NEW s \in SessionIds, SessionEnds(s) PROVE IInv'
  <2>1. /\ sessions' \in [SessionIds -> SessionType]
        /\ \A t \in SessionIds :
              /\ sessions'[t].user = sessions[t].user /\ sessions'[t].device = sessions[t].device
              /\ sessions'[t].state = "unused" <=> sessions[t].state = "unused"
    BY <1>3, EndHolds DEF SessionEnds
  <2>2. DevicesKept /\ SessionsKept
    BY <1>3, <2>1 DEF SessionEnds, DevicesKept, SessionsKept
  <2>3. RequestRefs'
    BY <1>3, <2>2, RefKept DEF SessionEnds, RequestRefs, TypeOK
  <2>4. OwnedDevices'
    BY <2>1, <2>2, OwnedKept
  <2>5. TypeOK'
    BY <1>3, <2>1 DEF SessionEnds, TypeOK
  <2>6. OneActive'
    BY <1>3 DEF SessionEnds, OneActive, ActiveDevices
  <2>7. QED
    BY <2>3, <2>4, <2>5, <2>6
<1>4. ASSUME NEW d \in DeviceIds, LicenceEnds(d) PROVE IInv'
  BY <1>4 DEF LicenceEnds, TypeOK, RequestRefs, OwnedDevices, OneActive, ActiveDevices
<1>5. QED
  BY <1>1, <1>2, <1>3, <1>4

LEMMA IInvStep == IInv /\ [Next]_vars => IInv'
<1>1. ASSUME IInv, Next PROVE IInv'
  BY <1>1, LoginStep, OwnStep, StaffStep, OtherStep DEF Next
<1>2. ASSUME IInv, UNCHANGED vars PROVE IInv'
  BY <1>2 DEF IInv, TypeOK, RequestRefs, OwnedDevices, OneActive, ActiveDevices, vars, rows
<1>3. QED
  BY <1>1, <1>2

LEMMA IInvHolds == Spec => []IInv
  BY IInvInit, IInvStep, PTL DEF Spec

LEMMA IInvImplies == IInv => TypeOK /\ OneDevicePerStudent
<1> SUFFICES ASSUME IInv PROVE OneDevicePerStudent
  BY DEF IInv
<1>1. ASSUME NEW s \in SessionIds, NEW t \in SessionIds, Live(s), Live(t),
             sessions[s].user = sessions[t].user, sessions[s].user \in Students
      PROVE  sessions[s].device = sessions[t].device
  <2>1. ASSUME NEW x \in SessionIds, Live(x), sessions[x].user \in Students
        PROVE  sessions[x].device \in ActiveDevices(sessions[x].user)
    <3>1. devices[sessions[x].device].student = sessions[x].user
      BY <2>1 DEF IInv, OwnedDevices
    <3>2. devices[sessions[x].device].status = "ACTIVE"
      BY <2>1 DEF Live
    <3>3. sessions[x].device \in DeviceIds
      BY <2>1, UsersAssumption DEF IInv, TypeOK, SessionType, NoSession, Users
    <3>4. QED
      BY <3>1, <3>2, <3>3 DEF ActiveDevices
  <2>2. QED
    BY <1>1, <2>1 DEF IInv, OneActive
<1>2. QED
  BY <1>1 DEF OneDevicePerStudent, IInv, OneActive

\* The rows and requests keep their types: a student's session has a device, staff have
\* none, and what a request has read still exists (auth.service.ts, session.service.ts).
THEOREM TypeCorrect == Spec => []TypeOK
  BY IInvHolds, IInvImplies, PTL

\* A student has one active device at most, and all working sessions are on it, whatever
\* logins and resets are in flight (bindOrVerifyDevice, device-binding.ts:25-75).
THEOREM OneDevice == Spec => []OneDevicePerStudent
  BY IInvHolds, IInvImplies, PTL


(***************************************************************************)
(* Accounts whose requests came one after the other.  Their passwords,     *)
(* sessions and devices are as the rules want them, and what the request   *)
(* under way has read is still so when it writes.                          *)
(***************************************************************************)

\* Rows and requests are those of accounts that exist, a new account begins open, and a request
\* that begins with a session or a device is for the account that has it.
Known ==
    /\ \A u \in Users \ accounts : status[u] = "ACTIVE" /\ u \notin archived
    /\ \A s \in SessionIds : sessions[s].state # "unused" => sessions[s].user \in accounts
    /\ \A d \in DeviceIds : devices[d].status # "unused" => devices[d].student \in accounts
    /\ \A r \in Requests :
          /\ req[r].pc # "idle" => req[r].user \in accounts
          /\ req[r].pc \in OwnSteps => sessions[req[r].session].user = req[r].user
          /\ req[r].pc \in {"issue", "resetDevice"} => devices[req[r].device].student = req[r].user

\* A request under way for account u.
For(u, r) == req[r].pc # "idle" /\ req[r].user = u

\* What a request q for u has read is still so.
StillSo(u, q) ==
    /\ q.pc \in {"rehash", "bind", "open"} =>
           q.password = latest[u] /\ status[u] = "ACTIVE" /\ u \notin archived
    /\ q.pc = "open" /\ q.device = 0 => ActiveDevices(u) = {}
    /\ q.pc = "open" /\ q.device # 0 => devices[q.device].status = "ACTIVE"
    /\ q.pc = "issue" => devices[q.device].status = "ACTIVE"

OneRequest(u) == \A x, y \in Requests : For(u, x) /\ For(u, y) => x = y

\* What the rules want of the sessions and devices of u.
SessionsInOrder(u) ==
    \A s \in SessionIds : sessions[s].state = "live" /\ sessions[s].user = u =>
        sessions[s].password = latest[u] /\ status[u] = "ACTIVE" /\ u \notin archived
DevicesInOrder(u) ==
    \A d \in DeviceIds : devices[d].status = "RESET" /\ devices[d].student = u =>
        d \notin licensed /\ \A s \in SessionsOn(d) : sessions[s].state # "live"

InOrder(u) ==
    /\ password[u] = latest[u]
    /\ OneRequest(u)
    /\ \A r \in Requests : For(u, r) => StillSo(u, req[r])
    /\ SessionsInOrder(u)
    /\ DevicesInOrder(u)

OrderInv == \A u \in Users \ overlapped : InOrder(u)

\* Ids are given once, whatever the step.
LEMMA RowsKept == IInv /\ [Next]_vars => DevicesKept /\ SessionsKept
<1> SUFFICES ASSUME IInv, [Next]_vars PROVE DevicesKept /\ SessionsKept
  OBVIOUS
<1>1. ASSUME NEW S, sessions' = End(S) PROVE SessionsKept
  BY <1>1, EndHolds DEF SessionsKept, IInv
<1>2. ASSUME sessions' = sessions PROVE SessionsKept
  BY <1>2 DEF SessionsKept
<1>3. ASSUME devices' = devices PROVE DevicesKept
  BY <1>3 DEF DevicesKept
<1>4. ASSUME NEW d \in DeviceIds, devices[d].status = "unused", NEW new, new.status = "ACTIVE",
             devices' = [devices EXCEPT ![d] = new]
      PROVE  DevicesKept
  BY <1>4 DEF DevicesKept, IInv, TypeOK
<1>5. ASSUME NEW u, NEW d, NEW p, CreateSession(u, d, p) PROVE SessionsKept
  <2>1. PICK s \in SessionIds : /\ sessions[s].state = "unused"
                                /\ sessions' = [sessions EXCEPT ![s] =
                                      [user |-> u, device |-> d, state |-> "live", password |-> p]]
    BY <1>5 DEF CreateSession, NextSession
  <2>2. QED
    BY <2>1 DEF SessionsKept, IInv, TypeOK
<1>6. ASSUME NEW r \in Requests, OpenSession(r) PROVE DevicesKept /\ SessionsKept
  BY <1>2, <1>3, <1>4, <1>5, <1>6 DEF OpenSession, NextDevice
<1>7. ASSUME NEW u \in Users, NEW phone, RegisterStudent(u, phone) PROVE DevicesKept /\ SessionsKept
  BY <1>4, <1>5, <1>7 DEF RegisterStudent, NextDevice
<1>8. ASSUME NEW r \in Requests, ChangePassword(r) PROVE DevicesKept /\ SessionsKept
  <2> DEFINE own == req[r].session
             ended == End(SessionsOf(req[r].user) \ {own})
  <2>1. /\ ended \in [SessionIds -> SessionType]
        /\ \A s \in SessionIds :
              /\ ended[s].user = sessions[s].user /\ ended[s].device = sessions[s].device
              /\ ended[s].state = "unused" <=> sessions[s].state = "unused"
    BY EndHolds DEF IInv
  <2>2. sessions' = [ended EXCEPT ![own] = [ended[own] EXCEPT !.password = latest[req[r].user] + 1]]
    BY <1>8, <2>1 DEF ChangePassword
  <2>3. \A s \in SessionIds : /\ sessions'[s].user = ended[s].user
                              /\ sessions'[s].device = ended[s].device
                              /\ sessions'[s].state = ended[s].state
    <3>1. \A s \in SessionIds : \A p : LET e == [ended[s] EXCEPT !.password = p] IN
              e.user = ended[s].user /\ e.device = ended[s].device /\ e.state = ended[s].state
      BY <2>1 DEF SessionType, NoSession
    <3>2. QED
      <4> HIDE DEF ended
      <4> QED BY <2>1, <2>2, <3>1
  <2>4. QED
    BY <1>3, <1>8, <2>1, <2>3 DEF ChangePassword, SessionsKept
<1>9. ASSUME NEW r \in Requests, ResetDevice(r) PROVE DevicesKept /\ SessionsKept
  <2>1. req[r].device \in DeviceIds /\ req[r] \in RequestType
    BY <1>9 DEF IInv, RequestRefs, RefIn, ResetDevice, TypeOK
  <2>2. devices[req[r].device] \in DeviceType
    BY <2>1 DEF IInv, TypeOK
  <2>3. DevicesKept
    BY <1>9, <2>1, <2>2 DEF ResetDevice, DevicesKept, IInv, TypeOK, DeviceType, NoDevice
  <2>4. QED
    BY <1>1, <1>9, <2>3 DEF ResetDevice
<1>10. QED
  BY <1>1, <1>2, <1>3, <1>6, <1>7, <1>8, <1>9
     DEF Next, vars, rows, Login, Rehash, Bind, Rejected, Authenticate, Logout, VerifyPassword, IssueLicence,
         LoadAccount, SetAccountStatus, SetAccountArchived, ResetAccountPassword, LoadDevice,
         RequestFails, CreateAccount, SessionEnds, LicenceEnds

\* A step that creates rows for accounts that exist, and at most moves requests.
LEMMA KnownKept ==
    ASSUME IInv, Known, DevicesKept, SessionsKept, accounts \subseteq accounts',
           \A u \in Users \ accounts : status'[u] = status[u] /\ (u \in archived' => u \in archived),
           \A s \in SessionIds : sessions'[s].state # "unused" =>
               sessions[s].state # "unused" \/ sessions'[s].user \in accounts',
           \A d \in DeviceIds : devices'[d].status # "unused" =>
               devices[d].status # "unused" \/ devices'[d].student \in accounts',
           \A r \in Requests :
               \/ req'[r] = req[r]
               \/ req'[r].pc = "idle"
               \/ /\ req'[r].pc \notin OwnSteps \cup {"resetDevice"}
                  /\ req[r].pc # "idle" /\ req'[r].user = req[r].user
    PROVE  Known'
<1>1. \A u \in Users \ accounts' : status'[u] = "ACTIVE" /\ u \notin archived'
  BY DEF Known
<1>2. \A s \in SessionIds : sessions'[s].state # "unused" => sessions'[s].user \in accounts'
  BY DEF Known, SessionsKept
<1>3. \A d \in DeviceIds : devices'[d].status # "unused" => devices'[d].student \in accounts'
  BY DEF Known, DevicesKept
<1>4. ASSUME NEW r \in Requests
      PROVE  /\ req'[r].pc # "idle" => req'[r].user \in accounts'
             /\ req'[r].pc \in OwnSteps => sessions'[req'[r].session].user = req'[r].user
             /\ req'[r].pc \in {"issue", "resetDevice"} => devices'[req'[r].device].student = req'[r].user
  <2>1. CASE req'[r] = req[r]
    <3>1. RefIn(req[r], devices, sessions) /\ req[r] \in RequestType
      BY DEF IInv, RequestRefs, TypeOK
    <3>2. req[r].pc # "idle" => req[r].user \in accounts'
      BY DEF Known
    <3>3. req[r].pc \in OwnSteps => sessions'[req[r].session].user = req[r].user
      BY <3>1 DEF Known, SessionsKept, RefIn
    <3>4. ASSUME req[r].pc \in {"issue", "resetDevice"}
          PROVE  devices'[req[r].device].student = req[r].user
      <4>1. req[r].device \in DeviceIds /\ devices[req[r].device].student = req[r].user
        BY <3>1, <3>4 DEF RefIn, Known
      <4>2. req[r].pc = "resetDevice" => devices[req[r].device].status # "unused"
        BY <3>1 DEF RefIn
      <4>3. req[r].pc = "issue" => devices[req[r].device].status # "unused"
        <5>1. ASSUME req[r].pc = "issue" PROVE req[r].user \in Users
          BY <3>1, <5>1 DEF RefIn, OwnSteps
        <5>2. devices[req[r].device] \in DeviceType
          BY <4>1 DEF IInv, TypeOK
        <5>3. QED
          BY <4>1, <5>1, <5>2, UsersAssumption DEF DeviceType, NoDevice
      <4>4. QED
        BY <3>4, <4>1, <4>2, <4>3 DEF DevicesKept
    <3>5. QED
      BY <2>1, <3>2, <3>3, <3>4
  <2>2. CASE req'[r].pc = "idle"
    BY <2>2 DEF OwnSteps
  <2>3. CASE /\ req'[r].pc \notin OwnSteps \cup {"resetDevice"}
             /\ req[r].pc # "idle" /\ req'[r].user = req[r].user
    BY <2>3 DEF Known, OwnSteps
  <2>4. QED
    BY <2>1, <2>2, <2>3
<1>5. QED
  BY <1>1, <1>2, <1>3, <1>4 DEF Known

\* A step in which request r begins.
LEMMA KnownBegun ==
    ASSUME IInv, Known, UNCHANGED rows, NEW r \in Requests, NEW q \in RequestType,
           req' = [req EXCEPT ![r] = q],
           q.user \in accounts,
           q.pc \in OwnSteps => sessions[q.session].user = q.user,
           q.pc \in {"issue", "resetDevice"} => devices[q.device].student = q.user
    PROVE  Known'
<1>1. req'[r] = q /\ \A x \in Requests \ {r} : req'[x] = req[x]
  BY DEF IInv, TypeOK
<1>2. QED
  BY <1>1 DEF Known, rows

LEMMA KnownInit == Init => Known
BY DEF Init, Known, Idle, NoSession, NoDevice, OwnSteps

LEMMA KnownStep == IInv /\ Known /\ [Next]_vars => Known'
<1> SUFFICES ASSUME IInv, Known, [Next]_vars PROVE Known'
  OBVIOUS
<1>1. DevicesKept /\ SessionsKept
  BY RowsKept
<1>2. req \in [Requests -> RequestType] /\ \A r \in Requests : RefIn(req[r], devices, sessions)
  BY DEF IInv, TypeOK, RequestRefs
<1>3. ASSUME NEW S, sessions' = End(S)
      PROVE  \A s \in SessionIds : sessions'[s].state # "unused" => sessions[s].state # "unused"
  BY <1>3, EndHolds DEF IInv
<1>4. ASSUME NEW u \in accounts', NEW d, NEW p, CreateSession(u, d, p)
      PROVE  \A s \in SessionIds : sessions'[s].state # "unused" =>
                 sessions[s].state # "unused" \/ sessions'[s].user \in accounts'
  <2>1. PICK s \in SessionIds : sessions' = [sessions EXCEPT ![s] =
                                      [user |-> u, device |-> d, state |-> "live", password |-> p]]
    BY <1>4 DEF CreateSession
  <2>2. QED
    BY <1>4, <2>1 DEF IInv, TypeOK
<1>5. ASSUME NEW u \in accounts', NEW phone, NEW d \in DeviceIds,
             devices' = [devices EXCEPT ![d] = [student |-> u, phone |-> phone, status |-> "ACTIVE"]]
      PROVE  \A e \in DeviceIds : devices'[e].status # "unused" =>
                 devices[e].status # "unused" \/ devices'[e].student \in accounts'
  BY <1>5 DEF IInv, TypeOK
\* Where a request goes that does not begin.
<1>6. ASSUME NEW r \in Requests, Reply(r)
      PROVE  \A x \in Requests : req'[x] = req[x] \/ req'[x].pc = "idle"
  BY <1>2, <1>6 DEF Reply, Idle
<1>7. ASSUME NEW r \in Requests, NEW pc \in {"open", "bind", "rejected"}, NEW d, req[r].pc # "idle",
             \/ req' = [req EXCEPT ![r].pc = pc]
             \/ req' = [req EXCEPT ![r].pc = pc, ![r].device = d]
      PROVE  \A x \in Requests : \/ req'[x] = req[x]
                                 \/ /\ req'[x].pc \notin OwnSteps \cup {"resetDevice"}
                                    /\ req[x].pc # "idle" /\ req'[x].user = req[x].user
  <2>1. /\ req'[r].pc = pc /\ req'[r].user = req[r].user
        /\ \A x \in Requests \ {r} : req'[x] = req[x]
    BY <1>2, <1>7 DEF RequestType
  <2>2. QED
    BY <1>7, <2>1 DEF OwnSteps
<1>11. ASSUME NEW r \in Requests, NEW u \in Users, NEW phone, Login(r, u, phone) PROVE Known'
  <2> DEFINE pc == IF u \in oldHash THEN "rehash" ELSE IF u \in Staff THEN "open" ELSE "bind"
             q == [Idle EXCEPT !.pc = pc, !.user = u, !.password = password[u], !.phone = phone]
  <2>1. req' = [req EXCEPT ![r] = q] /\ UNCHANGED rows /\ u \in accounts
    BY <1>11 DEF Login, Begin
  <2>2. q.user = u /\ q.pc \notin OwnSteps \cup {"resetDevice"}
    BY DEF Idle, OwnSteps
  <2>3. req'[r] = q /\ \A x \in Requests \ {r} : req'[x] = req[x]
    BY <1>2, <2>1
  <2>4. QED
    <3> HIDE DEF q
    <3> QED BY <2>1, <2>2, <2>3 DEF Known, rows, OwnSteps
<1>12. ASSUME NEW r \in Requests, Rehash(r) PROVE Known'
  BY <1>1, <1>7, <1>12, KnownKept DEF Rehash, Goto
<1>13. ASSUME NEW r \in Requests, Bind(r) PROVE Known'
  BY <1>1, <1>7, <1>13, KnownKept DEF Bind, Goto, rows
<1>14. ASSUME NEW r \in Requests, OpenSession(r) PROVE Known'
  <2>1. req[r].user \in accounts /\ accounts' = accounts /\ req[r].pc # "idle"
    BY <1>14 DEF OpenSession, Known
  <2>2. \A s \in SessionIds : sessions'[s].state # "unused" =>
            sessions[s].state # "unused" \/ sessions'[s].user \in accounts'
    BY <1>4, <1>14, <2>1 DEF OpenSession
  <2>3. \A e \in DeviceIds : devices'[e].status # "unused" =>
            devices[e].status # "unused" \/ devices'[e].student \in accounts'
    BY <1>5, <1>14, <2>1 DEF OpenSession
  <2>4. \A x \in Requests : \/ req'[x] = req[x]
                            \/ req'[x].pc = "idle"
                            \/ /\ req'[x].pc \notin OwnSteps \cup {"resetDevice"}
                               /\ req[x].pc # "idle" /\ req'[x].user = req[x].user
    BY <1>6, <1>7, <1>14, <2>1 DEF OpenSession, Goto
  <2>5. QED
    BY <1>1, <1>14, <2>1, <2>2, <2>3, <2>4, KnownKept DEF OpenSession
<1>15. ASSUME NEW r \in Requests, Rejected(r) \/ RequestFails(r) PROVE Known'
  BY <1>1, <1>6, <1>15, KnownKept DEF Rejected, RequestFails, rows
<1>16. ASSUME NEW r \in Requests, NEW s \in SessionIds, Authenticate(r, s) PROVE Known'
  <2>1. PICK pc \in {"logout", "verify", "issue"} :
           /\ pc = "issue" => sessions[s].device # 0
           /\ Begin(r, sessions[s].user, [Idle EXCEPT !.pc = pc, !.user = sessions[s].user,
                                  !.session = s, !.device = sessions[s].device])
    BY <1>16 DEF Authenticate
  <2> DEFINE q == [Idle EXCEPT !.pc = pc, !.user = sessions[s].user,
                               !.session = s, !.device = sessions[s].device]
  <2>2. /\ sessions[s].state = "live" /\ sessions[s].user \in Users
        /\ sessions[s].device \in {0} \cup DeviceIds
    BY <1>16, UsedSession DEF Authenticate, Live, IInv
  <2>3. q \in RequestType /\ q.pc = pc /\ q.user = sessions[s].user /\ q.session = s /\ q.device = sessions[s].device
    BY <2>2 DEF RequestType, Idle
  <2>4. q.user \in accounts
    BY <2>2, <2>3 DEF Known
  <2>5. pc = "issue" => devices[sessions[s].device].student = sessions[s].user
    <3>1. sessions[s].device # 0 => sessions[s].user \in Students
      BY <2>2 DEF IInv, TypeOK, SessionType, NoSession
    <3>2. QED
      BY <2>1, <3>1 DEF IInv, OwnedDevices
  <2>6. QED
    <3> HIDE DEF q
    <3> QED BY <1>16, <2>1, <2>3, <2>4, <2>5, KnownBegun DEF Authenticate, Begin, q
<1>17. ASSUME NEW r \in Requests, Logout(r) PROVE Known'
  BY <1>1, <1>3, <1>6, <1>17, KnownKept DEF Logout
<1>18. ASSUME NEW r \in Requests, VerifyPassword(r) PROVE Known'
  <2>1. /\ req'[r].pc = "change" /\ req'[r].user = req[r].user /\ req'[r].session = req[r].session
        /\ \A x \in Requests \ {r} : req'[x] = req[x]
    BY <1>2, <1>18 DEF VerifyPassword, Goto, RequestType
  <2>2. req[r].pc = "verify" /\ UNCHANGED rows
    BY <1>18 DEF VerifyPassword
  <2>3. QED
    BY <2>1, <2>2 DEF Known, rows, OwnSteps
<1>19. ASSUME NEW r \in Requests, ChangePassword(r) PROVE Known'
  <2>1. \A s \in SessionIds : sessions'[s].state # "unused" => sessions[s].state # "unused"
    <3> DEFINE ended == End(SessionsOf(req[r].user) \ {req[r].session})
    <3>1. /\ ended \in [SessionIds -> SessionType]
          /\ \A s \in SessionIds : ended[s].state = "unused" <=> sessions[s].state = "unused"
      BY EndHolds DEF IInv
    <3>2. sessions' = [ended EXCEPT ![req[r].session] =
                          [ended[req[r].session] EXCEPT !.password = latest[req[r].user] + 1]]
      BY <1>19, <3>1 DEF ChangePassword
    <3>3. \A s \in SessionIds : \A p : [ended[s] EXCEPT !.password = p].state = ended[s].state
      BY <3>1 DEF SessionType, NoSession
    <3>4. QED
      <4> HIDE DEF ended
      <4> QED BY <3>1, <3>2, <3>3
  <2>2. QED
    BY <1>1, <1>6, <1>19, <2>1, KnownKept DEF ChangePassword
<1>20. ASSUME NEW r \in Requests, IssueLicence(r) PROVE Known'
  BY <1>1, <1>6, <1>20, KnownKept DEF IssueLicence
<1>21. ASSUME NEW r \in Requests, NEW u \in Users, LoadAccount(r, u) PROVE Known'
  <2>1. PICK pc \in StaffSteps : Begin(r, u, [Idle EXCEPT !.pc = pc, !.user = u])
    BY <1>21 DEF LoadAccount, StaffSteps
  <2> DEFINE q == [Idle EXCEPT !.pc = pc, !.user = u]
  <2>2. q \in RequestType /\ q.user = u /\ q.pc \notin OwnSteps \cup {"resetDevice"}
    BY DEF RequestType, Idle, OwnSteps, StaffSteps
  <2>3. QED
    <3> HIDE DEF q
    <3> QED BY <1>21, <2>1, <2>2, KnownBegun DEF LoadAccount, Begin, q, OwnSteps
<1>22. ASSUME NEW r \in Requests, SetAccountStatus(r) PROVE Known'
  <2>1. \A s \in SessionIds : sessions'[s].state # "unused" => sessions[s].state # "unused"
    BY <1>3, <1>22 DEF SetAccountStatus
  <2>2. req[r].user \in accounts /\ \A u \in Users \ accounts : status'[u] = status[u]
    BY <1>22 DEF SetAccountStatus, Known, IInv, TypeOK
  <2>3. QED
    BY <1>1, <1>6, <1>22, <2>1, <2>2, KnownKept DEF SetAccountStatus
<1>23. ASSUME NEW r \in Requests, SetAccountArchived(r) PROVE Known'
  <2>1. \A s \in SessionIds : sessions'[s].state # "unused" => sessions[s].state # "unused"
    BY <1>3, <1>23 DEF SetAccountArchived
  <2>2. req[r].user \in accounts /\ \A u \in Users \ accounts : u \in archived' => u \in archived
    BY <1>23 DEF SetAccountArchived, Known
  <2>3. QED
    BY <1>1, <1>6, <1>23, <2>1, <2>2, KnownKept DEF SetAccountArchived
<1>24. ASSUME NEW r \in Requests, ResetAccountPassword(r) PROVE Known'
  BY <1>1, <1>3, <1>6, <1>24, KnownKept DEF ResetAccountPassword
<1>25. ASSUME NEW r \in Requests, NEW d \in DeviceIds, LoadDevice(r, d) PROVE Known'
  <2> DEFINE q == [Idle EXCEPT !.pc = "resetDevice", !.user = devices[d].student, !.device = d]
  <2>1. devices[d].student \in Users /\ devices[d].student \in accounts
    BY <1>25 DEF LoadDevice, Known, IInv, TypeOK
  <2>2. q \in RequestType /\ q.user = devices[d].student /\ q.device = d /\ q.pc = "resetDevice"
    BY <2>1 DEF RequestType, Idle
  <2>3. QED
    <3> HIDE DEF q
    <3> QED BY <1>25, <2>1, <2>2, KnownBegun DEF LoadDevice, Begin, q, OwnSteps
<1>26. ASSUME NEW r \in Requests, ResetDevice(r) PROVE Known'
  <2>1. \A d \in DeviceIds : devices'[d].status # "unused" => devices[d].status # "unused"
    BY <1>2, <1>26 DEF ResetDevice, RefIn, IInv, TypeOK
  <2>2. QED
    BY <1>1, <1>3, <1>6, <1>26, <2>1, KnownKept DEF ResetDevice
<1>27. ASSUME NEW u \in Users, NEW phone, RegisterStudent(u, phone) PROVE Known'
  <2>1. u \in accounts' /\ accounts \subseteq accounts'
    BY <1>27 DEF RegisterStudent
  <2>2. \A s \in SessionIds : sessions'[s].state # "unused" =>
            sessions[s].state # "unused" \/ sessions'[s].user \in accounts'
    BY <1>4, <1>27, <2>1 DEF RegisterStudent
  <2>3. \A e \in DeviceIds : devices'[e].status # "unused" =>
            devices[e].status # "unused" \/ devices'[e].student \in accounts'
    BY <1>5, <1>27, <2>1 DEF RegisterStudent
  <2>4. QED
    BY <1>1, <1>27, <2>1, <2>2, <2>3, KnownKept DEF RegisterStudent
<1>28. ASSUME NEW u \in Users, CreateAccount(u) PROVE Known'
  BY <1>1, <1>28, KnownKept DEF CreateAccount
<1>29. ASSUME NEW s \in SessionIds, SessionEnds(s) PROVE Known'
  BY <1>1, <1>3, <1>29, KnownKept DEF SessionEnds
<1>30. ASSUME NEW d \in DeviceIds, LicenceEnds(d) PROVE Known'
  BY <1>1, <1>30, KnownKept DEF LicenceEnds
<1>31. CASE UNCHANGED vars
  BY <1>31 DEF vars, rows, Known
<1>32. QED
  BY <1>11, <1>12, <1>13, <1>14, <1>15, <1>16, <1>17, <1>18, <1>19, <1>20, <1>21, <1>22, <1>23,
     <1>24, <1>25, <1>26, <1>27, <1>28, <1>29, <1>30, <1>31 DEF Next

(***************************************************************************)
(* A step of one request leaves the rows of other accounts alone.          *)
(***************************************************************************)
Untouched(u) ==
    /\ password'[u] = password[u] /\ latest'[u] = latest[u]
    /\ status'[u] = status[u] /\ (u \in archived' <=> u \in archived)
    /\ \A d \in DeviceIds :
          \/ devices'[d] = devices[d]
          \/ devices[d].student # u /\ devices'[d].student # u
    /\ \A d \in DeviceIds : devices[d].student = u /\ d \in licensed' => d \in licensed
    /\ \A s \in SessionIds :
          \/ sessions'[s] = sessions[s]
          \/ sessions[s].user # u /\ sessions'[s].user # u
          \/ sessions'[s].state # "live" /\ sessions'[s].user = sessions[s].user

\* A session on a device is one of its student.
LEMMA DeviceOfUser ==
    ASSUME IInv, NEW s \in SessionIds, NEW d \in DeviceIds,
           sessions[s].device = d, sessions[s].state = "live"
    PROVE  devices[d].student = sessions[s].user
<1>1. sessions[s] \in SessionType /\ sessions[s] # NoSession /\ d # 0
  BY DEF IInv, TypeOK, NoSession, DeviceIds
<1>2. sessions[s].user \in Students
  BY <1>1 DEF SessionType
<1>3. QED
  BY <1>2 DEF IInv, OwnedDevices

LEMMA DeviceOfUserNext ==
    ASSUME IInv', NEW s \in SessionIds, NEW d \in DeviceIds,
           sessions'[s].device = d, sessions'[s].state = "live"
    PROVE  devices'[d].student = sessions'[s].user
<1>1. sessions'[s] \in SessionType /\ sessions'[s] # NoSession /\ d # 0
  BY DEF IInv, TypeOK, NoSession, DeviceIds
<1>2. sessions'[s].user \in Students
  BY <1>1 DEF SessionType
<1>3. QED
  BY <1>2 DEF IInv, OwnedDevices

\* What a request of an untouched account has read stays so.
LEMMA StillSoKept ==
    ASSUME IInv, Known, NEW u \in Users, Untouched(u), NEW r \in Requests, For(u, r), StillSo(u, req[r]),
           req'[r] = req[r]
    PROVE  StillSo(u, req[r])'
<1> DEFINE q == req[r]
<1>1. RefIn(q, devices, sessions) /\ q.user = u /\ q \in RequestType
  BY DEF IInv, RequestRefs, TypeOK, For
<1>2. q.pc \in {"rehash", "bind", "open"} => q.password = latest'[u] /\ status'[u] = "ACTIVE" /\ u \notin archived'
  BY DEF StillSo, Untouched
<1>3. q.pc = "open" /\ q.device = 0 => ActiveDevices(u)' = {}
  BY DEF StillSo, Untouched, ActiveDevices
<1>4. q.pc = "open" /\ q.device # 0 => devices'[q.device].status = "ACTIVE"
  BY <1>1 DEF StillSo, Untouched, RefIn
<1>5. q.pc = "issue" => devices'[q.device].status = "ACTIVE"
  BY <1>1 DEF StillSo, Untouched, RefIn, Known
<1>6. QED
  BY <1>2, <1>3, <1>4, <1>5 DEF StillSo

LEMMA SessionsStay ==
    ASSUME NEW u \in Users, Untouched(u), SessionsInOrder(u)
    PROVE  SessionsInOrder(u)'
BY DEF SessionsInOrder, Untouched

LEMMA DevicesStay ==
    ASSUME IInv, IInv', NEW u \in Users, Untouched(u), DevicesInOrder(u)
    PROVE  DevicesInOrder(u)'
<1> SUFFICES ASSUME NEW d \in DeviceIds, devices'[d].status = "RESET", devices'[d].student = u
             PROVE  d \notin licensed' /\ \A s \in SessionsOn(d)' : sessions'[s].state # "live"
  BY DEF DevicesInOrder
<1>1. devices'[d] = devices[d]
  BY DEF Untouched
<1>2. d \notin licensed'
  BY <1>1 DEF DevicesInOrder, Untouched
<1>3. ASSUME NEW s \in SessionsOn(d)', sessions'[s].state = "live" PROVE FALSE
  <2>1. s \in SessionIds /\ sessions'[s].device = d
    BY DEF SessionsOn
  <2>2. sessions'[s].user = u
    BY <1>3, <2>1, DeviceOfUserNext
  <2>3. sessions'[s] = sessions[s]
    BY <1>3, <2>1, <2>2 DEF Untouched
  <2>4. QED
    BY <1>1, <1>3, <2>1, <2>3 DEF DevicesInOrder, SessionsOn
<1>4. QED
  BY <1>2, <1>3

\* An account nobody touches stays in order.
LEMMA OrderKept ==
    ASSUME IInv, IInv', Known, NEW u \in Users, InOrder(u), Untouched(u),
           \A r \in Requests : req'[r] = req[r] \/ ~For(u, r)'
    PROVE  InOrder(u)'
<1>1. password'[u] = latest'[u]
  BY DEF InOrder, Untouched
<1>2. OneRequest(u)'
  BY DEF InOrder, OneRequest, For
<1>3. ASSUME NEW r \in Requests, For(u, r)' PROVE StillSo(u, req[r])'
  <2>1. req'[r] = req[r] /\ For(u, r)
    BY <1>3 DEF For
  <2>2. StillSo(u, req[r])
    BY <2>1 DEF InOrder
  <2>3. QED
    BY <2>1, <2>2, StillSoKept
<1>4. SessionsInOrder(u)' /\ DevicesInOrder(u)'
  BY SessionsStay, DevicesStay DEF InOrder
<1>5. QED
  BY <1>1, <1>2, <1>3, <1>4 DEF InOrder

\* A request that begins on account v, having read what q says.
LEMMA OrderBegun ==
    ASSUME IInv, IInv', Known, OrderInv, UNCHANGED rows, NEW r \in Requests, NEW v \in Users, NEW q,
           Begin(r, v, q), q.pc # "idle", q.user = v,
           v \notin overlapped => StillSo(v, q)
    PROVE  OrderInv'
<1>1. /\ req' = [req EXCEPT ![r] = q] /\ overlapped \subseteq overlapped'
      /\ v \notin overlapped' => \A x \in Requests : ~For(v, x)
  BY DEF Begin, For
<1>2. req'[r] = q /\ \A x \in Requests \ {r} : req'[x] = req[x]
  BY <1>1 DEF IInv, TypeOK
<1>3. ASSUME NEW u \in Users \ overlapped' PROVE InOrder(u)'
  <2>1. InOrder(u)
    BY <1>1 DEF OrderInv
  <2>2. CASE u # v
    <3>1. Untouched(u)
      BY DEF Untouched, rows
    <3>2. QED
      BY <1>2, <2>1, <2>2, <3>1, OrderKept DEF For
  <2>3. CASE u = v
    <3>1. \A x \in Requests : For(u, x)' => x = r
      BY <1>1, <1>2, <1>3, <2>3 DEF For
    <3>2. StillSo(v, req[r])'
      BY <1>1, <1>2, <1>3, <2>3 DEF StillSo, ActiveDevices, rows
    <3>3. QED
      BY <2>1, <2>3, <3>1, <3>2 DEF InOrder, OneRequest, SessionsInOrder, DevicesInOrder, SessionsOn, rows
  <2>4. QED
    BY <2>2, <2>3
<1>4. QED
  BY <1>3 DEF OrderInv

\* A request that goes on as q, or has ended, and touches no account but its own.
LEMMA OrderMoved ==
    ASSUME IInv, IInv', Known, OrderInv, NEW r \in Requests, NEW v \in Users, For(v, r), NEW q,
           req' = [req EXCEPT ![r] = q], UNCHANGED overlapped, q.pc = "idle" \/ q.user = v,
           \A u \in Users \ {v} : Untouched(u),
           v \notin overlapped /\ InOrder(v) =>
               /\ password'[v] = latest'[v]
               /\ SessionsInOrder(v)' /\ DevicesInOrder(v)'
               /\ q.pc # "idle" => StillSo(v, req[r])'
    PROVE  OrderInv'
<1>1. req'[r] = q /\ \A x \in Requests \ {r} : req'[x] = req[x]
  BY DEF IInv, TypeOK
<1>2. ASSUME NEW u \in Users \ overlapped' PROVE InOrder(u)'
  <2>1. InOrder(u)
    BY <1>2 DEF OrderInv
  <2>2. CASE u # v
    <3>1. Untouched(u) /\ \A x \in Requests : req'[x] = req[x] \/ ~For(u, x)'
      BY <1>1, <2>2 DEF For
    <3>2. QED
      BY <2>1, <3>1, OrderKept
  <2>3. CASE u = v
    <3>1. \A x \in Requests : For(u, x)' => x = r /\ q.pc # "idle"
      BY <1>1, <2>1, <2>3 DEF For, InOrder, OneRequest
    <3>2. /\ password'[v] = latest'[v]
          /\ SessionsInOrder(v)' /\ DevicesInOrder(v)'
          /\ q.pc # "idle" => StillSo(v, req[r])'
      BY <1>2, <2>1, <2>3
    <3>3. QED
      BY <2>3, <3>1, <3>2 DEF InOrder, OneRequest
  <2>4. QED
    BY <2>2, <2>3
<1>3. QED
  BY <1>2 DEF OrderInv

\* A step that at most ends requests, sessions and licences.
LEMMA OrderEnded ==
    ASSUME IInv, IInv', Known, OrderInv, UNCHANGED overlapped,
           \A u \in Users : Untouched(u),
           \A r \in Requests : req'[r] = req[r] \/ req'[r].pc = "idle"
    PROVE  OrderInv'
<1>1. ASSUME NEW u \in Users \ overlapped' PROVE InOrder(u)'
  BY <1>1, OrderKept DEF OrderInv, For
<1>2. QED
  BY <1>1 DEF OrderInv

\* How the rows of sessions change: for whom, and for whom not.
LEMMA EndTouches ==
    ASSUME IInv, NEW S, sessions' = End(S)
    PROVE  \A s \in SessionIds : \/ sessions'[s] = sessions[s]
                                 \/ sessions'[s].state # "live" /\ sessions'[s].user = sessions[s].user
<1>1. ASSUME NEW s \in SessionIds
      PROVE  \/ End(S)[s] = sessions[s]
             \/ End(S)[s].state # "live" /\ End(S)[s].user = sessions[s].user
  <2>1. sessions[s] \in SessionType
    BY DEF IInv, TypeOK
  <2>2. CASE s \in S /\ sessions[s].state = "live"
    <3>1. End(S)[s] = [sessions[s] EXCEPT !.state = "ended"]
      BY <2>2 DEF End
    <3>2. QED
      BY <2>1, <3>1 DEF SessionType, NoSession
  <2>3. CASE ~(s \in S /\ sessions[s].state = "live")
    BY <2>3 DEF End
  <2>4. QED
    BY <2>2, <2>3
<1>2. QED
  BY <1>1

LEMMA EndEnds ==
    ASSUME IInv, NEW S, NEW s \in S \cap SessionIds
    PROVE  End(S)[s].state # "live"
<1>1. sessions[s] \in SessionType
  BY DEF IInv, TypeOK
<1>2. CASE sessions[s].state = "live"
  <2>1. End(S)[s] = [sessions[s] EXCEPT !.state = "ended"]
    BY <1>2 DEF End
  <2>2. QED
    BY <1>1, <2>1 DEF SessionType, NoSession
<1>3. CASE sessions[s].state # "live"
  BY <1>3 DEF End
<1>4. QED
  BY <1>2, <1>3

\* The session a login opens is the only row it changes.
LEMMA CreateIs ==
    ASSUME IInv, NEW u \in Users, NEW d, NEW p, CreateSession(u, d, p)
    PROVE  \E s \in SessionIds :
              /\ sessions[s].user = NoUser
              /\ sessions'[s].user = u /\ sessions'[s].device = d /\ sessions'[s].password = p
              /\ \A t \in SessionIds \ {s} : sessions'[t] = sessions[t]
<1>1. PICK s \in SessionIds : /\ sessions[s].state = "unused"
                              /\ sessions' = [sessions EXCEPT ![s] =
                                    [user |-> u, device |-> d, state |-> "live", password |-> p]]
  BY DEF CreateSession, NextSession
<1>2. sessions[s].user = NoUser
  BY <1>1 DEF IInv, TypeOK, SessionType, NoSession
<1>3. QED
  BY <1>1, <1>2 DEF IInv, TypeOK

\* And the device it binds, if it does.
LEMMA BindIs ==
    ASSUME IInv, NEW new, NEW d \in DeviceIds, NextDevice(d),
           devices' = [devices EXCEPT ![d] = new]
    PROVE  /\ devices[d].student = NoUser
           /\ devices'[d] = new
           /\ \A e \in DeviceIds \ {d} : devices'[e] = devices[e]
BY DEF IInv, TypeOK, DeviceType, NoDevice, NextDevice

\* A login that opens its session leaves the account in order, if the account is as it has read.
LEMMA OpenedInOrder ==
    ASSUME IInv, NEW v \in Users, NEW d, NEW p, InOrder(v), CreateSession(v, d, p), p = latest[v],
           status[v] = "ACTIVE", v \notin archived,
           UNCHANGED <<latest, status, archived, licensed>>,
           \A e \in DeviceIds : devices'[e].status = "RESET" =>
               e # d /\ devices'[e] = devices[e]
    PROVE  SessionsInOrder(v)' /\ DevicesInOrder(v)'
<1>1. PICK s \in SessionIds :
          /\ sessions'[s].user = v /\ sessions'[s].device = d /\ sessions'[s].password = latest[v]
          /\ \A t \in SessionIds \ {s} : sessions'[t] = sessions[t]
  BY CreateIs
<1>2. SessionsInOrder(v)'
  BY <1>1 DEF InOrder, SessionsInOrder
<1>3. DevicesInOrder(v)'
  BY <1>1 DEF InOrder, DevicesInOrder, SessionsOn
<1>4. QED
  BY <1>2, <1>3

LEMMA OrderInit == Init => OrderInv
BY DEF Init, OrderInv, InOrder, OneRequest, For, Idle, SessionsInOrder, DevicesInOrder, NoSession, NoDevice

LEMMA OrderLogin ==
    ASSUME IInv, IInv', Known, OrderInv, NEW r \in Requests,
           \/ \E u \in Users, phone \in Phones \cup {NoPhone} : Login(r, u, phone)
           \/ Rehash(r) \/ Bind(r) \/ OpenSession(r) \/ Rejected(r)
    PROVE  OrderInv'
<1> USE UsersAssumption DEF Users
<1>0. /\ req[r] \in RequestType /\ RefIn(req[r], devices, sessions)
      /\ req \in [Requests -> RequestType]
  BY DEF IInv, TypeOK, RequestRefs
<1>1. ASSUME NEW u \in Users, NEW phone, Login(r, u, phone) PROVE OrderInv'
  <2> DEFINE pc == IF u \in oldHash THEN "rehash" ELSE IF u \in Staff THEN "open" ELSE "bind"
             q == [Idle EXCEPT !.pc = pc, !.user = u, !.password = password[u], !.phone = phone]
  <2>1. q.pc = pc /\ q.user = u /\ q.password = password[u] /\ q.device = 0
    BY DEF Idle
  <2>2. u \in Staff => ActiveDevices(u) = {}
    BY DEF ActiveDevices, IInv, TypeOK, DeviceType, NoDevice
  <2>3. u \notin overlapped => StillSo(u, q)
    <3>1. u \notin overlapped => password[u] = latest[u]
      BY DEF OrderInv, InOrder
    <3>2. status[u] = "ACTIVE" /\ u \notin archived
      BY <1>1 DEF Login
    <3>3. QED
      <4> HIDE DEF q
      <4> QED BY <2>1, <2>2, <3>1, <3>2 DEF StillSo
  <2>4. Begin(r, u, q) /\ UNCHANGED rows
    BY <1>1 DEF Login
  <2>5. q.pc # "idle"
    BY <2>1
  <2>6. QED
    <3> HIDE DEF q
    <3> QED BY <2>1, <2>3, <2>4, <2>5, OrderBegun
<1>2. ASSUME req[r].pc \in LoginSteps
      PROVE  \E v \in Users : v = req[r].user /\ For(v, r)
  BY <1>0, <1>2 DEF RefIn, For, LoginSteps
<1>3. ASSUME Rehash(r) PROVE OrderInv'
  <2>0. PICK v \in Users : v = req[r].user /\ For(v, r)
    BY <1>2, <1>3 DEF Rehash, LoginSteps
  <2>1. req[r].pc = "rehash" /\ req[r].device = 0
    BY <1>0, <1>3 DEF Rehash, RefIn
  <2> DEFINE q == [req[r] EXCEPT !.pc = IF v \in Staff THEN "open" ELSE "bind"]
  <2>2. /\ req' = [req EXCEPT ![r] = q] /\ UNCHANGED overlapped
        /\ q.user = v /\ q.device = 0 /\ q.password = req[r].password
        /\ q.pc = IF v \in Staff THEN "open" ELSE "bind"
    BY <1>0, <1>3, <2>0, <2>1 DEF Rehash, Goto, RequestType
  <2>3. \A u \in Users \ {v} : Untouched(u)
    BY <1>3, <2>0 DEF Rehash, Untouched, IInv, TypeOK
  <2>4. ASSUME v \notin overlapped, InOrder(v)
        PROVE  /\ password'[v] = latest'[v]
               /\ SessionsInOrder(v)' /\ DevicesInOrder(v)'
               /\ StillSo(v, req[r])'
    <3>1. req[r].password = latest[v] /\ status[v] = "ACTIVE" /\ v \notin archived
      BY <2>0, <2>1, <2>4 DEF InOrder, StillSo
    <3>2. password'[v] = latest'[v]
      BY <1>3, <2>0, <3>1 DEF Rehash, IInv, TypeOK
    <3>3. SessionsInOrder(v)' /\ DevicesInOrder(v)'
      BY <1>3, <2>4 DEF Rehash, InOrder, SessionsInOrder, DevicesInOrder, SessionsOn
    <3>4. v \in Staff => ActiveDevices(v)' = {}
      BY <1>3 DEF Rehash, ActiveDevices, IInv, TypeOK, DeviceType, NoDevice
    <3>5. req'[r] = q
      BY <1>0, <2>2
    <3>6. StillSo(v, req[r])'
      <4> HIDE DEF q
      <4> QED BY <1>3, <2>2, <3>1, <3>4, <3>5 DEF Rehash, StillSo
    <3>7. QED
      BY <3>2, <3>3, <3>6
  <2>5. QED
    <3> HIDE DEF q
    <3> QED BY <2>0, <2>2, <2>3, <2>4, OrderMoved
<1>4. ASSUME Bind(r) PROVE OrderInv'
  <2>0. PICK v \in Users : v = req[r].user /\ For(v, r)
    BY <1>2, <1>4 DEF Bind, LoginSteps
  <2>1. req[r].pc = "bind" /\ req[r].device = 0 /\ UNCHANGED <<rows, overlapped>>
    BY <1>0, <1>4 DEF Bind, Goto, RefIn
  <2>2. PICK q \in RequestType :
           /\ req' = [req EXCEPT ![r] = q] /\ q.user = v /\ q.password = req[r].password
           /\ \/ q.pc = "open" /\ q.device = 0 /\ ActiveDevices(v) = {}
              \/ q.pc = "open" /\ q.device \in ActiveDevices(v)
              \/ q.pc = "rejected"
    <3>1. CASE ActiveDevices(v) = {} /\ Goto(r, "open")
      <4>1. [req[r] EXCEPT !.pc = "open"] \in RequestType
        BY <1>0 DEF RequestType
      <4>2. QED
        BY <1>0, <2>0, <2>1, <3>1, <4>1 DEF Goto, RequestType
    <3>2. CASE Goto(r, "rejected")
      <4>1. [req[r] EXCEPT !.pc = "rejected"] \in RequestType
        BY <1>0 DEF RequestType
      <4>2. QED
        BY <1>0, <2>0, <3>2, <4>1 DEF Goto, RequestType
    <3>3. ASSUME NEW d \in ActiveDevices(v), req' = [req EXCEPT ![r].pc = "open", ![r].device = d]
          PROVE  \E q \in RequestType :
                    /\ req' = [req EXCEPT ![r] = q] /\ q.user = v /\ q.password = req[r].password
                    /\ q.pc = "open" /\ q.device \in ActiveDevices(v)
      <4> DEFINE q == [req[r] EXCEPT !.pc = "open", !.device = d]
      <4>1. q \in RequestType /\ q.user = v /\ q.password = req[r].password /\ q.pc = "open" /\ q.device = d
        BY <1>0, <2>0, <3>3 DEF RequestType, ActiveDevices
      <4>2. req' = [req EXCEPT ![r] = q]
        BY <1>0, <3>3
      <4>3. QED
        <5> HIDE DEF q
        <5> QED BY <3>3, <4>1, <4>2
    <3>4. QED
      BY <1>4, <2>0, <3>1, <3>2, <3>3 DEF Bind
  <2>3. \A u \in Users \ {v} : Untouched(u)
    BY <2>1 DEF rows, Untouched
  <2>4. ASSUME v \notin overlapped, InOrder(v)
        PROVE  /\ password'[v] = latest'[v]
               /\ SessionsInOrder(v)' /\ DevicesInOrder(v)'
               /\ StillSo(v, req[r])'
    <3>1. req[r].password = latest[v] /\ status[v] = "ACTIVE" /\ v \notin archived
      BY <2>0, <2>1, <2>4 DEF InOrder, StillSo
    <3>2. req'[r] = q
      BY <1>0, <2>2
    <3>3. StillSo(v, req[r])'
      BY <2>1, <2>2, <3>1, <3>2 DEF StillSo, ActiveDevices, rows, OwnSteps, DeviceIds
    <3>4. QED
      BY <2>1, <2>4, <3>3 DEF InOrder, SessionsInOrder, DevicesInOrder, SessionsOn, rows
  <2>5. QED
    BY <2>0, <2>1, <2>2, <2>3, <2>4, OrderMoved
<1>5. ASSUME OpenSession(r) PROVE OrderInv'
  <2>v. PICK v \in Users : v = req[r].user /\ For(v, r)
    BY <1>2, <1>5 DEF OpenSession, LoginSteps
  <2>0. /\ req[r].pc = "open" /\ v = req[r].user /\ For(v, r)
        /\ UNCHANGED <<accounts, status, archived, password, oldHash, latest, licensed>>
    BY <1>5, <2>v DEF OpenSession
  <2>1. ASSUME NEW d, CreateSession(v, d, req[r].password), Reply(r),
               \A e \in DeviceIds : devices'[e] = devices[e] \/ (devices[e].student = NoUser /\ devices'[e].student = v),
               \A e \in DeviceIds : devices'[e].status = "RESET" => devices'[e] = devices[e],
               v \notin overlapped /\ InOrder(v) => d \notin DeviceIds \/ devices'[d].status = "ACTIVE"
        PROVE  OrderInv'
    <3>1. \A u \in Users \ {v} : Untouched(u)
      BY <2>0, <2>1, CreateIs DEF Untouched
    <3>2. ASSUME v \notin overlapped, InOrder(v)
          PROVE  password'[v] = latest'[v] /\ SessionsInOrder(v)' /\ DevicesInOrder(v)'
      <4>1. req[r].password = latest[v] /\ status[v] = "ACTIVE" /\ v \notin archived
        BY <2>0, <3>2 DEF InOrder, StillSo
      <4>2. \A e \in DeviceIds : devices'[e].status = "RESET" => e # d /\ devices'[e] = devices[e]
        BY <2>1, <3>2
      <4>3. SessionsInOrder(v)' /\ DevicesInOrder(v)'
        BY <2>0, <2>1, <3>2, <4>1, <4>2, OpenedInOrder
      <4>4. QED
        BY <2>0, <3>2, <4>3 DEF InOrder
    <3>3. Idle.pc = "idle"
      BY DEF Idle
    <3>4. QED
      BY <2>0, <2>1, <3>1, <3>2, <3>3, OrderMoved DEF Reply
  <2>2. CASE /\ v \in Staff \/ req[r].device # 0
             /\ CreateSession(v, req[r].device, req[r].password)
             /\ Reply(r) /\ UNCHANGED devices
    <3>1. ASSUME v \notin overlapped, InOrder(v), req[r].device # 0
          PROVE  devices[req[r].device].status = "ACTIVE"
      BY <2>0, <3>1 DEF InOrder, StillSo
    <3>2. 0 \notin DeviceIds
      BY DEF DeviceIds
    <3>3. QED
      BY <2>1, <2>2, <3>1, <3>2
  <2>3. ASSUME NEW d \in DeviceIds, NextDevice(d), Reply(r),
               devices' = [devices EXCEPT ![d] = [student |-> v, phone |-> req[r].phone, status |-> "ACTIVE"]],
               CreateSession(v, d, req[r].password)
        PROVE  OrderInv'
    <3> DEFINE new == [student |-> v, phone |-> req[r].phone, status |-> "ACTIVE"]
    <3>0. devices' = [devices EXCEPT ![d] = new] /\ new.student = v /\ new.status = "ACTIVE"
      BY <2>3
    <3>1. /\ devices[d].student = NoUser
          /\ devices'[d].student = v /\ devices'[d].status = "ACTIVE"
          /\ \A e \in DeviceIds \ {d} : devices'[e] = devices[e]
      <4>1. PICK n : n = new
        OBVIOUS
      <4>2. devices' = [devices EXCEPT ![d] = n] /\ n.student = v /\ n.status = "ACTIVE"
        BY <3>0, <4>1
      <4> HIDE DEF new
      <4>3. QED
        BY <2>3, <4>2, BindIs
    <3>2. QED
      BY <2>1, <2>3, <3>1
  <2>4. CASE v \in Students /\ req[r].device = 0 /\ ActiveDevices(v) # {} /\ Goto(r, "rejected") /\ UNCHANGED <<devices, sessions>>
    <3> DEFINE q == [req[r] EXCEPT !.pc = "rejected"]
    <3>1. req' = [req EXCEPT ![r] = q] /\ q.user = v
      BY <1>0, <2>0, <2>4 DEF Goto, RequestType
    <3>2. v \notin overlapped => ~InOrder(v)
      BY <2>0, <2>4 DEF InOrder, StillSo
    <3>3. \A u \in Users \ {v} : Untouched(u)
      BY <2>0, <2>4 DEF Untouched
    <3>4. QED
      <4> HIDE DEF q
      <4> QED BY <2>0, <2>4, <3>1, <3>2, <3>3, OrderMoved DEF Goto
  <2>5. QED
    BY <1>5, <2>0, <2>2, <2>3, <2>4 DEF OpenSession
<1>6. ASSUME Rejected(r) PROVE OrderInv'
  BY <1>0, <1>6, OrderEnded DEF Rejected, Reply, rows, Untouched, Idle
<1>7. QED
  BY <1>1, <1>3, <1>4, <1>5, <1>6

\* A session that goes on was not among those ended.
LEMMA EndLeaves ==
    ASSUME IInv, NEW S, sessions' = End(S)
    PROVE  \A s \in SessionIds : sessions'[s].state = "live" => s \notin S /\ sessions'[s] = sessions[s]
<1>1. ASSUME NEW s \in SessionIds, sessions'[s].state = "live" PROVE s \notin S /\ sessions'[s] = sessions[s]
  BY <1>1, EndTouches, EndEnds
<1>2. QED
  BY <1>1

\* Ending sessions takes no device out of order, and no account out of order that stays open.
LEMMA FewerSessions ==
    ASSUME NEW v \in Users, InOrder(v), UNCHANGED <<devices, licensed>>,
           \A s \in SessionIds : sessions'[s].state = "live" =>
               sessions[s].state = "live" /\ sessions'[s].device = sessions[s].device
    PROVE  DevicesInOrder(v)'
BY DEF InOrder, DevicesInOrder, SessionsOn

\* Only the account of a password change is touched by it.
LEMMA NewPasswordIs ==
    ASSUME IInv, NEW v \in Users, NewPassword(v)
    PROVE  /\ password'[v] = latest'[v] /\ latest'[v] = latest[v] + 1
           /\ \A u \in Users \ {v} : password'[u] = password[u] /\ latest'[u] = latest[u]
BY DEF IInv, TypeOK, NewPassword

LEMMA OrderOwn ==
    ASSUME IInv, IInv', Known, OrderInv, NEW r \in Requests,
           \/ \E s \in SessionIds : Authenticate(r, s)
           \/ Logout(r) \/ VerifyPassword(r) \/ ChangePassword(r) \/ IssueLicence(r)
    PROVE  OrderInv'
<1> USE UsersAssumption DEF Users
<1>0. /\ req[r] \in RequestType /\ RefIn(req[r], devices, sessions)
      /\ req \in [Requests -> RequestType] /\ Idle.pc = "idle"
  BY DEF IInv, TypeOK, RequestRefs, Idle
<1>1. ASSUME NEW s \in SessionIds, Authenticate(r, s) PROVE OrderInv'
  <2>1. PICK pc \in {"logout", "verify", "issue"} :
           /\ pc = "issue" => sessions[s].device # 0
           /\ Begin(r, sessions[s].user, [Idle EXCEPT !.pc = pc, !.user = sessions[s].user,
                                  !.session = s, !.device = sessions[s].device])
    BY <1>1 DEF Authenticate
  <2> DEFINE q == [Idle EXCEPT !.pc = pc, !.user = sessions[s].user,
                               !.session = s, !.device = sessions[s].device]
  <2>2. PICK v \in Users : v = sessions[s].user
    BY <1>1, UsedSession DEF Authenticate, Live, IInv
  <2>3. q.pc = pc /\ q.user = v /\ q.device = sessions[s].device
    BY <2>2 DEF Idle
  <2>4. pc = "issue" => devices[sessions[s].device].status = "ACTIVE"
    <3>1. sessions[s].state = "live" /\ sessions[s].device # 0 => sessions[s].user \in Students
      BY DEF IInv, TypeOK, SessionType, NoSession
    <3>2. QED
      BY <1>1, <2>1, <3>1 DEF Authenticate, Live
  <2>5. StillSo(v, q)
    <3> HIDE DEF q
    <3> QED BY <2>1, <2>3, <2>4 DEF StillSo
  <2>6. Begin(r, v, q) /\ UNCHANGED rows
    <3>1. Begin(r, sessions[s].user, q)
      BY <2>1
    <3> HIDE DEF q
    <3> QED BY <1>1, <2>2, <3>1 DEF Begin, Authenticate
  <2>7. QED
    <3> HIDE DEF q
    <3> QED BY <2>1, <2>3, <2>5, <2>6, OrderBegun
<1>2. ASSUME Logout(r) PROVE OrderInv'
  <2>1. \A u \in Users : Untouched(u)
    BY <1>2, EndTouches DEF Logout, Untouched
  <2>2. \A x \in Requests : req'[x] = req[x] \/ req'[x].pc = "idle"
    BY <1>0, <1>2 DEF Logout, Reply
  <2>3. QED
    BY <1>2, <2>1, <2>2, OrderEnded DEF Logout, Reply
<1>3. ASSUME req[r].pc \in OwnSteps
      PROVE  \E v \in Users : v = req[r].user /\ For(v, r) /\ sessions[req[r].session].user = v
  BY <1>0, <1>3 DEF RefIn, For, OwnSteps, Known
<1>4. ASSUME VerifyPassword(r) PROVE OrderInv'
  <2>1. PICK v \in Users : v = req[r].user /\ For(v, r)
    BY <1>3, <1>4 DEF VerifyPassword, OwnSteps
  <2> DEFINE q == [req[r] EXCEPT !.pc = "change"]
  <2>2. /\ req' = [req EXCEPT ![r] = q] /\ UNCHANGED <<rows, overlapped>>
        /\ q.user = v /\ q.pc = "change"
    BY <1>0, <1>4, <2>1 DEF VerifyPassword, Goto, RequestType
  <2>3. \A u \in Users \ {v} : Untouched(u)
    BY <2>2 DEF Untouched, rows
  <2>4. ASSUME InOrder(v)
        PROVE  /\ password'[v] = latest'[v]
               /\ SessionsInOrder(v)' /\ DevicesInOrder(v)'
               /\ StillSo(v, req[r])'
    <3>1. req'[r] = q
      BY <1>0, <2>2
    <3>2. StillSo(v, req[r])'
      <4> HIDE DEF q
      <4> QED BY <2>2, <3>1 DEF StillSo
    <3>3. QED
      BY <2>2, <2>4, <3>2 DEF InOrder, SessionsInOrder, DevicesInOrder, SessionsOn, rows
  <2>5. QED
    <3> HIDE DEF q
    <3> QED BY <2>1, <2>2, <2>3, <2>4, OrderMoved
<1>5. ASSUME ChangePassword(r) PROVE OrderInv'
  <2>1. PICK v \in Users : v = req[r].user /\ For(v, r) /\ sessions[req[r].session].user = v
    BY <1>3, <1>5 DEF ChangePassword, OwnSteps
  <2>2. PICK own \in SessionIds : own = req[r].session /\ sessions[own].user = v
    BY <1>0, <1>5, <2>1 DEF ChangePassword, RefIn, OwnSteps
  <2>e. PICK ended : ended = End(SessionsOf(v) \ {own})
    OBVIOUS
  <2>3. /\ ended \in [SessionIds -> SessionType]
        /\ \A s \in SessionIds : ended[s].user = sessions[s].user /\ ended[s].device = sessions[s].device
        /\ \A s \in SessionIds : ended[s].state = "live" =>
               sessions[s].state = "live" /\ (s = own \/ sessions[s].user # v)
        /\ \A s \in SessionIds : sessions[s].user # v => ended[s] = sessions[s]
        /\ ended[own] = sessions[own]
    <3>1. /\ ended \in [SessionIds -> SessionType]
          /\ \A s \in SessionIds : ended[s].user = sessions[s].user /\ ended[s].device = sessions[s].device
      BY <2>e, EndHolds DEF IInv
    <3>2. \A s \in SessionIds : ended[s].state = "live" => s \notin SessionsOf(v) \ {own}
      BY <2>e, EndEnds
    <3>3. \A s \in SessionIds : s \notin SessionsOf(v) \ {own} => ended[s] = sessions[s]
      BY <2>e DEF End
    <3>4. \A s \in SessionIds : s \in SessionsOf(v) <=> sessions[s].user = v
      BY DEF SessionsOf
    <3>5. QED
      BY <2>2, <3>1, <3>2, <3>3, <3>4
  <2>4. /\ NewPassword(v) /\ Reply(r)
        /\ sessions' = [ended EXCEPT ![own].password = latest[v] + 1]
        /\ UNCHANGED <<accounts, status, archived, devices, licensed>>
    BY <1>5, <2>1, <2>2, <2>e DEF ChangePassword
  <2>5. /\ \A s \in SessionIds \ {own} : sessions'[s] = ended[s]
        /\ sessions'[own].password = latest[v] + 1 /\ sessions'[own].user = v
        /\ sessions'[own].state = sessions[own].state /\ sessions'[own].device = sessions[own].device
    <3>1. ended[own] \in SessionType /\ ended[own] # NoSession /\ ended[own].user = v
      BY <2>2, <2>3 DEF NoSession
    <3>2. \A p : LET e == [ended[own] EXCEPT !.password = p] IN
              e.password = p /\ e.user = v /\ e.state = ended[own].state /\ e.device = ended[own].device
      BY <3>1 DEF SessionType
    <3>3. sessions' = [ended EXCEPT ![own] = [ended[own] EXCEPT !.password = latest[v] + 1]]
      BY <2>3, <2>4
    <3>4. QED
      BY <2>2, <2>3, <3>2, <3>3
  <2>6. \A u \in Users \ {v} : Untouched(u)
    <3>1. \A u \in Users \ {v} : password'[u] = password[u] /\ latest'[u] = latest[u]
      BY <2>4, NewPasswordIs
    <3>2. \A s \in SessionIds : sessions'[s] = sessions[s] \/ (sessions[s].user = v /\ sessions'[s].user = v)
      BY <2>2, <2>3, <2>5
    <3>3. QED
      BY <2>4, <3>1, <3>2 DEF Untouched
  <2>7. ASSUME InOrder(v)
        PROVE  password'[v] = latest'[v] /\ SessionsInOrder(v)' /\ DevicesInOrder(v)'
    <3>1. password'[v] = latest'[v] /\ latest'[v] = latest[v] + 1
      BY <2>4, NewPasswordIs
    <3>2. \A s \in SessionIds : sessions'[s].state = "live" =>
              sessions[s].state = "live" /\ sessions'[s].device = sessions[s].device
                  /\ (sessions'[s].user = v => s = own)
      BY <2>2, <2>3, <2>5
    <3>3. SessionsInOrder(v)'
      BY <2>1, <2>2, <2>4, <2>5, <2>7, <3>1, <3>2 DEF InOrder, SessionsInOrder
    <3>4. DevicesInOrder(v)'
      BY <2>4, <2>7, <3>2, FewerSessions
    <3>5. QED
      BY <3>1, <3>3, <3>4
  <2>8. QED
    BY <1>0, <2>1, <2>4, <2>6, <2>7, OrderMoved DEF Reply
<1>6. ASSUME IssueLicence(r) PROVE OrderInv'
  <2>1. PICK v \in Users : v = req[r].user /\ For(v, r)
    BY <1>3, <1>6 DEF IssueLicence, OwnSteps
  <2>2. req[r].device \in DeviceIds /\ devices[req[r].device].student = v
    BY <1>0, <1>6, <2>1 DEF IssueLicence, RefIn, Known
  <2>3. \A u \in Users \ {v} : Untouched(u)
    BY <1>6, <2>2 DEF IssueLicence, Untouched
  <2>4. ASSUME InOrder(v)
        PROVE  password'[v] = latest'[v] /\ SessionsInOrder(v)' /\ DevicesInOrder(v)'
    <3>1. devices[req[r].device].status = "ACTIVE"
      BY <1>6, <2>1, <2>4 DEF InOrder, StillSo, IssueLicence
    <3>2. QED
      BY <1>6, <2>4, <3>1 DEF IssueLicence, InOrder, SessionsInOrder, DevicesInOrder, SessionsOn
  <2>5. QED
    BY <1>0, <1>6, <2>1, <2>3, <2>4, OrderMoved DEF IssueLicence, Reply
<1>7. QED
  BY <1>1, <1>2, <1>4, <1>5, <1>6

\* Where the rows of an account are that one staff request writes.
LEMMA OrderStaff ==
    ASSUME IInv, IInv', Known, OrderInv, NEW r \in Requests,
           \/ \E u \in Users : LoadAccount(r, u)
           \/ SetAccountStatus(r) \/ SetAccountArchived(r) \/ ResetAccountPassword(r)
           \/ \E d \in DeviceIds : LoadDevice(r, d)
           \/ ResetDevice(r) \/ RequestFails(r)
    PROVE  OrderInv'
<1> USE UsersAssumption DEF Users
<1>0. /\ req[r] \in RequestType /\ RefIn(req[r], devices, sessions)
      /\ req \in [Requests -> RequestType] /\ Idle.pc = "idle"
  BY DEF IInv, TypeOK, RequestRefs, Idle
<1>1. ASSUME NEW u \in Users, LoadAccount(r, u) PROVE OrderInv'
  <2>1. PICK pc \in StaffSteps : Begin(r, u, [Idle EXCEPT !.pc = pc, !.user = u])
    BY <1>1 DEF LoadAccount, StaffSteps
  <2> DEFINE q == [Idle EXCEPT !.pc = pc, !.user = u]
  <2>2. q.user = u /\ q.pc = pc /\ q.pc # "idle"
    BY DEF Idle, StaffSteps
  <2>3. StillSo(u, q)
    <3> HIDE DEF q
    <3> QED BY <2>2 DEF StillSo, StaffSteps
  <2>4. Begin(r, u, q) /\ UNCHANGED rows
    BY <1>1, <2>1 DEF LoadAccount
  <2>5. QED
    <3> HIDE DEF q
    <3> QED BY <2>2, <2>3, <2>4, OrderBegun
<1>2. ASSUME NEW d \in DeviceIds, LoadDevice(r, d) PROVE OrderInv'
  <2>0. devices[d].student \in Users
    <3>1. devices[d] \in DeviceType /\ devices[d].status = "ACTIVE"
      BY <1>2 DEF LoadDevice, IInv, TypeOK
    <3>2. QED
      BY <3>1 DEF DeviceType, NoDevice
  <2>1. PICK v \in Users : v = devices[d].student
    BY <2>0
  <2> DEFINE q == [Idle EXCEPT !.pc = "resetDevice", !.user = devices[d].student, !.device = d]
  <2>2. q.user = v /\ q.pc = "resetDevice"
    BY <2>1 DEF Idle
  <2>3. StillSo(v, q)
    <3> HIDE DEF q
    <3> QED BY <2>2 DEF StillSo
  <2>4. Begin(r, v, q) /\ UNCHANGED rows
    <3>1. Begin(r, devices[d].student, q) /\ UNCHANGED rows
      BY <1>2 DEF LoadDevice
    <3> HIDE DEF q
    <3> QED BY <2>1, <3>1 DEF Begin
  <2>5. QED
    <3> HIDE DEF q
    <3> QED BY <2>2, <2>3, <2>4, OrderBegun
<1>3. ASSUME req[r].pc \in StaffSteps \/ req[r].pc = "resetDevice"
      PROVE  \E v \in Users : v = req[r].user /\ For(v, r)
  <2>1. req[r].user \in accounts
    BY <1>3 DEF Known, StaffSteps
  <2>2. QED
    BY <1>3, <2>1 DEF For, StaffSteps, IInv, TypeOK
<1>4. ASSUME SetAccountStatus(r) PROVE OrderInv'
  <2>1. PICK v \in Users : v = req[r].user /\ For(v, r)
    BY <1>3, <1>4 DEF SetAccountStatus, StaffSteps
  <2>2. /\ Reply(r) /\ UNCHANGED <<archived, password, latest, devices, licensed>>
        /\ \/ status' = [status EXCEPT ![v] = "DISABLED"] /\ sessions' = End(SessionsOf(v))
           \/ status' = [status EXCEPT ![v] = "ACTIVE"] /\ UNCHANGED sessions
    BY <1>4, <2>1 DEF SetAccountStatus
  <2>3. \A u \in Users \ {v} : Untouched(u)
    BY <2>2, EndTouches DEF Untouched, IInv, TypeOK
  <2>4. ASSUME InOrder(v)
        PROVE  password'[v] = latest'[v] /\ SessionsInOrder(v)' /\ DevicesInOrder(v)'
    <3>1. CASE status' = [status EXCEPT ![v] = "DISABLED"] /\ sessions' = End(SessionsOf(v))
      <4>1. \A s \in SessionIds : sessions'[s].state = "live" =>
                sessions[s].user # v /\ sessions'[s] = sessions[s]
        BY <3>1, EndLeaves DEF SessionsOf
      <4>2. QED
        BY <2>2, <2>4, <4>1, FewerSessions DEF InOrder, SessionsInOrder
    <3>2. CASE status' = [status EXCEPT ![v] = "ACTIVE"] /\ UNCHANGED sessions
      <4>1. status'[v] = "ACTIVE"
        BY <3>2 DEF IInv, TypeOK
      <4>2. QED
        BY <2>2, <2>4, <3>2, <4>1 DEF InOrder, SessionsInOrder, DevicesInOrder, SessionsOn
    <3>3. QED
      BY <2>2, <3>1, <3>2
  <2>5. QED
    BY <1>0, <2>1, <2>2, <2>3, <2>4, OrderMoved DEF Reply
<1>5. ASSUME SetAccountArchived(r) PROVE OrderInv'
  <2>1. PICK v \in Users : v = req[r].user /\ For(v, r)
    BY <1>3, <1>5 DEF SetAccountArchived, StaffSteps
  <2>2. /\ Reply(r) /\ UNCHANGED <<status, password, latest, devices, licensed>>
        /\ \/ archived' = archived \cup {v} /\ sessions' = End(SessionsOf(v))
           \/ archived' = archived \ {v} /\ UNCHANGED sessions
    BY <1>5, <2>1 DEF SetAccountArchived
  <2>3. \A u \in Users \ {v} : Untouched(u)
    BY <2>2, EndTouches DEF Untouched
  <2>4. ASSUME InOrder(v)
        PROVE  password'[v] = latest'[v] /\ SessionsInOrder(v)' /\ DevicesInOrder(v)'
    <3>1. CASE archived' = archived \cup {v} /\ sessions' = End(SessionsOf(v))
      <4>1. \A s \in SessionIds : sessions'[s].state = "live" =>
                sessions[s].user # v /\ sessions'[s] = sessions[s]
        BY <3>1, EndLeaves DEF SessionsOf
      <4>2. QED
        BY <2>2, <2>4, <4>1, FewerSessions DEF InOrder, SessionsInOrder
    <3>2. CASE archived' = archived \ {v} /\ UNCHANGED sessions
      BY <2>2, <2>4, <3>2 DEF InOrder, SessionsInOrder, DevicesInOrder, SessionsOn
    <3>3. QED
      BY <2>2, <3>1, <3>2
  <2>5. QED
    BY <1>0, <2>1, <2>2, <2>3, <2>4, OrderMoved DEF Reply
<1>6. ASSUME ResetAccountPassword(r) PROVE OrderInv'
  <2>1. PICK v \in Users : v = req[r].user /\ For(v, r)
    BY <1>3, <1>6 DEF ResetAccountPassword, StaffSteps
  <2>2. /\ NewPassword(v) /\ sessions' = End(SessionsOf(v))
        /\ Reply(r) /\ UNCHANGED <<status, archived, devices, licensed>>
    <3>1. NewPassword(v)
      BY <1>6, <2>1 DEF ResetAccountPassword, NewPassword
    <3>2. QED
      BY <1>6, <2>1, <3>1 DEF ResetAccountPassword
  <2>3. password'[v] = latest'[v] /\ \A u \in Users \ {v} : password'[u] = password[u] /\ latest'[u] = latest[u]
    BY <2>2, NewPasswordIs
  <2>4. \A u \in Users \ {v} : Untouched(u)
    BY <2>2, <2>3, EndTouches DEF Untouched
  <2>5. ASSUME InOrder(v)
        PROVE  password'[v] = latest'[v] /\ SessionsInOrder(v)' /\ DevicesInOrder(v)'
    <3>1. \A s \in SessionIds : sessions'[s].state = "live" =>
              sessions[s].user # v /\ sessions'[s] = sessions[s]
      BY <2>2, EndLeaves DEF SessionsOf
    <3>2. QED
      BY <2>2, <2>3, <2>5, <3>1, FewerSessions DEF SessionsInOrder
  <2>6. QED
    BY <1>0, <2>1, <2>2, <2>4, <2>5, OrderMoved DEF Reply
<1>7. ASSUME ResetDevice(r) PROVE OrderInv'
  <2>1. PICK v \in Users : v = req[r].user /\ For(v, r)
    BY <1>3, <1>7 DEF ResetDevice
  <2>2. PICK d \in DeviceIds : d = req[r].device /\ devices[d].student = v
    BY <1>0, <1>7, <2>1 DEF ResetDevice, RefIn, Known
  <2>3. /\ devices' = [devices EXCEPT ![d].status = "RESET"]
        /\ sessions' = End(SessionsOn(d)) /\ licensed' = licensed \ {d}
        /\ Reply(r) /\ UNCHANGED <<status, archived, password, latest>>
    BY <1>7, <2>2 DEF ResetDevice
  <2>4. /\ devices'[d].student = v
        /\ \A e \in DeviceIds \ {d} : devices'[e] = devices[e]
    <3>1. devices[d] \in DeviceType /\ devices \in [DeviceIds -> DeviceType]
      BY DEF IInv, TypeOK
    <3>2. devices' = [devices EXCEPT ![d] = [devices[d] EXCEPT !.status = "RESET"]]
      BY <2>3, <3>1
    <3>3. [devices[d] EXCEPT !.status = "RESET"].student = v
      BY <2>2, <3>1 DEF DeviceType, NoDevice
    <3>4. QED
      BY <3>1, <3>2, <3>3
  <2>5. \A u \in Users \ {v} : Untouched(u)
    BY <2>2, <2>3, <2>4, EndTouches DEF Untouched
  <2>6. ASSUME InOrder(v)
        PROVE  password'[v] = latest'[v] /\ SessionsInOrder(v)' /\ DevicesInOrder(v)'
    <3>1. \A s \in SessionIds : sessions'[s].state = "live" =>
              sessions[s].device # d /\ sessions'[s] = sessions[s]
      BY <2>3, EndLeaves DEF SessionsOn
    <3>2. SessionsInOrder(v)'
      BY <2>3, <2>6, <3>1 DEF InOrder, SessionsInOrder
    <3>3. DevicesInOrder(v)'
      BY <2>3, <2>4, <2>6, <3>1 DEF InOrder, DevicesInOrder, SessionsOn
    <3>4. QED
      BY <2>3, <2>6, <3>2, <3>3 DEF InOrder
  <2>7. QED
    BY <1>0, <2>1, <2>3, <2>5, <2>6, OrderMoved DEF Reply
<1>8. ASSUME RequestFails(r) PROVE OrderInv'
  BY <1>0, <1>8, OrderEnded DEF RequestFails, Reply, rows, Untouched
<1>9. QED
  BY <1>1, <1>2, <1>4, <1>5, <1>6, <1>7, <1>8

LEMMA OrderOther ==
    ASSUME IInv, IInv', Known, OrderInv,
           \/ \E u \in Users : CreateAccount(u) \/ \E phone \in Phones : RegisterStudent(u, phone)
           \/ \E s \in SessionIds : SessionEnds(s)
           \/ \E d \in DeviceIds : LicenceEnds(d)
    PROVE  OrderInv'
<1>1. ASSUME NEW u \in Users, CreateAccount(u) PROVE OrderInv'
  BY <1>1, OrderEnded DEF CreateAccount, Untouched
<1>2. ASSUME NEW s \in SessionIds, SessionEnds(s) PROVE OrderInv'
  BY <1>2, EndTouches, OrderEnded DEF SessionEnds, Untouched
<1>3. ASSUME NEW d \in DeviceIds, LicenceEnds(d) PROVE OrderInv'
  BY <1>3, OrderEnded DEF LicenceEnds, Untouched
<1>4. ASSUME NEW v \in Users, NEW phone \in Phones, RegisterStudent(v, phone) PROVE OrderInv'
  <2>1. /\ v \notin accounts /\ status[v] = "ACTIVE" /\ v \notin archived
        /\ \A r \in Requests : ~For(v, r)
        /\ UNCHANGED <<status, archived, password, latest, licensed, req, overlapped>>
    BY <1>4 DEF RegisterStudent, Known, For
  <2>2. PICK d \in DeviceIds :
           /\ NextDevice(d) /\ CreateSession(v, d, password[v])
           /\ devices' = [devices EXCEPT ![d] = [student |-> v, phone |-> phone, status |-> "ACTIVE"]]
    BY <1>4 DEF RegisterStudent
  <2>3. /\ devices[d].student = NoUser
        /\ devices'[d].student = v /\ devices'[d].status = "ACTIVE"
        /\ \A e \in DeviceIds \ {d} : devices'[e] = devices[e]
    <3>1. PICK new : new = [student |-> v, phone |-> phone, status |-> "ACTIVE"]
      OBVIOUS
    <3>2. devices' = [devices EXCEPT ![d] = new] /\ new.student = v /\ new.status = "ACTIVE"
      BY <2>2, <3>1
    <3>3. QED
      BY <2>2, <3>2, BindIs
  <2>4. \A u \in Users \ {v} : Untouched(u)
    BY <2>1, <2>2, <2>3, CreateIs, UsersAssumption DEF Untouched
  <2>5. ASSUME NEW u \in Users \ overlapped' PROVE InOrder(u)'
    <3>1. InOrder(u)
      BY <2>1, <2>5 DEF OrderInv
    <3>2. CASE u # v
      BY <2>1, <2>4, <3>1, <3>2, OrderKept
    <3>3. CASE u = v
      <4>1. password[v] = latest[v]
        BY <3>1, <3>3 DEF InOrder
      <4>2. \A e \in DeviceIds : devices'[e].status = "RESET" => e # d /\ devices'[e] = devices[e]
        BY <2>3
      <4>3. SessionsInOrder(v)' /\ DevicesInOrder(v)'
        BY <2>1, <2>2, <3>1, <3>3, <4>1, <4>2, OpenedInOrder
      <4>4. QED
        BY <2>1, <3>3, <4>1, <4>3 DEF InOrder, OneRequest, For
    <3>4. QED
      BY <3>2, <3>3
  <2>6. QED
    BY <2>5 DEF OrderInv
<1>5. QED
  BY <1>1, <1>2, <1>3, <1>4

LEMMA OrderStep == IInv /\ IInv' /\ Known /\ OrderInv /\ [Next]_vars => OrderInv'
<1>1. ASSUME IInv, IInv', Known, OrderInv, Next PROVE OrderInv'
  BY <1>1, OrderLogin, OrderOwn, OrderStaff, OrderOther DEF Next
<1>2. ASSUME OrderInv, UNCHANGED vars PROVE OrderInv'
  BY <1>2 DEF OrderInv, InOrder, OneRequest, For, StillSo, ActiveDevices, SessionsInOrder,
              DevicesInOrder, SessionsOn, vars, rows
<1>3. QED
  BY <1>1, <1>2

LEMMA OrderHolds == Spec => [](IInv /\ Known /\ OrderInv)
<1>1. Init => Known /\ OrderInv
  BY KnownInit, OrderInit
<1>2. IInv /\ IInv' /\ Known /\ OrderInv /\ [Next]_vars => Known' /\ OrderInv'
  BY KnownStep, OrderStep
<1>3. QED
  BY <1>1, <1>2, IInvHolds, PTL DEF Spec

LEMMA OrderImplies ==
    IInv /\ Known /\ OrderInv => PasswordRules /\ ClosedAccountIsOut /\ ResetDeviceIsClean
<1> SUFFICES ASSUME IInv, Known, OrderInv
             PROVE  PasswordRules /\ ClosedAccountIsOut /\ ResetDeviceIsClean
  OBVIOUS
<1>1. ASSUME NEW s \in SessionIds, sessions[s].state = "live"
      PROVE  sessions[s].user \in Users
  BY <1>1, UsedSession DEF IInv
<1>2. ASSUME NEW s \in SessionIds, sessions[s].state = "live", sessions[s].user \notin overlapped
      PROVE  /\ sessions[s].password = latest[sessions[s].user]
             /\ status[sessions[s].user] = "ACTIVE" /\ sessions[s].user \notin archived
  BY <1>1, <1>2 DEF OrderInv, InOrder, SessionsInOrder
<1>3. ASSUME NEW d \in DeviceIds, devices[d].status = "RESET", devices[d].student \notin overlapped
      PROVE  d \notin licensed /\ \A s \in SessionsOn(d) : sessions[s].state # "live"
  <2>1. devices[d].student \in Users
    <3>1. devices[d] \in DeviceType
      BY DEF IInv, TypeOK
    <3>2. QED
      BY <1>3, <3>1 DEF DeviceType, NoDevice, Users
  <2>2. QED
    BY <1>3, <2>1 DEF OrderInv, InOrder, DevicesInOrder
<1>4. \A u \in Users \ overlapped : password[u] = latest[u]
  BY DEF OrderInv, InOrder
<1>5. QED
  BY <1>2, <1>3, <1>4 DEF PasswordRules, ClosedAccountIsOut, ResetDeviceIsClean

\* As long as no two requests of an account overlap, its row holds the password that was set
\* last and whoever is logged in has shown that one: a change of password ends the other
\* sessions, a reset by staff all of them (auth.service.ts, account-admin.service.ts).
THEOREM PasswordsInForce == Spec => []PasswordRules
  BY OrderHolds, OrderImplies, PTL

\* Disabling or archiving an account leaves none of its sessions to come back to life when it
\* is enabled or restored, as long as no two requests of the account overlap.
THEOREM ClosedIsOut == Spec => []ClosedAccountIsOut
  BY OrderHolds, OrderImplies, PTL

\* A device that staff have reset keeps neither a session nor an offline licence, as long as
\* no two requests of its student overlap (resetDevice, devices.service.ts).
THEOREM ResetIsClean == Spec => []ResetDeviceIsClean
  BY OrderHolds, OrderImplies, PTL

\* Where a login can be refused: when the active device is read, or when another login has
\* bound a device meanwhile.
LEMMA WhoRejects ==
    ASSUME IInv, Next, NEW r \in Requests, req[r].pc # "rejected", req'[r].pc = "rejected"
    PROVE  Bind(r) \/ OpenSession(r)
<1>0. req \in [Requests -> RequestType]
  BY DEF IInv, TypeOK
<1>1. ASSUME NEW x \in Requests, NEW q, req' = [req EXCEPT ![x] = q], q.pc # "rejected" PROVE FALSE
  BY <1>0, <1>1
<1>2. ASSUME NEW x \in Requests, Reply(x) PROVE FALSE
  BY <1>1, <1>2 DEF Reply, Idle
<1>3. ASSUME NEW x \in Requests, NEW pc, Goto(x, pc), pc # "rejected" PROVE FALSE
  BY <1>0, <1>3 DEF Goto, RequestType
<1>4. ASSUME NEW x \in Requests, x # r, NEW q, req' = [req EXCEPT ![x] = q] PROVE FALSE
  BY <1>0, <1>4
<1>5. ASSUME NEW x \in Requests, Bind(x) \/ OpenSession(x) PROVE x = r
  <2>1. CASE \E pc : Goto(x, pc)
    BY <1>0, <2>1 DEF Goto
  <2>2. CASE \E d : req' = [req EXCEPT ![x].pc = "open", ![x].device = d]
    BY <1>0, <2>2
  <2>3. CASE Reply(x)
    BY <1>2, <2>3
  <2>4. QED
    BY <1>5, <2>1, <2>2, <2>3 DEF Bind, OpenSession
<1>6. ASSUME NEW x \in Requests, NEW u \in Users, NEW phone, Login(x, u, phone) PROVE FALSE
  <2> DEFINE q == [Idle EXCEPT !.pc = IF u \in oldHash THEN "rehash" ELSE IF u \in Staff THEN "open" ELSE "bind",
                               !.user = u, !.password = password[u], !.phone = phone]
  <2>1. req' = [req EXCEPT ![x] = q] /\ q.pc # "rejected"
    BY <1>6 DEF Login, Begin, Idle
  <2>2. QED
    <3> HIDE DEF q
    <3> QED BY <1>1, <2>1
<1>7. ASSUME NEW x \in Requests, NEW s \in SessionIds, Authenticate(x, s) PROVE FALSE
  <2>1. PICK pc \in {"logout", "verify", "issue"} :
            req' = [req EXCEPT ![x] = [Idle EXCEPT !.pc = pc, !.user = sessions[s].user,
                                           !.session = s, !.device = sessions[s].device]]
    BY <1>7 DEF Authenticate, Begin
  <2> DEFINE q == [Idle EXCEPT !.pc = pc, !.user = sessions[s].user,
                               !.session = s, !.device = sessions[s].device]
  <2>2. q.pc # "rejected"
    BY DEF Idle
  <2>3. QED
    <3> HIDE DEF q
    <3> QED BY <1>1, <2>1, <2>2 DEF q
<1>8. ASSUME NEW x \in Requests, NEW u \in Users, LoadAccount(x, u) PROVE FALSE
  <2>1. PICK pc \in StaffSteps : req' = [req EXCEPT ![x] = [Idle EXCEPT !.pc = pc, !.user = u]]
    BY <1>8 DEF LoadAccount, Begin, StaffSteps
  <2> DEFINE q == [Idle EXCEPT !.pc = pc, !.user = u]
  <2>2. q.pc # "rejected"
    BY DEF Idle, StaffSteps
  <2>3. QED
    <3> HIDE DEF q
    <3> QED BY <1>1, <2>1, <2>2 DEF q
<1>9. ASSUME NEW x \in Requests, NEW d \in DeviceIds, LoadDevice(x, d) PROVE FALSE
  <2> DEFINE q == [Idle EXCEPT !.pc = "resetDevice", !.user = devices[d].student, !.device = d]
  <2>1. req' = [req EXCEPT ![x] = q] /\ q.pc # "rejected"
    BY <1>9 DEF LoadDevice, Begin, Idle
  <2>2. QED
    <3> HIDE DEF q
    <3> QED BY <1>1, <2>1
<1>10. ASSUME NEW x \in Requests, Rehash(x) \/ VerifyPassword(x) PROVE FALSE
  BY <1>3, <1>10 DEF Rehash, VerifyPassword
<1>11. QED
  BY <1>2, <1>5, <1>6, <1>7, <1>8, <1>9, <1>10
     DEF Next, Rejected, Logout, ChangePassword, IssueLicence, SetAccountStatus, SetAccountArchived,
         ResetAccountPassword, ResetDevice, RequestFails, CreateAccount, RegisterStudent,
         SessionEnds, LicenceEnds

LEMMA RejectedStep ==
    ASSUME IInv, Known, OrderInv, Next, NEW r \in Requests,
           req[r].pc # "rejected", req'[r].pc = "rejected", req[r].user \notin overlapped
    PROVE  \E d \in ActiveDevices(req[r].user) : devices[d].phone # req[r].phone
<1>0. req \in [Requests -> RequestType] /\ RefIn(req[r], devices, sessions)
  BY DEF IInv, TypeOK, RequestRefs
<1>1. CASE Bind(r)
  <2>1. CASE Goto(r, "open") \/ \E d : req' = [req EXCEPT ![r].pc = "open", ![r].device = d]
    BY <1>0, <2>1 DEF Goto, RequestType
  <2>2. QED
    BY <1>1, <2>1 DEF Bind
<1>2. CASE OpenSession(r)
  <2>1. CASE Reply(r)
    BY <1>0, <2>1 DEF Reply, Idle
  <2>2. CASE req[r].device = 0 /\ ActiveDevices(req[r].user) # {}
    <3>1. PICK v \in Users : v = req[r].user /\ For(v, r)
      BY <1>0, <1>2 DEF RefIn, For, LoginSteps, OpenSession
    <3>2. StillSo(v, req[r])
      BY <3>1 DEF OrderInv, InOrder
    <3>3. ActiveDevices(v) = {}
      BY <1>2, <2>2, <3>2 DEF StillSo, OpenSession
    <3>4. QED
      BY <2>2, <3>1, <3>3
  <2>3. QED
    BY <1>2, <2>1, <2>2 DEF OpenSession
<1>3. QED
  BY <1>1, <1>2, WhoRejects

\* A login that no other request of the student overlaps is answered DEVICE_ALREADY_BOUND only
\* when the account is bound to another device (bindOrVerifyDevice, device-binding.ts).
THEOREM RejectedFairly == Spec => RejectedAloneForOtherDevice
<1>1. ASSUME IInv, Known, OrderInv, [Next]_vars
      PROVE  [\A r \in Requests :
                 req[r].pc # "rejected" /\ req'[r].pc = "rejected" /\ req[r].user \notin overlapped =>
                 \E d \in ActiveDevices(req[r].user) : devices[d].phone # req[r].phone]_vars
  <2>1. CASE Next
    BY <1>1, <2>1, RejectedStep
  <2>2. CASE UNCHANGED vars
    BY <2>2
  <2>3. QED
    BY <1>1, <2>1, <2>2
<1>2. QED
  BY <1>1, OrderHolds, PTL DEF Spec, RejectedAloneForOtherDevice

(***************************************************************************)
(* What holds of RefreshTokens for any tabs and any number of tokens: the  *)
(* types, one current token, and, as long as answers are not lost, that    *)
(* the tabs of one browser are never taken for a thief; and that a browser *)
(* that refreshes one at a time stays signed in.                           *)
(***************************************************************************)

LEMMA GotoType ==
    ASSUME TokensTypeOK, NEW t \in Tabs, NEW k \in {NoToken} \cup TokenIds,
           NEW pc \in {"idle", "sent", "rotate", "reuse", "answer"},
           pc \in {"sent", "rotate", "reuse"} => k # NoToken,
           TabGoto(t, pc, k)
    PROVE  /\ tab' \in [Tabs -> [pc : {"idle", "sent", "rotate", "reuse", "answer"},
                                 token : {NoToken} \cup TokenIds]]
           /\ \A u \in Tabs : tab'[u].pc \in {"sent", "rotate", "reuse"} => tab'[u].token # NoToken
BY DEF TokensTypeOK, TabGoto, At

LEMMA TypeStep == TokensTypeOK /\ [TokensNext]_tokensVars => TokensTypeOK'
<1> SUFFICES ASSUME TokensTypeOK, [TokensNext]_tokensVars PROVE TokensTypeOK'
  OBVIOUS
<1> USE TokensAssumption DEF TokenIds, NoToken
<1>1. ASSUME NEW t \in Tabs, Send(t) PROVE TokensTypeOK'
  <2>1. cookie \in {NoToken} \cup TokenIds /\ cookie # NoToken /\ TabGoto(t, "sent", cookie)
    BY <1>1 DEF Send, TokensTypeOK
  <2>2. QED
    BY <1>1, <2>1, GotoType DEF Send, TokensTypeOK
<1>2. ASSUME NEW t \in Tabs, Read(t) PROVE TokensTypeOK'
  <2>1. tab[t].token \in TokenIds
    BY <1>2 DEF Read, TokensTypeOK
  <2>2. \/ TabGoto(t, "rotate", tab[t].token) \/ TabGoto(t, "reuse", tab[t].token)
        \/ TabGoto(t, "answer", NoToken)
    BY <1>2 DEF Read
  <2>3. QED
    BY <1>2, <2>1, <2>2, GotoType DEF Read, TokensTypeOK
<1>3. ASSUME NEW t \in Tabs, Rotate(t) PROVE TokensTypeOK'
  <2>1. \/ tokens' = tokens /\ TabGoto(t, "answer", NoToken)
        \/ \E n \in TokenIds : /\ tokens' = [tokens EXCEPT ![tab[t].token] = "recent", ![n] = "current"]
                               /\ TabGoto(t, "answer", n)
    BY <1>3 DEF Rotate
  <2>2. tokens' \in [TokenIds -> {"unused", "current", "recent", "rotated", "deleted"}]
    BY <2>1 DEF TokensTypeOK
  <2>3. QED
    BY <1>3, <2>1, <2>2, GotoType DEF Rotate, TokensTypeOK
<1>4. ASSUME NEW t \in Tabs, Revoke(t) \/ DatabaseFails(t) PROVE TokensTypeOK'
  <2>1. TabGoto(t, "answer", NoToken)
    BY <1>4 DEF Revoke, DatabaseFails
  <2>2. QED
    BY <1>4, <2>1, GotoType DEF Revoke, DatabaseFails, TokensTypeOK
<1>5. ASSUME NEW t \in Tabs, Answer(t) \/ AnswerLost(t) PROVE TokensTypeOK'
  <2>1. TabGoto(t, "idle", NoToken) /\ tab[t].token \in {NoToken} \cup TokenIds
    BY <1>5 DEF Answer, AnswerLost, TokensTypeOK
  <2>2. QED
    BY <1>5, <2>1, GotoType DEF Answer, AnswerLost, TokensTypeOK
<1>6. ASSUME NEW k \in TokenIds, GraceEnds(k) \/ TokenExpires(k) PROVE TokensTypeOK'
  BY <1>6 DEF GraceEnds, TokenExpires, TokensTypeOK
<1>7. CASE SessionOver
  BY <1>7 DEF SessionOver, TokensTypeOK
<1>8. CASE CleanupAuth
  BY <1>8 DEF CleanupAuth, TokensTypeOK
<1>9. CASE UNCHANGED tokensVars
  BY <1>9 DEF tokensVars, TokensTypeOK
<1>10. QED
  BY <1>1, <1>2, <1>3, <1>4, <1>5, <1>6, <1>7, <1>8, <1>9 DEF TokensNext

LEMMA TypeInit == TokensInit => TokensTypeOK
BY TokensAssumption DEF TokensInit, TokensTypeOK, At, TokenIds, NoToken

\* Type correctness, for any number of tabs and tokens: no request is under way without a
\* token (POST /auth/refresh answers at once when there is no cookie).
THEOREM TokensTypeCorrect == TokensSpec => []TokensTypeOK
<1>1. QED
  BY TypeInit, TypeStep, PTL DEF TokensSpec

(***************************************************************************)
(* One current token.                                                      *)
(***************************************************************************)
LEMMA CurrentStep == TokensTypeOK /\ OneCurrentToken /\ [TokensNext]_tokensVars => OneCurrentToken'
<1> SUFFICES ASSUME TokensTypeOK, OneCurrentToken, [TokensNext]_tokensVars PROVE OneCurrentToken'
  OBVIOUS
<1>1. ASSUME NEW t \in Tabs, Rotate(t), tokens[tab[t].token] = "current" PROVE OneCurrentToken'
  <2>1. tab[t].token \in TokenIds
    BY <1>1 DEF Rotate, TokensTypeOK
  <2>2. PICK n \in TokenIds : /\ tokens[n] = "unused"
                              /\ tokens' = [tokens EXCEPT ![tab[t].token] = "recent", ![n] = "current"]
    BY <1>1 DEF Rotate
  <2>3. \A m \in TokenIds : tokens'[m] = "current" => m = n
    BY <1>1, <2>1, <2>2 DEF OneCurrentToken, TokensTypeOK
  <2>4. QED
    BY <2>3 DEF OneCurrentToken
<1>2. ASSUME \A m \in TokenIds : tokens'[m] = "current" => tokens[m] = "current"
      PROVE  OneCurrentToken'
  BY <1>2 DEF OneCurrentToken
<1>3. ASSUME tokens' = tokens PROVE OneCurrentToken'
  BY <1>2, <1>3
<1>4. ASSUME NEW k \in TokenIds, GraceEnds(k) PROVE OneCurrentToken'
  BY <1>2, <1>4 DEF GraceEnds, TokensTypeOK
<1>5. CASE CleanupAuth
  BY <1>2, <1>5 DEF CleanupAuth, TokensTypeOK
<1>6. ASSUME NEW t \in Tabs, Rotate(t), tokens[tab[t].token] # "current" PROVE OneCurrentToken'
  BY <1>3, <1>6 DEF Rotate
<1>7. QED
  BY <1>1, <1>3, <1>4, <1>5, <1>6
     DEF TokensNext, tokensVars, Send, Read, Revoke, DatabaseFails, Answer, AnswerLost, TokenExpires, SessionOver

\* The conditional update of rotateRefreshToken: however many requests present a token, and
\* whatever fails, a session never has two tokens that can be exchanged.
THEOREM OneCurrent == TokensSpec => []OneCurrentToken
<1>1. TokensInit => OneCurrentToken
  BY DEF TokensInit, OneCurrentToken
<1>2. QED
  BY <1>1, TokensTypeCorrect, CurrentStep, PTL DEF TokensSpec

(***************************************************************************)
(* A race is not theft.  A token on its way back to the browser is known   *)
(* to nobody else; the cookie is out of date only while an answer is on    *)
(* its way, and then no grace ends.                                        *)
(***************************************************************************)
AnswersAreNews ==
    \A t \in Tabs : tab[t].pc = "answer" /\ tab[t].token # NoToken =>
        /\ tokens[tab[t].token] \in {"current", "deleted"}
        /\ cookie # tab[t].token
        /\ \A u \in Tabs : u # t => tab[u].token # tab[t].token

SentTokensRecent ==
    \A t \in Tabs : tab[t].pc \in {"sent", "rotate"} => tokens[tab[t].token] \notin {"unused", "rotated"}

CookieUpToDate ==
    cookie # NoToken =>
        /\ tokens[cookie] \notin {"unused", "rotated"}
        /\ tokens[cookie] = "recent" => \E t \in Tabs : tab[t].pc = "answer"

NobodyAccused ==
    /\ session # "reuse"
    /\ \A t \in Tabs : tab[t].pc # "reuse"

IdleWithout == \A t \in Tabs : tab[t].pc = "idle" => tab[t].token = NoToken

RaceInv == AnswersAreNews /\ SentTokensRecent /\ CookieUpToDate /\ NobodyAccused /\ IdleWithout

\* Where a tab is after a step of its own, and that the others stay.
LEMMA GotoIs ==
    ASSUME TokensTypeOK, NEW t \in Tabs, NEW pc, NEW k, TabGoto(t, pc, k)
    PROVE  /\ tab'[t].pc = pc /\ tab'[t].token = k
           /\ \A u \in Tabs : u # t => tab'[u] = tab[u]
BY DEF TokensTypeOK, TabGoto, At

LEMMA RaceSend ==
    ASSUME TokensTypeOK, RaceInv, NEW t \in Tabs, Send(t) PROVE RaceInv'
<1>1. /\ tab'[t].pc = "sent" /\ tab'[t].token = cookie
      /\ \A u \in Tabs : u # t => tab'[u] = tab[u]
  BY GotoIs DEF Send
<1>2. tab[t].pc = "idle" /\ cookie # NoToken /\ UNCHANGED <<tokens, session, cookie>>
  BY DEF Send
<1>3. AnswersAreNews'
  BY <1>1, <1>2 DEF RaceInv, AnswersAreNews
<1>4. SentTokensRecent'
  BY <1>1, <1>2 DEF RaceInv, SentTokensRecent, CookieUpToDate
<1>5. CookieUpToDate'
  BY <1>1, <1>2 DEF RaceInv, CookieUpToDate
<1>6. NobodyAccused' /\ IdleWithout'
  BY <1>1, <1>2 DEF RaceInv, NobodyAccused, IdleWithout
<1>7. QED
  BY <1>3, <1>4, <1>5, <1>6 DEF RaceInv

LEMMA RaceRead ==
    ASSUME TokensTypeOK, RaceInv, NEW t \in Tabs, Read(t) PROVE RaceInv'
<1>1. tab[t].pc = "sent" /\ UNCHANGED <<tokens, session, cookie>>
  BY DEF Read
<1>2. tokens[tab[t].token] # "rotated"
  BY <1>1 DEF RaceInv, SentTokensRecent
<1>3. TabGoto(t, "rotate", tab[t].token) \/ TabGoto(t, "answer", NoToken)
  BY <1>2 DEF Read
<1>4. /\ \/ tab'[t].pc = "rotate" /\ tab'[t].token = tab[t].token
         \/ tab'[t].pc = "answer" /\ tab'[t].token = NoToken
      /\ \A u \in Tabs : u # t => tab'[u] = tab[u]
  BY <1>3, GotoIs
<1>5. AnswersAreNews'
  <2>1. tab[t].token # NoToken
    BY <1>1 DEF TokensTypeOK
  <2>2. QED
    BY <1>1, <1>4, <2>1 DEF RaceInv, AnswersAreNews
<1>6. SentTokensRecent'
  BY <1>1, <1>4 DEF RaceInv, SentTokensRecent
<1>7. CookieUpToDate'
  BY <1>1, <1>4 DEF RaceInv, CookieUpToDate
<1>8. NobodyAccused' /\ IdleWithout'
  BY <1>1, <1>4 DEF RaceInv, NobodyAccused, IdleWithout
<1>9. QED
  BY <1>5, <1>6, <1>7, <1>8 DEF RaceInv

\* A tab that gets a refusal.
LEMMA RaceRefused ==
    ASSUME TokensTypeOK, RaceInv, NEW t \in Tabs, TabGoto(t, "answer", NoToken),
           UNCHANGED <<tokens, session, cookie>>
    PROVE  RaceInv'
<1>1. /\ tab'[t].pc = "answer" /\ tab'[t].token = NoToken
      /\ \A u \in Tabs : u # t => tab'[u] = tab[u]
  BY GotoIs
<1>2. AnswersAreNews'
  BY <1>1 DEF RaceInv, AnswersAreNews
<1>3. SentTokensRecent'
  BY <1>1 DEF RaceInv, SentTokensRecent
<1>4. CookieUpToDate'
  BY <1>1 DEF RaceInv, CookieUpToDate
<1>5. NobodyAccused' /\ IdleWithout'
  BY <1>1 DEF RaceInv, NobodyAccused, IdleWithout
<1>6. QED
  BY <1>2, <1>3, <1>4, <1>5 DEF RaceInv

LEMMA RaceRotated ==
    ASSUME TokensTypeOK, RaceInv, NEW t \in Tabs, Rotate(t), tokens[tab[t].token] = "current"
    PROVE  RaceInv'
<1> DEFINE k == tab[t].token
<1>1. k \in TokenIds /\ tab[t].pc = "rotate" /\ UNCHANGED <<session, cookie>>
  BY DEF Rotate, TokensTypeOK
<1>2. PICK n \in TokenIds : /\ tokens[n] = "unused"
                            /\ tokens' = [tokens EXCEPT ![k] = "recent", ![n] = "current"]
                            /\ TabGoto(t, "answer", n)
  BY DEF Rotate
<1>3. /\ tokens'[n] = "current" /\ tokens'[k] = "recent" /\ n # k
      /\ \A m \in TokenIds \ {k, n} : tokens'[m] = tokens[m]
  BY <1>1, <1>2 DEF TokensTypeOK
<1>4. /\ tab'[t].pc = "answer" /\ tab'[t].token = n
      /\ \A u \in Tabs : u # t => tab'[u] = tab[u]
  BY <1>2, GotoIs
<1>5. n # NoToken
  BY TokensAssumption DEF TokenIds, NoToken
<1>6. cookie # n
  BY <1>2, <1>5 DEF RaceInv, CookieUpToDate
<1>7. ASSUME NEW u \in Tabs PROVE tab[u].token # n
  <2>1. tab[u].pc \in {"idle", "sent", "rotate", "reuse", "answer"}
    BY DEF TokensTypeOK
  <2>2. QED
    BY <1>2, <1>5, <2>1
       DEF RaceInv, AnswersAreNews, SentTokensRecent, NobodyAccused, IdleWithout
<1>8. AnswersAreNews'
  <2>1. SUFFICES ASSUME NEW u \in Tabs, tab'[u].pc = "answer", tab'[u].token # NoToken
                 PROVE  /\ tokens'[tab'[u].token] \in {"current", "deleted"}
                        /\ cookie' # tab'[u].token
                        /\ \A v \in Tabs : v # u => tab'[v].token # tab'[u].token
    BY DEF AnswersAreNews
  <2>2. CASE u = t
    BY <1>1, <1>3, <1>4, <1>6, <1>7, <2>2
  <2>3. CASE u # t
    <3>1. tab'[u] = tab[u] /\ tab[u].token # k /\ tab[u].token # n /\ tab[u].token \in TokenIds
      BY <1>4, <1>7, <2>1, <2>3 DEF RaceInv, AnswersAreNews, TokensTypeOK
    <3>2. QED
      BY <1>1, <1>3, <1>4, <2>1, <2>3, <3>1 DEF RaceInv, AnswersAreNews
  <2>4. QED
    BY <2>2, <2>3
<1>9. SentTokensRecent'
  <2>1. SUFFICES ASSUME NEW u \in Tabs, tab'[u].pc \in {"sent", "rotate"}
                 PROVE  tokens'[tab'[u].token] \notin {"unused", "rotated"}
    BY DEF SentTokensRecent
  <2>2. u # t /\ tab'[u] = tab[u] /\ tab[u].token \in TokenIds
    BY <1>4, <2>1 DEF TokensTypeOK
  <2>3. QED
    BY <1>3, <2>1, <2>2 DEF RaceInv, SentTokensRecent
<1>10. CookieUpToDate'
  <2>1. cookie # NoToken => cookie \in TokenIds
    BY DEF TokensTypeOK
  <2>2. QED
    BY <1>1, <1>3, <1>4, <2>1 DEF RaceInv, CookieUpToDate
<1>11. NobodyAccused' /\ IdleWithout'
  BY <1>1, <1>4 DEF RaceInv, NobodyAccused, IdleWithout
<1>12. QED
  BY <1>8, <1>9, <1>10, <1>11 DEF RaceInv

LEMMA RaceAnswer ==
    ASSUME TokensTypeOK, RaceInv, NEW t \in Tabs, Answer(t) PROVE RaceInv'
<1>1. /\ tab'[t].pc = "idle" /\ tab'[t].token = NoToken
      /\ \A u \in Tabs : u # t => tab'[u] = tab[u]
  BY GotoIs DEF Answer
<1>2. tab[t].pc = "answer" /\ cookie' = tab[t].token /\ UNCHANGED <<tokens, session>>
  BY DEF Answer
<1>3. AnswersAreNews'
  BY <1>1, <1>2 DEF RaceInv, AnswersAreNews
<1>4. SentTokensRecent'
  BY <1>1, <1>2 DEF RaceInv, SentTokensRecent
<1>5. CookieUpToDate'
  BY <1>1, <1>2 DEF RaceInv, CookieUpToDate, AnswersAreNews
<1>6. NobodyAccused' /\ IdleWithout'
  BY <1>1, <1>2 DEF RaceInv, NobodyAccused, IdleWithout
<1>7. QED
  BY <1>3, <1>4, <1>5, <1>6 DEF RaceInv

\* Tokens that grow old or go while nobody holds one that matters.
LEMMA RaceTime ==
    ASSUME TokensTypeOK, RaceInv, UNCHANGED <<cookie, tab>>, session' # "reuse",
           \A k \in TokenIds : \/ tokens'[k] = tokens[k]
                               \/ tokens[k] # "unused" /\ tokens'[k] = "deleted"
                               \/ /\ tokens[k] = "recent" /\ tokens'[k] = "rotated"
                                  /\ \A t \in Tabs : tab[t].pc = "idle"
    PROVE  RaceInv'
<1>1. AnswersAreNews'
  <2>1. \A t \in Tabs : tab[t].token # NoToken => tab[t].token \in TokenIds
    BY DEF TokensTypeOK
  <2>2. QED
    BY <2>1 DEF RaceInv, AnswersAreNews
<1>2. SentTokensRecent'
  <2>1. \A t \in Tabs : tab[t].pc \in {"sent", "rotate"} => tab[t].token \in TokenIds
    BY DEF TokensTypeOK
  <2>2. QED
    BY <2>1 DEF RaceInv, SentTokensRecent
<1>3. CookieUpToDate'
  <2>1. cookie # NoToken => cookie \in TokenIds
    BY DEF TokensTypeOK
  <2>2. QED
    BY <2>1 DEF RaceInv, CookieUpToDate
<1>4. NobodyAccused' /\ IdleWithout'
  BY DEF RaceInv, NobodyAccused, IdleWithout
<1>5. QED
  BY <1>1, <1>2, <1>3, <1>4 DEF RaceInv

\* A step other than the loss of an answer.
LEMMA RaceStep ==
    ASSUME TokensTypeOK, RaceInv, [TokensNext]_tokensVars, "lost" \notin mishaps' PROVE RaceInv'
<1>1. ASSUME NEW t \in Tabs, Send(t) PROVE RaceInv'
  BY <1>1, RaceSend
<1>2. ASSUME NEW t \in Tabs, Read(t) PROVE RaceInv'
  BY <1>2, RaceRead
<1>3. ASSUME NEW t \in Tabs, Rotate(t) PROVE RaceInv'
  <2>1. CASE tokens[tab[t].token] = "current"
    BY <1>3, <2>1, RaceRotated
  <2>2. CASE tokens[tab[t].token] # "current"
    <3>1. TabGoto(t, "answer", NoToken) /\ UNCHANGED <<tokens, session, cookie>>
      BY <1>3, <2>2 DEF Rotate
    <3>2. QED
      BY <3>1, RaceRefused
  <2>3. QED
    BY <2>1, <2>2
<1>4. ASSUME NEW t \in Tabs, Revoke(t) PROVE RaceInv'
  BY <1>4 DEF Revoke, RaceInv, NobodyAccused
<1>5. ASSUME NEW t \in Tabs, DatabaseFails(t) PROVE RaceInv'
  <2>1. TabGoto(t, "answer", NoToken) /\ UNCHANGED <<tokens, session, cookie>>
    BY <1>5 DEF DatabaseFails
  <2>2. QED
    BY <2>1, RaceRefused
<1>6. ASSUME NEW t \in Tabs, Answer(t) \/ AnswerLost(t) PROVE RaceInv'
  BY <1>6, RaceAnswer DEF AnswerLost, TokensTypeOK
<1>7. ASSUME NEW k \in TokenIds, GraceEnds(k) PROVE RaceInv'
  <2>1. /\ UNCHANGED <<cookie, tab, session>> /\ tokens[k] = "recent"
        /\ \A t \in Tabs : tab[t].pc = "idle"
        /\ tokens' = [tokens EXCEPT ![k] = "rotated"]
    BY <1>7 DEF GraceEnds
  <2>2. session' # "reuse"
    BY <2>1 DEF RaceInv, NobodyAccused
  <2>3. \A m \in TokenIds : \/ tokens'[m] = tokens[m]
                            \/ tokens[m] = "recent" /\ tokens'[m] = "rotated"
    BY <2>1 DEF TokensTypeOK
  <2>4. QED
    BY <2>1, <2>2, <2>3, RaceTime
<1>8. CASE \E k \in TokenIds : TokenExpires(k)
  BY <1>8, RaceTime DEF TokenExpires, RaceInv, NobodyAccused
<1>9. CASE SessionOver
  BY <1>9, RaceTime DEF SessionOver
<1>10. CASE CleanupAuth
  <2>1. UNCHANGED <<cookie, tab>> /\ session' \in {session, "deleted"}
    BY <1>10 DEF CleanupAuth
  <2>2. session' # "reuse"
    BY <2>1 DEF RaceInv, NobodyAccused
  <2>3. \A k \in TokenIds : \/ tokens'[k] = tokens[k]
                            \/ tokens[k] # "unused" /\ tokens'[k] = "deleted"
    BY <1>10 DEF CleanupAuth
  <2>4. QED
    BY <2>1, <2>2, <2>3, RaceTime
<1>11. CASE UNCHANGED tokensVars
  BY <1>11, RaceTime DEF tokensVars, RaceInv, NobodyAccused
<1>12. QED
  BY <1>1, <1>2, <1>3, <1>4, <1>5, <1>6, <1>7, <1>8, <1>9, <1>10, <1>11 DEF TokensNext

LEMMA RaceInit == TokensInit => RaceInv
BY TokensAssumption
   DEF TokensInit, RaceInv, AnswersAreNews, SentTokensRecent, CookieUpToDate, NobodyAccused,
       IdleWithout, At, TokenIds, NoToken

LEMMA LostKept == TokensTypeOK /\ [TokensNext]_tokensVars /\ "lost" \in mishaps => "lost" \in mishaps'
BY DEF TokensNext, tokensVars, Send, Read, Rotate, Revoke, DatabaseFails, Answer, AnswerLost, GraceEnds,
       TokenExpires, SessionOver, CleanupAuth

\* Tabs of one browser that refresh at the same time never have their session revoked with
\* REFRESH_REUSE, even if requests fail on the way, as long as every answer reaches the
\* browser within the grace.
THEOREM RaceIsNoTheft == TokensSpec => []RaceIsNotTheft
<1> DEFINE Inv == "lost" \in mishaps \/ RaceInv
<1>1. TokensInit => Inv
  BY RaceInit
<1>2. TokensTypeOK /\ Inv /\ [TokensNext]_tokensVars => Inv'
  <2>1. ASSUME TokensTypeOK, [TokensNext]_tokensVars, "lost" \in mishaps PROVE "lost" \in mishaps'
    BY <2>1, LostKept
  <2>2. ASSUME TokensTypeOK, [TokensNext]_tokensVars, RaceInv, "lost" \notin mishaps' PROVE RaceInv'
    BY <2>2, RaceStep
  <2>3. QED
    BY <2>1, <2>2
<1>3. Inv => RaceIsNotTheft
  BY DEF RaceInv, NobodyAccused, RaceIsNotTheft
<1>4. QED
  BY <1>1, <1>2, <1>3, TokensTypeCorrect, PTL DEF TokensSpec

(***************************************************************************)
(* A browser that refreshes one at a time stays signed in: the token that  *)
(* can be exchanged is in the cookie, or in the answer on its way there.   *)
(***************************************************************************)
Smooth ==
    /\ \A t, u \in Tabs : tab[t].pc # "idle" /\ tab[u].pc # "idle" => t = u
    /\ (\A t \in Tabs : tab[t].pc = "idle") => cookie # NoToken /\ tokens[cookie] = "current"
    /\ \A t \in Tabs :
          /\ tab[t].pc # "reuse"
          /\ tab[t].pc \in {"sent", "rotate", "answer"} =>
                 tab[t].token # NoToken /\ tokens[tab[t].token] = "current"

\* Nothing has gone wrong, and nothing has ended.
Untroubled == mishaps = {} /\ session = "live" /\ expired = {}

SmoothInv == Untroubled => Smooth

LEMMA SmoothInit == TokensInit => SmoothInv
BY TokensAssumption DEF TokensInit, SmoothInv, Untroubled, Smooth, At, TokenIds, NoToken

\* What has gone wrong or ended does not come back.
LEMMA TroubleStays == TokensTypeOK /\ [TokensNext]_tokensVars /\ Untroubled' => Untroubled
<1> SUFFICES ASSUME TokensTypeOK, [TokensNext]_tokensVars, Untroubled' PROVE Untroubled
  OBVIOUS
<1>1. mishaps \subseteq mishaps' /\ expired \subseteq expired'
  BY DEF TokensNext, tokensVars, Send, Read, Rotate, Revoke, DatabaseFails, Answer, AnswerLost, GraceEnds,
         TokenExpires, SessionOver, CleanupAuth
<1>2. session' = "live" => session = "live"
  BY DEF TokensNext, tokensVars, Send, Read, Rotate, Revoke, DatabaseFails, Answer, AnswerLost, GraceEnds,
         TokenExpires, SessionOver, CleanupAuth
<1>3. QED
  BY <1>1, <1>2 DEF Untroubled

\* A step of tab t, the only one with a request; it ends with that of pc and k.
LEMMA SmoothGoto ==
    ASSUME TokensTypeOK, Smooth, NEW t \in Tabs, NEW pc, NEW k, TabGoto(t, pc, k),
           \A u \in Tabs : u # t => tab[u].pc = "idle",
           pc # "reuse",
           pc = "idle" => cookie' # NoToken /\ tokens'[cookie'] = "current",
           pc # "idle" => k # NoToken /\ tokens'[k] = "current"
    PROVE  Smooth'
<1>1. /\ tab'[t].pc = pc /\ tab'[t].token = k
      /\ \A u \in Tabs : u # t => tab'[u] = tab[u]
  BY GotoIs
<1>2. QED
  BY <1>1 DEF Smooth

LEMMA SmoothStep == TokensTypeOK /\ SmoothInv /\ [TokensNext]_tokensVars => SmoothInv'
<1> SUFFICES ASSUME TokensTypeOK, Smooth, Untroubled, [TokensNext]_tokensVars, Untroubled' PROVE Smooth'
  BY TroubleStays DEF SmoothInv
<1>0. ASSUME NEW t \in Tabs, tab[t].pc # "idle" PROVE \A u \in Tabs : u # t => tab[u].pc = "idle"
  BY <1>0 DEF Smooth
<1>1. ASSUME NEW t \in Tabs, Send(t) PROVE Smooth'
  <2>1. \A u \in Tabs : tab[u].pc = "idle"
    BY <1>1 DEF Send, Untroubled
  <2>2. cookie # NoToken /\ tokens[cookie] = "current" /\ tokens' = tokens
    BY <1>1, <2>1 DEF Send, Smooth
  <2>3. QED
    BY <1>1, <2>1, <2>2, SmoothGoto DEF Send
<1>2. ASSUME NEW t \in Tabs, Read(t) PROVE Smooth'
  <2>1. tab[t].pc = "sent" /\ tokens' = tokens
    BY <1>2 DEF Read
  <2>2. tab[t].token # NoToken /\ tokens[tab[t].token] = "current"
    BY <2>1 DEF Smooth
  <2>3. TabGoto(t, "rotate", tab[t].token)
    BY <1>2, <2>2 DEF Read, Untroubled
  <2>4. QED
    BY <1>0, <2>1, <2>2, <2>3, SmoothGoto
<1>3. ASSUME NEW t \in Tabs, Rotate(t) PROVE Smooth'
  <2>1. tab[t].pc = "rotate"
    BY <1>3 DEF Rotate
  <2>2. tab[t].token \in TokenIds /\ tokens[tab[t].token] = "current"
    BY <2>1 DEF Smooth, TokensTypeOK
  <2>3. PICK n \in TokenIds : /\ tokens[n] = "unused"
                              /\ tokens' = [tokens EXCEPT ![tab[t].token] = "recent", ![n] = "current"]
                              /\ TabGoto(t, "answer", n)
    BY <1>3, <2>2 DEF Rotate
  <2>4. tokens'[n] = "current" /\ n # NoToken
    BY <2>2, <2>3, TokensAssumption DEF TokensTypeOK, TokenIds, NoToken
  <2>5. QED
    BY <1>0, <2>1, <2>3, <2>4, SmoothGoto
<1>4. ASSUME NEW t \in Tabs, Answer(t) PROVE Smooth'
  <2>1. tab[t].pc = "answer" /\ cookie' = tab[t].token /\ tokens' = tokens /\ TabGoto(t, "idle", NoToken)
    BY <1>4 DEF Answer
  <2>2. cookie' # NoToken /\ tokens'[cookie'] = "current"
    BY <2>1 DEF Smooth
  <2>3. QED
    BY <1>0, <2>1, <2>2, SmoothGoto
<1>5. ASSUME NEW t \in Tabs, Revoke(t) \/ DatabaseFails(t) \/ AnswerLost(t) PROVE FALSE
  BY <1>5 DEF Revoke, DatabaseFails, AnswerLost, Smooth, Untroubled
<1>6. ASSUME UNCHANGED <<tab, cookie>>,
             \A k \in TokenIds : tokens[k] = "current" => tokens'[k] = "current"
      PROVE  Smooth'
  <2>1. /\ cookie # NoToken => cookie \in TokenIds
        /\ \A t \in Tabs : tab[t].token # NoToken => tab[t].token \in TokenIds
    BY DEF TokensTypeOK
  <2>2. QED
    BY <1>6, <2>1 DEF Smooth
<1>7. ASSUME NEW k \in TokenIds, GraceEnds(k) PROVE Smooth'
  <2>1. \A m \in TokenIds : tokens[m] = "current" => tokens'[m] = "current"
    BY <1>7 DEF GraceEnds, TokensTypeOK
  <2>2. QED
    BY <1>6, <1>7, <2>1 DEF GraceEnds
<1>8. CASE CleanupAuth
  <2>1. \A m \in TokenIds : tokens'[m] = tokens[m]
    BY <1>8 DEF CleanupAuth, Untroubled
  <2>2. QED
    BY <1>6, <1>8, <2>1 DEF CleanupAuth
<1>9. CASE SessionOver \/ \E k \in TokenIds : TokenExpires(k)
  BY <1>6, <1>9 DEF SessionOver, TokenExpires
<1>10. CASE UNCHANGED tokensVars
  BY <1>6, <1>10 DEF tokensVars
<1>11. QED
  BY <1>1, <1>2, <1>3, <1>4, <1>5, <1>7, <1>8, <1>9, <1>10 DEF TokensNext

\* POST /auth/refresh: a browser whose requests come one after the other and get their
\* answers keeps, however often it refreshes, the token its session can be continued with.
THEOREM SignedIn == TokensSpec => []StaysSignedIn
<1>1. SmoothInv => StaysSignedIn
  BY DEF SmoothInv, Untroubled, Smooth, StaysSignedIn
<1>2. QED
  BY <1>1, SmoothInit, SmoothStep, TokensTypeCorrect, PTL DEF TokensSpec

============================================================================
