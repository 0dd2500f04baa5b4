------------------------ MODULE OfflineLicensesProofs ------------------------
(***************************************************************************)
(* What holds of OfflineLicenses for any catalogue, any requests, and any  *)
(* changes of access and of the settings, where the runs look at either.   *)
(***************************************************************************)
EXTENDS OfflineLicenses, TLAPS, FiniteSetTheorems

(***************************************************************************)
(* Types                                                                   *)
(***************************************************************************)
Rows == [item : Items \cup {NoItem}, state : {"none", "valid", "lapsed", "revoked"}]
Asks == [pc : {"idle"} \cup Issuing \cup Syncing, item : Items \cup {NoItem},
         row : 0 .. MaxLicences, rows : SUBSET Licences, age : 0 .. MaxAge]

Values == {"none", "on", "off"}

\* What a request q, its check c and what it has fetched f are to each other and to the rows ls.
Fit(q, c, f, ls) ==
    /\ (c.pc # "off") <=> (q.pc \in {"policy", "look"})
    /\ c.pc # "off" => c.pc = "policy" /\ c.item \in Items /\ c.student = Student
    /\ q.pc \in Issuing => q.item \in Items
    /\ q.pc = "policy" => c.item = q.item
    /\ q.pc \in Syncing \cup {"insert"} => \A l \in q.rows : ls[l].state # "none"
    /\ q.pc \in {"look", "denied", "error"} => q.row \in Licences /\ ls[q.row].state # "none"
    /\ f # "none" => q.pc = "settings"

Stock == licences \in [Licences -> Rows] /\ \A l \in Licences : licences[l].state # "none" => licences[l].item \in Items

Asking ==
    /\ req \in [Requests -> Asks] /\ check \in [Requests -> Checks]
    /\ fetched \in [Readers -> Values]
    /\ \A r \in Requests : Fit(req[r], check[r], fetched[r], licences)

Around ==
    /\ open \subseteq Students \X Places /\ archived \subseteq Nodes /\ ready \subseteq Videos
    /\ stored \in {"on", "off"} /\ settings \in [value : {"on", "off"}, left : 0 .. SettingsTTL]
    /\ admin \in {"idle", "committed", "invalidated"}

Histories ==
    seen \subseteq Requests /\ missed \subseteq Requests /\ overlapped \in BOOLEAN /\ since \in 0 .. Cap

TypeInv == Stock /\ Asking /\ Around /\ Histories /\ watched[2] \in Facts("policy", watched[1])

LEMMA TypeInvType == TypeInv => TypeOK
<1> SUFFICES ASSUME TypeInv PROVE TypeOK
  OBVIOUS
<1>1. AccessTypeOK /\ SettingsTypeOK
  BY DEF TypeInv, Asking, Around, AccessTypeOK, SettingsTypeOK, Values
<1>2. seen \subseteq Requests /\ missed \subseteq Requests /\ since \in 0 .. Cap
  BY DEF TypeInv, Histories
<1>3. overlapped \in BOOLEAN
  BY DEF TypeInv, Histories
<1>4. \A r \in Requests : (check[r].pc # "off") <=> (req[r].pc \in {"policy", "look"})
  BY DEF TypeInv, Asking, Fit
<1>5. QED
  BY <1>1, <1>2, <1>3, <1>4 DEF TypeInv, Stock, Asking, Around, Rows, Asks, TypeOK

LEMMA FactsType == \A i \in Items : Facts("policy", i) \subseteq {"chain", "ready"} \cup Places
BY PolicyAssumption DEF Facts, Needs, Places

LEMMA IdleType == Idle \in Asks /\ NoCheck \in Checks /\ \A ls : Fit(Idle, NoCheck, "none", ls)
BY LicenceAssumption DEF Idle, Asks, NoCheck, Checks, Fit, Issuing, Syncing

LEMMA TypeInit == Init => TypeInv
<1> SUFFICES ASSUME Init PROVE TypeInv
  OBVIOUS
<1> USE PolicyAssumption, SettingsAssumption, LicenceAssumption
<1>1. Stock
  BY DEF Init, Stock, Rows, NoLicence
<1>2. Asking
  <2>1. /\ req = [r \in Requests |-> Idle] /\ check = [r \in Requests |-> NoCheck]
        /\ fetched = [q \in Readers |-> "none"] /\ Requests \subseteq Readers
    BY DEF Init, AccessInit, SettingsInit
  <2>2. QED
    BY <2>1, IdleType DEF Asking, Values
<1>3. Around
  BY DEF Init, AccessInit, SettingsInit, Around
<1>4. Histories /\ watched[2] \in Facts("policy", watched[1])
  <2>1. seen \subseteq Requests /\ missed \subseteq Requests /\ since \in 0 .. Cap
    BY DEF Init, Cap
  <2>2. overlapped \in BOOLEAN
    BY DEF Init
  <2>3. watched[2] \in Facts("policy", watched[1])
    BY DEF Init
  <2>4. QED
    BY <2>1, <2>2, <2>3 DEF Histories
<1>5. QED
  BY <1>1, <1>2, <1>3, <1>4 DEF TypeInv

(***************************************************************************)
(* What a step of a request does                                           *)
(***************************************************************************)
Same(r) == req'[r] = req[r] /\ check'[r] = check[r]
Stays(r) == req'[r].item = req[r].item /\ req'[r].age = req[r].age

Quiet(r) == req'[r].pc \in {"idle", "settings", "sync", "error"}
\* The setting was on, by the cache or by what the request has fetched.
Starts(r) ==
    /\ req'[r].pc \in {"policy", "look"} /\ req[r].pc \notin {"policy", "look"}
    /\ check'[r].asked = {} /\ check'[r].found = {}
    /\ req'[r].pc = "policy" => \/ settings.left > 0 /\ settings.value = "on"
                                \/ fetched[r] = "on" /\ Stays(r)
Reads(r) ==
    /\ req[r].pc \in {"policy", "look"} /\ req'[r] = req[r] /\ check'[r].item = check[r].item
    /\ \E fs \in SUBSET Facts("policy", check[r].item) :
         /\ check'[r].asked = check[r].asked \cup fs
         /\ check'[r].found = check[r].found \cup (fs \cap Holding(Student, check[r].item))
Judged(r) == req[r].pc = "policy" /\ req'[r].pc = "revoke" /\ Passed(r) /\ Stays(r)
Revokes(r) ==
    /\ req[r].pc = "revoke" /\ req'[r].pc = "insert" /\ Stays(r)
    /\ req'[r].rows = RowsOf(req[r].item, {"valid", "lapsed"})
Settled(r) == req[r].pc = "look" /\ req'[r].pc = "denied" /\ Denied(r)

Move(r) == Quiet(r) \/ Starts(r) \/ Reads(r) \/ Judged(r) \/ Revokes(r) \/ Settled(r)

\* What steps do to the rows.
Wanes == \A l \in Licences : /\ licences'[l].item = licences[l].item
                             /\ licences'[l].state = "valid" => licences[l].state = "valid"
                             /\ licences[l].state # "none" => licences'[l].state # "none"
Waxes(r) ==
    /\ req[r].pc = "insert"
    /\ \A l \in Licences : licences[l].state # "none" => licences'[l].state # "none"
    /\ \E l \in Licences :
        licences' = [Revoked(req[r].rows) EXCEPT ![l] = [item |-> req[r].item, state |-> "valid"]]

\* All of it.
Moved(r) ==
    /\ Asking' /\ Stock' /\ (licences' = licences \/ (Quiet(r) /\ (Wanes \/ Waxes(r))))
    /\ UNCHANGED <<open, archived, ready, stored, admin>>
    /\ Move(r) /\ \A q \in Requests \ {r} : Same(q)
    /\ \A q \in Readers \ {r} : fetched'[q] = fetched[q]
    /\ fetched'[r] = "none" \/ (fetched'[r] = stored /\ Stays(r))
    /\ settings' = settings \/ (settings' = [value |-> fetched[r], left |-> SettingsTTL] /\ fetched[r] # "none")

\* A step in which request r becomes q, its check c, and what it has fetched f.
LEMMA ReqStep ==
    ASSUME Asking, NEW r \in Requests, NEW q \in Asks, NEW c \in Checks, NEW f \in Values,
           req' = [req EXCEPT ![r] = q], check' = [check EXCEPT ![r] = c], fetched' = [fetched EXCEPT ![r] = f],
           \A l \in Licences : licences[l].state # "none" => licences'[l].state # "none",
           Fit(q, c, f, licences)
    PROVE  /\ Asking' /\ req'[r] = q /\ check'[r] = c /\ fetched'[r] = f
           /\ \A p \in Requests \ {r} : Same(p)
           /\ \A p \in Readers \ {r} : fetched'[p] = fetched[p]
<1> USE LicenceAssumption
<1>1. /\ req'[r] = q /\ check'[r] = c /\ fetched'[r] = f
      /\ \A p \in Requests \ {r} : req'[p] = req[p] /\ check'[p] = check[p]
      /\ \A p \in Readers \ {r} : fetched'[p] = fetched[p]
  BY DEF Asking
<1>2. req' \in [Requests -> Asks] /\ check' \in [Requests -> Checks] /\ fetched' \in [Readers -> Values]
  BY DEF Asking
<1>3. \A p \in Requests \ {r} : fetched'[p] = fetched[p]
  BY <1>1
<1>4. \A p \in Requests : Fit(req'[p], check'[p], fetched'[p], licences')
  BY <1>1, <1>2, <1>3 DEF Asking, Fit, Asks
<1>5. QED
  BY <1>1, <1>2, <1>4 DEF Asking, Same

LEMMA Parts ==
    ASSUME TypeInv, NEW r \in Requests
    PROVE  /\ Asking /\ Stock /\ req[r] \in Asks /\ check[r] \in Checks /\ fetched[r] \in Values
           /\ Fit(req[r], check[r], fetched[r], licences)
           /\ r \in Readers /\ fetched = [fetched EXCEPT ![r] = fetched[r]]
           /\ check = [check EXCEPT ![r] = check[r]] /\ req = [req EXCEPT ![r] = req[r]]
BY LicenceAssumption DEF TypeInv, Asking

LEMMA AskMoves == ASSUME TypeInv, NEW r \in Requests, NEW i \in Items, Ask(r, i) PROVE Moved(r)
<1> USE LicenceAssumption
<1> DEFINE q == [pc |-> "settings", item |-> i, row |-> 0, rows |-> {}, age |-> 0]
<1>1. q \in Asks /\ q.pc = "settings" /\ q.item = i
  BY DEF Asks, Issuing
<1>2. req' = [req EXCEPT ![r] = q] /\ req[r].pc = "idle"
  BY DEF Ask, Begin
<1> HIDE DEF q
<1>3. UNCHANGED <<open, archived, ready, check, stored, settings, fetched, licences, admin>>
  BY DEF Ask, accessVars, settingsVars
<1>4. Fit(q, check[r], fetched[r], licences)
  BY <1>1, <1>2, Parts DEF Fit, Issuing, Syncing
<1>5. /\ check' = [check EXCEPT ![r] = check[r]] /\ fetched' = [fetched EXCEPT ![r] = fetched[r]]
      /\ Asking /\ check[r] \in Checks /\ fetched[r] \in Values /\ licences' = licences
  BY <1>3, Parts
<1>6. /\ Asking' /\ req'[r] = q /\ (\A p \in Requests \ {r} : Same(p)) /\ fetched'[r] = fetched[r]
      /\ \A p \in Readers \ {r} : fetched'[p] = fetched[p]
  BY <1>1, <1>2, <1>4, <1>5, ReqStep
<1>7. QED
  BY <1>1, <1>2, <1>3, <1>6, Parts DEF Moved, Move, Quiet, Stock, Fit

\* The request goes on with a value of the setting.
LEMMA Decides ==
    ASSUME TypeInv, NEW r \in Requests, NEW value \in {"on", "off"}, Decide(r, value),
           req[r].pc = "settings", fetched' = [fetched EXCEPT ![r] = "none"],
           UNCHANGED <<open, archived, ready, licences>>
    PROVE  /\ Asking' /\ fetched'[r] = "none" /\ \A p \in Readers \ {r} : fetched'[p] = fetched[p]
           /\ \A p \in Requests \ {r} : Same(p)
           /\ \/ Quiet(r)
              \/ /\ value = "on" /\ req'[r].pc = "policy" /\ Stays(r)
                 /\ check'[r].asked = {} /\ check'[r].found = {}
<1> USE LicenceAssumption
<1>1. Asking /\ req[r] \in Asks /\ Fit(req[r], check[r], fetched[r], licences) /\ req[r].item \in Items
  BY Parts DEF Fit, Issuing
<1>2. CASE value = "on"
  <2> DEFINE q == [req[r] EXCEPT !.pc = "policy"]
             c == [pc |-> "policy", student |-> Student, item |-> req[r].item, asked |-> {}, found |-> {}]
  <2>1. /\ q \in Asks /\ q.pc = "policy" /\ q.item = req[r].item /\ q.rows = req[r].rows /\ q.age = req[r].age
    BY <1>1 DEF Asks, Issuing
  <2>2. c \in Checks /\ Fit(q, c, "none", licences)
    BY <1>1, <2>1 DEF Checks, Fit, Issuing, Syncing
  <2>3. req' = [req EXCEPT ![r] = q] /\ check' = [check EXCEPT ![r] = c]
    BY <1>2 DEF Decide, Goto, Started, Asking
  <2> HIDE DEF q
  <2>4. /\ Asking' /\ req'[r] = q /\ check'[r] = c /\ fetched'[r] = "none"
        /\ (\A p \in Requests \ {r} : Same(p)) /\ \A p \in Readers \ {r} : fetched'[p] = fetched[p]
    BY <1>1, <2>1, <2>2, <2>3, ReqStep DEF Values
  <2>5. QED
    BY <1>2, <2>1, <2>4 DEF Stays
<1>3. CASE value = "off"
  <2>1. req' = [req EXCEPT ![r] = Idle] /\ check' = [check EXCEPT ![r] = check[r]]
    BY <1>3, Parts DEF Decide, Leave
  <2>2. Fit(Idle, check[r], "none", licences)
    BY <1>1 DEF Fit, Idle, Issuing
  <2>3. /\ Asking' /\ req'[r] = Idle /\ fetched'[r] = "none"
        /\ (\A p \in Requests \ {r} : Same(p)) /\ \A p \in Readers \ {r} : fetched'[p] = fetched[p]
    BY <1>1, <2>1, <2>2, IdleType, Parts, ReqStep DEF Values
  <2>4. QED
    BY <2>3 DEF Quiet, Idle
<1>4. QED
  BY <1>2, <1>3

LEMMA SettingsMoves ==
    ASSUME TypeInv, NEW r \in Requests, SettingsCached(r) \/ SettingsRead(r) \/ SettingsFilled(r) PROVE Moved(r)
<1> USE LicenceAssumption
<1>0. Stock /\ r \in Readers /\ settings.value \in {"on", "off"} /\ settings.left \in Nat /\ stored \in {"on", "off"}
  BY SettingsAssumption, Parts DEF TypeInv, Around
<1>1. CASE SettingsCached(r)
  <2>1. /\ UNCHANGED <<open, archived, ready, stored, settings, licences, admin, fetched>> /\ req[r].pc = "settings"
        /\ Decide(r, settings.value) /\ fetched' = [fetched EXCEPT ![r] = "none"] /\ settings.left > 0
    BY <1>1, Parts DEF SettingsCached, settingsVars, Cached
  <2>2. /\ Asking' /\ fetched'[r] = "none" /\ \A p \in Readers \ {r} : fetched'[p] = fetched[p]
        /\ \A p \in Requests \ {r} : Same(p)
        /\ \/ Quiet(r)
           \/ /\ settings.value = "on" /\ req'[r].pc = "policy" /\ Stays(r)
              /\ check'[r].asked = {} /\ check'[r].found = {}
    BY <1>0, <2>1, Decides
  <2>3. Quiet(r) \/ Starts(r)
    BY <2>1, <2>2 DEF Starts
  <2>4. QED
    BY <1>0, <2>1, <2>2, <2>3 DEF Moved, Move, Stock
<1>2. CASE SettingsRead(r)
  <2>1. /\ UNCHANGED <<open, archived, ready, stored, settings, licences, admin, req, check>> /\ req[r].pc = "settings"
        /\ fetched' = [fetched EXCEPT ![r] = stored]
    BY <1>2 DEF SettingsRead, accessVars, Fetch
  <2>2. Fit(req[r], check[r], stored, licences)
    BY <2>1, Parts DEF Fit
  <2>3. /\ fetched' \in [Readers -> Values] /\ fetched'[r] = stored
        /\ \A p \in Readers \ {r} : fetched'[p] = fetched[p]
    BY <1>0, <2>1, Parts DEF Asking, Values
  <2>a. Asking'
    BY <2>1, <2>2, <2>3, Parts DEF Asking
  <2>b. req'[r] = req[r] /\ \A p \in Requests \ {r} : Same(p)
    BY <2>1 DEF Same
  <2>4. QED
    BY <1>0, <2>1, <2>3, <2>a, <2>b DEF Moved, Move, Quiet, Stays, Stock
<1>3. CASE SettingsFilled(r)
  <2>1. /\ UNCHANGED <<open, archived, ready, stored, licences, admin>> /\ req[r].pc = "settings"
        /\ Decide(r, fetched[r]) /\ fetched' = [fetched EXCEPT ![r] = "none"] /\ fetched[r] \in {"on", "off"}
        /\ settings' = [value |-> fetched[r], left |-> SettingsTTL]
    BY <1>3, Parts DEF SettingsFilled, Fill, Values
  <2>2. /\ Asking' /\ fetched'[r] = "none" /\ \A p \in Readers \ {r} : fetched'[p] = fetched[p]
        /\ \A p \in Requests \ {r} : Same(p)
        /\ \/ Quiet(r)
           \/ /\ fetched[r] = "on" /\ req'[r].pc = "policy" /\ Stays(r)
              /\ check'[r].asked = {} /\ check'[r].found = {}
    BY <2>1, Decides
  <2>3. Quiet(r) \/ Starts(r)
    BY <2>1, <2>2 DEF Starts
  <2>4. QED
    BY <1>0, <2>1, <2>2, <2>3 DEF Moved, Move, Stock
<1>4. QED
  BY <1>1, <1>2, <1>3

LEMMA ReadMoves == ASSUME TypeInv, NEW r \in Requests, Read(r) PROVE Moved(r)
<1> USE LicenceAssumption
<1>1. PICK f \in Facts("policy", check[r].item) : ReadFact(r, f)
  BY DEF Read
<1>2. /\ UNCHANGED <<open, archived, ready, stored, settings, fetched, licences, admin, req>>
      /\ req[r].pc \in {"policy", "look"} /\ check[r].item \in Items /\ check[r].student = Student
      /\ fetched' = [fetched EXCEPT ![r] = fetched[r]]
  BY <1>1, Parts DEF Read, ReadFact, settingsVars, Fit
<1>c. check[r] \in Checks /\ check[r].pc = "policy" /\ f \in Facts(check[r].pc, check[r].item)
  <2>1. check[r] \in Checks /\ Fit(req[r], check[r], fetched[r], licences)
    BY Parts
  <2>2. check[r].pc # "off" /\ f \in Facts(check[r].pc, check[r].item)
    BY <1>1 DEF ReadFact
  <2>3. QED
    BY <2>1, <2>2 DEF Fit
<1>a. PICK fs : fs = Answers(check[r], f) /\ fs \subseteq Facts("policy", check[r].item)
  <2>1. Answers(check[r], f) \subseteq Facts(check[r].pc, check[r].item)
    BY <1>c DEF Answers
  <2>2. QED
    BY <1>c, <2>1
<1>b. PICK h : h = fs \cap Holding(check[r].student, check[r].item)
  OBVIOUS
<1> DEFINE c == [check[r] EXCEPT !.asked = @ \cup fs, !.found = @ \cup h]
<1>3. c \in Checks
  <2>1. fs \subseteq {"chain", "ready"} \cup Places /\ h \subseteq {"chain", "ready"} \cup Places
    BY <1>2, <1>a, <1>b, FactsType
  <2>2. QED
    BY <1>c, <2>1 DEF Checks
<1>4. check' = [check EXCEPT ![r] = c]
  BY <1>1, <1>2, <1>a, <1>b, Parts DEF ReadFact, Asking
<1>5. /\ c.pc = check[r].pc /\ c.item = check[r].item /\ c.student = check[r].student
      /\ c.asked = check[r].asked \cup fs /\ c.found = check[r].found \cup h
  BY <1>2, Parts DEF Checks
<1>6. Fit(req[r], c, fetched[r], licences)
  BY <1>2, <1>5, Parts DEF Fit
<1> HIDE DEF c
<1>7. /\ check' \in [Requests -> Checks] /\ check'[r] = c
      /\ \A p \in Requests \ {r} : check'[p] = check[p]
  BY <1>3, <1>4, Parts DEF Asking
<1>8. Asking'
  BY <1>2, <1>6, <1>7, Parts DEF Asking
<1>9. Reads(r) /\ \A p \in Requests \ {r} : Same(p)
  BY <1>2, <1>5, <1>7, <1>a, <1>b DEF Reads, Same
<1>10. QED
  BY <1>2, <1>8, <1>9, Parts DEF Moved, Move, Stock, Fit

\* A step that takes r's check to its end, if there is one, and r to q.
LEMMA CheckEnds ==
    ASSUME TypeInv, NEW r \in Requests, NEW q \in Asks, req' = [req EXCEPT ![r] = q],
           NEW c \in Checks, c.pc = "off", check' = [check EXCEPT ![r] = c], UNCHANGED fetched,
           \A l \in Licences : licences[l].state # "none" => licences'[l].state # "none",
           q.pc \notin {"policy", "look"}, fetched[r] # "none" => q.pc = "settings",
           q.pc \in Issuing => q.item \in Items,
           q.pc \in Syncing \cup {"insert"} => \A l \in q.rows : licences[l].state # "none",
           q.pc \in {"denied", "error"} => q.row \in Licences /\ licences[q.row].state # "none"
    PROVE  /\ Asking' /\ req'[r] = q /\ \A p \in Requests \ {r} : Same(p)
           /\ fetched'[r] = fetched[r] /\ \A p \in Readers \ {r} : fetched'[p] = fetched[p]
<1>1. Fit(q, c, fetched[r], licences)
  BY Parts DEF Fit
<1>2. Asking /\ fetched[r] \in Values /\ fetched' = [fetched EXCEPT ![r] = fetched[r]]
  BY Parts
<1>3. QED
  BY <1>1, <1>2, ReqStep

LEMMA JudgeMoves == ASSUME TypeInv, NEW r \in Requests, Judge(r) PROVE Moved(r)
<1> USE LicenceAssumption
<1>1. /\ UNCHANGED <<open, archived, ready, stored, settings, fetched, licences, admin>> /\ req[r].pc = "policy"
      /\ check' = [check EXCEPT ![r] = NoCheck] /\ fetched[r] = "none" /\ req[r].item \in Items
      /\ req[r] \in Asks /\ NoCheck \in Checks /\ NoCheck.pc = "off"
  BY Parts, IdleType DEF Judge, Stopped, settingsVars, Fit, Issuing, NoCheck
<1>2. PICK q \in Asks :
          /\ req' = [req EXCEPT ![r] = q]
          /\ \/ q.pc = "idle"
             \/ Passed(r) /\ q.pc = "revoke" /\ q.item = req[r].item /\ q.age = req[r].age
  <2>1. CASE Denied(r) /\ Leave(r)
    BY <2>1, IdleType DEF Leave, Idle
  <2>2. CASE Passed(r) /\ Goto(r, "revoke")
    <3> DEFINE q == [req[r] EXCEPT !.pc = "revoke"]
    <3>1. q \in Asks /\ q.pc = "revoke" /\ q.item = req[r].item /\ q.age = req[r].age
      BY <1>1 DEF Asks, Issuing
    <3>2. req' = [req EXCEPT ![r] = q]
      BY <2>2 DEF Goto
    <3> HIDE DEF q
    <3>3. QED
      BY <2>2, <3>1, <3>2
  <2>3. QED
    BY <2>1, <2>2 DEF Judge
<1>3. /\ Asking' /\ req'[r] = q /\ \A p \in Requests \ {r} : Same(p)
      /\ fetched'[r] = fetched[r] /\ \A p \in Readers \ {r} : fetched'[p] = fetched[p]
  BY <1>1, <1>2, CheckEnds DEF Issuing, Syncing
<1>4. Quiet(r) \/ Judged(r)
  BY <1>1, <1>2, <1>3 DEF Quiet, Judged, Stays
<1>5. QED
  BY <1>1, <1>3, <1>4, Parts DEF Moved, Move, Stock

LEMMA RevokeMoves == ASSUME TypeInv, NEW r \in Requests, RevokeFormer(r) PROVE Moved(r)
<1> USE LicenceAssumption
<1> DEFINE rows == RowsOf(req[r].item, {"valid", "lapsed"})
           q == [req[r] EXCEPT !.pc = "insert", !.rows = rows]
<1>1. /\ UNCHANGED <<open, archived, ready, stored, settings, fetched, licences, admin, check>> /\ req[r].pc = "revoke"
      /\ check' = [check EXCEPT ![r] = check[r]] /\ fetched[r] = "none" /\ req[r].item \in Items
      /\ req[r] \in Asks /\ check[r] \in Checks /\ check[r].pc = "off"
  BY Parts DEF RevokeFormer, accessVars, settingsVars, Fit, Issuing
<1>2. /\ q \in Asks /\ q.pc = "insert" /\ q.item = req[r].item /\ q.age = req[r].age /\ q.rows = rows
  BY <1>1 DEF Asks, Issuing, RowsOf
<1>3. req' = [req EXCEPT ![r] = q] /\ \A l \in rows : licences[l].state # "none"
  BY Parts DEF RevokeFormer, Asking, RowsOf
<1> HIDE DEF q, rows
<1>4. /\ Asking' /\ req'[r] = q /\ \A p \in Requests \ {r} : Same(p)
      /\ fetched'[r] = fetched[r] /\ \A p \in Readers \ {r} : fetched'[p] = fetched[p]
  BY <1>1, <1>2, <1>3, CheckEnds DEF Issuing, Syncing
<1>5. Revokes(r)
  BY <1>1, <1>2, <1>4 DEF Revokes, Stays, rows
<1>6. QED
  BY <1>1, <1>4, <1>5, Parts DEF Moved, Move, Stock

LEMMA RevokedType ==
    ASSUME Stock, NEW rows
    PROVE  /\ Revoked(rows) \in [Licences -> Rows]
           /\ \A l \in Licences : /\ Revoked(rows)[l].item = licences[l].item
                                 /\ (l \in rows => Revoked(rows)[l].state = "revoked")
                                 /\ (l \notin rows => Revoked(rows)[l] = licences[l])
BY DEF Stock, Revoked, Rows

LEMMA InsertMoves == ASSUME TypeInv, NEW r \in Requests, Insert(r) PROVE Moved(r)
<1> USE LicenceAssumption
<1>1. /\ UNCHANGED <<open, archived, ready, stored, settings, fetched, admin, check>> /\ req[r].pc = "insert"
      /\ check' = [check EXCEPT ![r] = check[r]] /\ fetched[r] = "none" /\ req[r].item \in Items
      /\ req' = [req EXCEPT ![r] = Idle] /\ check[r] \in Checks /\ check[r].pc = "off" /\ Idle \in Asks
      /\ Idle.pc = "idle" /\ Stock /\ \A k \in req[r].rows : licences[k].state # "none"
  BY Parts, IdleType DEF Insert, Leave, accessVars, settingsVars, Fit, Issuing, Idle
<1>2. PICK l \in Licences : licences' = [Revoked(req[r].rows) EXCEPT ![l] = [item |-> req[r].item, state |-> "valid"]]
  BY DEF Insert
<1>3. [item |-> req[r].item, state |-> "valid"] \in Rows
  BY <1>1 DEF Rows
<1>4. /\ licences' \in [Licences -> Rows]
      /\ licences'[l].item = req[r].item /\ licences'[l].state = "valid"
      /\ \A k \in Licences \ {l} : licences'[k] = Revoked(req[r].rows)[k]
  BY <1>1, <1>2, <1>3, RevokedType
<1>5. /\ Stock'
      /\ \A k \in Licences : licences[k].state # "none" => licences'[k].state # "none"
  BY <1>1, <1>4, RevokedType DEF Stock
<1>6. /\ Asking' /\ req'[r] = Idle /\ \A p \in Requests \ {r} : Same(p)
      /\ fetched'[r] = fetched[r] /\ \A p \in Readers \ {r} : fetched'[p] = fetched[p]
  BY <1>1, <1>5, CheckEnds DEF Issuing, Syncing
<1>7. Quiet(r) /\ Waxes(r)
  BY <1>1, <1>2, <1>5, <1>6 DEF Quiet, Waxes
<1>8. QED
  BY <1>1, <1>5, <1>6, <1>7 DEF Moved, Move

LEMMA ListMoves == ASSUME TypeInv, NEW r \in Requests, List(r) PROVE Moved(r)
<1> USE LicenceAssumption
<1> DEFINE rows == {l \in Licences : licences[l].state = "valid"}
           q == [pc |-> "sync", item |-> NoItem, row |-> 0, rows |-> rows, age |-> 0]
<1>1. /\ UNCHANGED <<open, archived, ready, stored, settings, fetched, licences, admin, check>>
      /\ check' = [check EXCEPT ![r] = check[r]] /\ fetched[r] = "none" /\ req' = [req EXCEPT ![r] = q]
      /\ check[r] \in Checks /\ check[r].pc = "off"
  BY Parts DEF List, Begin, accessVars, settingsVars, Fit
<1>2. q \in Asks /\ q.pc = "sync" /\ q.rows = rows
  BY DEF Asks, Syncing
<1>3. \A l \in rows : licences[l].state # "none"
  OBVIOUS
<1> HIDE DEF q, rows
<1>4. /\ Asking' /\ req'[r] = q /\ \A p \in Requests \ {r} : Same(p)
      /\ fetched'[r] = fetched[r] /\ \A p \in Readers \ {r} : fetched'[p] = fetched[p]
  BY <1>1, <1>2, <1>3, CheckEnds DEF Issuing, Syncing
<1>5. QED
  BY <1>1, <1>2, <1>4, Parts DEF Moved, Move, Quiet, Stock

LEMMA LookMoves == ASSUME TypeInv, NEW r \in Requests, LookAt(r) PROVE Moved(r)
<1> USE LicenceAssumption
<1>1. /\ UNCHANGED <<open, archived, ready, stored, settings, fetched, licences, admin>> /\ req[r].pc = "sync"
      /\ fetched[r] = "none" /\ check[r] \in Checks /\ check[r].pc = "off" /\ req[r] \in Asks
      /\ Asking /\ Stock /\ Idle \in Asks /\ Idle.pc = "idle"
      /\ \A l \in req[r].rows : licences[l].state # "none"
  BY Parts, IdleType DEF LookAt, settingsVars, Fit, Idle, Syncing
<1>2. CASE Leave(r) /\ UNCHANGED check
  <2>1. req' = [req EXCEPT ![r] = Idle] /\ check' = [check EXCEPT ![r] = check[r]]
    BY <1>2, Parts DEF Leave
  <2>2. /\ Asking' /\ req'[r] = Idle /\ \A p \in Requests \ {r} : Same(p)
        /\ fetched'[r] = fetched[r] /\ \A p \in Readers \ {r} : fetched'[p] = fetched[p]
    BY <1>1, <2>1, CheckEnds DEF Issuing, Syncing
  <2>3. QED
    BY <1>1, <2>2 DEF Moved, Move, Quiet, Stock
<1>3. ASSUME NEW l \in req[r].rows, req' = [req EXCEPT ![r].pc = "look", ![r].row = l, ![r].rows = @ \ {l}],
             check' = Started(r, "policy", Student, licences[l].item)
      PROVE  Moved(r)
  <2> DEFINE q == [req[r] EXCEPT !.pc = "look", !.row = l, !.rows = @ \ {l}]
             c == [pc |-> "policy", student |-> Student, item |-> licences[l].item, asked |-> {}, found |-> {}]
  <2>1. l \in Licences /\ licences[l].item \in Items
    BY <1>1, <1>3 DEF Asks, Stock
  <2>2. q \in Asks /\ q.pc = "look"
    <3>1. l \in 0 .. MaxLicences /\ req[r].rows \ {l} \in SUBSET Licences
      BY <1>1, <2>1 DEF Asks, Licences
    <3>2. QED
      BY <1>1, <3>1 DEF Asks, Syncing
  <2>3. c \in Checks /\ c.pc = "policy" /\ c.item \in Items /\ c.student = Student /\ c.asked = {} /\ c.found = {}
    BY <2>1 DEF Checks
  <2>4. req' = [req EXCEPT ![r] = q] /\ check' = [check EXCEPT ![r] = c]
    BY <1>1, <1>3 DEF Started, Asking
  <2>a. q.row = l /\ q.rows = req[r].rows \ {l}
    BY <1>1 DEF Asks
  <2> HIDE DEF q, c
  <2>5. Fit(q, c, fetched[r], licences)
    BY <1>1, <1>3, <2>1, <2>2, <2>3, <2>a DEF Fit, Issuing
  <2>6. fetched' = [fetched EXCEPT ![r] = fetched[r]] /\ fetched[r] \in Values
    BY <1>1, Parts
  <2>7. /\ Asking' /\ req'[r] = q /\ check'[r] = c /\ fetched'[r] = fetched[r]
        /\ (\A p \in Requests \ {r} : Same(p)) /\ \A p \in Readers \ {r} : fetched'[p] = fetched[p]
    BY <1>1, <2>2, <2>3, <2>4, <2>5, <2>6, ReqStep
  <2>8. Starts(r)
    BY <1>1, <2>2, <2>3, <2>7 DEF Starts
  <2>9. QED
    BY <1>1, <2>7, <2>8 DEF Moved, Move, Stock
<1>4. QED
  BY <1>2, <1>3 DEF LookAt

LEMMA SettleMoves == ASSUME TypeInv, NEW r \in Requests, Settle(r) PROVE Moved(r)
<1> USE LicenceAssumption
<1>1. /\ UNCHANGED <<open, archived, ready, stored, settings, fetched, licences, admin>> /\ req[r].pc = "look"
      /\ check' = [check EXCEPT ![r] = NoCheck] /\ fetched[r] = "none" /\ req[r] \in Asks
      /\ NoCheck \in Checks /\ NoCheck.pc = "off" /\ Asking /\ Stock
      /\ req[r].row \in Licences /\ licences[req[r].row].state # "none"
      /\ \A l \in req[r].rows : licences[l].state # "none"
  BY Parts, IdleType DEF Settle, Stopped, settingsVars, Fit, NoCheck, Syncing
<1>2. PICK pc \in {"sync", "denied"} : Goto(r, pc) /\ (pc = "denied" => Denied(r))
  BY DEF Settle
<1> DEFINE q == [req[r] EXCEPT !.pc = pc]
<1>3. /\ q \in Asks /\ q.pc = pc /\ q.row = req[r].row /\ q.rows = req[r].rows /\ req' = [req EXCEPT ![r] = q]
  BY <1>1, <1>2 DEF Goto, Asks, Syncing
<1> HIDE DEF q
<1>4. /\ Asking' /\ req'[r] = q /\ \A p \in Requests \ {r} : Same(p)
      /\ fetched'[r] = fetched[r] /\ \A p \in Readers \ {r} : fetched'[p] = fetched[p]
  BY <1>1, <1>2, <1>3, CheckEnds DEF Issuing, Syncing
<1>5. Quiet(r) \/ Settled(r)
  BY <1>1, <1>2, <1>3, <1>4 DEF Quiet, Settled
<1>6. QED
  BY <1>1, <1>4, <1>5 DEF Moved, Move, Stock

LEMMA DropMoves == ASSUME TypeInv, NEW r \in Requests, Drop(r) PROVE Moved(r)
<1> USE LicenceAssumption
<1>1. /\ UNCHANGED <<open, archived, ready, stored, settings, fetched, admin>> /\ req[r].pc \in {"denied", "error"}
      /\ check' = [check EXCEPT ![r] = check[r]] /\ fetched[r] = "none" /\ req[r] \in Asks
      /\ check[r] \in Checks /\ check[r].pc = "off" /\ Asking /\ Stock
      /\ req[r].row \in Licences /\ licences[req[r].row].state # "none"
      /\ \A l \in req[r].rows : licences[l].state # "none"
      /\ licences' = Revoked({req[r].row})
  BY Parts DEF Drop, accessVars, settingsVars, Fit, Syncing
<1> DEFINE q == [req[r] EXCEPT !.pc = "sync"]
<1>2. /\ q \in Asks /\ q.pc = "sync" /\ q.rows = req[r].rows /\ req' = [req EXCEPT ![r] = q]
  BY <1>1 DEF Drop, Goto, Asks, Syncing
<1> HIDE DEF q
<1>3. Wanes /\ Stock'
  BY <1>1, RevokedType DEF Wanes, Stock
<1>4. /\ Asking' /\ req'[r] = q /\ \A p \in Requests \ {r} : Same(p)
      /\ fetched'[r] = fetched[r] /\ \A p \in Readers \ {r} : fetched'[p] = fetched[p]
  BY <1>1, <1>2, <1>3, CheckEnds DEF Issuing, Syncing, Wanes
<1>5. Quiet(r)
  BY <1>2, <1>4 DEF Quiet
<1>6. QED
  BY <1>1, <1>3, <1>4, <1>5 DEF Moved, Move

LEMMA FailMoves == ASSUME TypeInv, NEW r \in Requests, RequestFails(r) PROVE Moved(r)
<1> USE LicenceAssumption
<1>1. /\ UNCHANGED <<open, archived, ready, stored, settings, licences, admin>>
      /\ check' = [check EXCEPT ![r] = NoCheck] /\ fetched' = [fetched EXCEPT ![r] = "none"]
      /\ req[r] \in Asks /\ NoCheck \in Checks /\ NoCheck.pc = "off" /\ Asking /\ Stock
      /\ Fit(req[r], check[r], fetched[r], licences) /\ Idle \in Asks /\ Idle.pc = "idle" /\ "none" \in Values
  BY Parts, IdleType DEF RequestFails, Stopped, NoCheck, Idle, Values
<1>2. PICK q \in Asks :
          /\ req' = [req EXCEPT ![r] = q]
          /\ \/ q.pc = "idle"
             \/ req[r].pc = "look" /\ q.pc = "error" /\ q.row = req[r].row /\ q.rows = req[r].rows
  <2>1. CASE Leave(r)
    BY <1>1, <2>1 DEF Leave
  <2>2. CASE req[r].pc = "look" /\ Goto(r, "error")
    <3> DEFINE q == [req[r] EXCEPT !.pc = "error"]
    <3>1. /\ q \in Asks /\ q.pc = "error" /\ q.row = req[r].row /\ q.rows = req[r].rows
          /\ req' = [req EXCEPT ![r] = q]
      BY <1>1, <2>2 DEF Goto, Asks, Syncing
    <3> HIDE DEF q
    <3>2. QED
      BY <2>2, <3>1
  <2>3. QED
    BY <2>1, <2>2 DEF RequestFails
<1>3. Fit(q, NoCheck, "none", licences)
  BY <1>1, <1>2 DEF Fit, Issuing, Syncing
<1>4. /\ Asking' /\ req'[r] = q /\ fetched'[r] = "none"
      /\ (\A p \in Requests \ {r} : Same(p)) /\ \A p \in Readers \ {r} : fetched'[p] = fetched[p]
  BY <1>1, <1>2, <1>3, ReqStep DEF Values
<1>5. Quiet(r)
  BY <1>2, <1>4 DEF Quiet
<1>6. QED
  BY <1>1, <1>4, <1>5 DEF Moved, Move, Stock

LEMMA StepMoves == ASSUME TypeInv, NEW r \in Requests, Step(r) PROVE Moved(r)
BY AskMoves, SettingsMoves, ReadMoves, JudgeMoves, RevokeMoves, InsertMoves, ListMoves, LookMoves,
   SettleMoves, DropMoves, FailMoves DEF Step

(***************************************************************************)
(* The other steps, and the type invariant                                 *)
(***************************************************************************)

\* Time, owners and settings leave each request where it is, at most a tick older.
Calm(ticks) ==
    /\ UNCHANGED check
    /\ \A r \in Requests : /\ req'[r].pc = req[r].pc /\ req'[r].item = req[r].item /\ req'[r].rows = req[r].rows
                           /\ (req[r].pc # "idle" => req'[r].age = req[r].age + ticks)
                           /\ fetched'[r] = fetched[r]

LEMMA CalmTypes ==
    ASSUME Asking, req' = req, UNCHANGED check, fetched' \in [Readers -> Values],
           \A r \in Requests : fetched'[r] = fetched[r],
           \A l \in Licences : licences[l].state # "none" => licences'[l].state # "none"
    PROVE  Asking' /\ Calm(0)
<1>1. \A r \in Requests : Fit(req'[r], check'[r], fetched'[r], licences')
  BY DEF Asking, Fit, Asks
<1>2. \A r \in Requests : req[r].age \in Nat
  BY LicenceAssumption DEF Asking, Asks
<1>3. QED
  BY <1>1, <1>2 DEF Asking, Calm

LEMMA RowsCalm ==
    ASSUME TypeInv, (\E l \in Licences : RevokeOwn(l) \/ Expire(l)) \/ CleanupExpired
    PROVE  /\ Asking' /\ Calm(0) /\ Stock' /\ Wanes
           /\ UNCHANGED <<open, archived, ready, stored, settings, fetched, admin>>
<1>1. /\ UNCHANGED <<open, archived, ready, check, stored, settings, fetched, req, admin>> /\ Stock /\ Asking
  BY DEF RevokeOwn, Expire, CleanupExpired, accessVars, settingsVars, TypeInv
<1>2. Stock' /\ Wanes
  <2>1. ASSUME NEW rows, licences' = Revoked(rows),
               \A l \in Licences : l \in rows => licences[l].state # "none"
        PROVE  Stock' /\ Wanes
    BY <1>1, <2>1, RevokedType DEF Stock, Wanes
  <2>2. ASSUME NEW l \in Licences, Expire(l) PROVE Stock' /\ Wanes
    <3>1. licences' = [licences EXCEPT ![l].state = "lapsed"] /\ licences[l].state = "valid"
      BY <2>2 DEF Expire
    <3>2. licences[l] \in Rows /\ [licences[l] EXCEPT !.state = "lapsed"] \in Rows
      BY <1>1 DEF Stock, Rows
    <3>3. /\ licences' \in [Licences -> Rows] /\ licences'[l].item = licences[l].item /\ licences'[l].state = "lapsed"
          /\ \A k \in Licences \ {l} : licences'[k] = licences[k]
      BY <1>1, <3>1, <3>2 DEF Stock, Rows
    <3>4. QED
      BY <1>1, <3>1, <3>3 DEF Stock, Wanes
  <2>3. ASSUME NEW l \in Licences, RevokeOwn(l) PROVE Stock' /\ Wanes
    BY <2>1, <2>3 DEF RevokeOwn
  <2>4. CASE CleanupExpired
    BY <2>1, <2>4 DEF CleanupExpired
  <2>5. QED
    BY <2>2, <2>3, <2>4
<1>3. fetched' \in [Readers -> Values]
  BY <1>1 DEF Asking
<1>4. QED
  BY <1>1, <1>2, <1>3, CalmTypes DEF Wanes

LEMMA OthersCalm ==
    ASSUME TypeInv, Others
    PROVE  Asking' /\ Calm(0) /\ Around' /\ UNCHANGED <<stored, settings, fetched, licences, admin>>
<1>1. /\ UNCHANGED <<check, stored, settings, fetched, licences, req, admin>> /\ Asking /\ Around
  BY DEF Others, OthersAct, SetAccess, SetArchived, SetReady, settingsVars, TypeInv
<1>2. open' \subseteq Students \X Places /\ archived' \subseteq Nodes /\ ready' \subseteq Videos
  BY <1>1, PolicyAssumption DEF Others, OthersAct, SetAccess, SetArchived, SetReady, Grants, Places, Around
<1>3. Asking' /\ Calm(0)
  BY <1>1, CalmTypes DEF Asking
<1>4. QED
  BY <1>1, <1>2, <1>3 DEF Around

LEMMA UpdateCalm ==
    ASSUME TypeInv, UpdateSettings
    PROVE  Asking' /\ Calm(0) /\ Around' /\ UNCHANGED <<open, archived, ready, licences>>
<1> USE LicenceAssumption, SettingsAssumption
<1>1. UNCHANGED <<open, archived, ready, check, licences, req>> /\ Asking /\ Around
  BY DEF UpdateSettings, accessVars, TypeInv
<1>2. /\ fetched' \in [Readers -> Values] /\ \A q \in Requests : fetched'[q] = fetched[q]
      /\ stored' \in {"on", "off"} /\ settings' \in [value : {"on", "off"}, left : 0 .. SettingsTTL]
      /\ admin' \in {"idle", "committed", "invalidated"}
  <2>1. CASE admin = "idle" /\ admin' = "committed" /\ Commit(IF stored = "on" THEN "off" ELSE "on")
    BY <1>1, <2>1 DEF Commit, Asking, Around
  <2>2. CASE admin = "committed" /\ admin' = "invalidated" /\ Invalidate
    BY <1>1, <2>2 DEF Invalidate, Asking, Around
  <2>3. CASE admin = "invalidated" /\ UNCHANGED admin /\ Fetch(Admin)
    BY <1>1, <2>3 DEF Fetch, Asking, Around, Values
  <2>4. CASE admin = "invalidated" /\ admin' = "idle" /\ Fill(Admin)
    BY <1>1, <2>4 DEF Fill, Asking, Around, Values
  <2>5. CASE admin = "invalidated" /\ admin' = "idle" /\ UNCHANGED settingsVars
    BY <1>1, <2>5 DEF settingsVars, Asking, Around
  <2>6. QED
    BY <2>1, <2>2, <2>3, <2>4, <2>5 DEF UpdateSettings
<1>3. QED
  BY <1>1, <1>2, CalmTypes DEF Around

LEMMA TickCalm ==
    ASSUME TypeInv, Tick
    PROVE  Asking' /\ Calm(1) /\ Around' /\ UNCHANGED <<open, archived, ready, stored, fetched, licences, admin>>
<1> USE LicenceAssumption, SettingsAssumption
<1>1. UNCHANGED <<open, archived, ready, check, stored, fetched, licences, admin>> /\ Asking /\ Around
  BY DEF Tick, Age, accessVars, TypeInv
<1>2. settings' \in [value : {"on", "off"}, left : 0 .. SettingsTTL]
  BY <1>1 DEF Tick, Age, Around
<1>3. ASSUME NEW r \in Requests
      PROVE  /\ req'[r] \in Asks /\ req'[r].pc = req[r].pc /\ req'[r].item = req[r].item
             /\ req'[r].rows = req[r].rows /\ req'[r].row = req[r].row
             /\ (req[r].pc # "idle" => req'[r].age = req[r].age + 1)
  <2>1. req[r] \in Asks
    BY <1>1 DEF Asking
  <2>2. req'[r] = IF req[r].pc = "idle" THEN req[r] ELSE [req[r] EXCEPT !.age = @ + 1]
    BY DEF Tick
  <2>3. CASE req[r].pc = "idle"
    BY <2>1, <2>2, <2>3
  <2>4. CASE req[r].pc # "idle"
    <3>1. req[r].age + 1 \in 0 .. MaxAge
      BY <2>1, <2>4 DEF Tick, Asks
    <3>2. QED
      BY <2>1, <2>2, <2>4, <3>1 DEF Asks
  <2>5. QED
    BY <2>3, <2>4
<1>4. req' \in [Requests -> Asks]
  BY <1>3 DEF Tick
<1>5. \A r \in Requests : Fit(req'[r], check'[r], fetched'[r], licences')
  BY <1>1, <1>3 DEF Asking, Fit
<1>6. QED
  BY <1>1, <1>2, <1>3, <1>4, <1>5 DEF Asking, Around, Calm

LEMMA ObserveTypes ==
    ASSUME TypeInv, NEW ticks \in {0, 1}, Observe(ticks)
    PROVE  Histories' /\ watched' = watched
<1> USE LicenceAssumption, SettingsAssumption
<1>1. seen' \subseteq Requests /\ missed' \subseteq Requests /\ watched' = watched
  BY DEF Observe
<1>2. since' \in 0 .. Cap
  BY DEF Observe, TypeInv, Histories, Cap
<1>3. overlapped' \in BOOLEAN
  BY DEF Observe, TypeInv, Histories
<1>4. QED
  BY <1>1, <1>2, <1>3 DEF Histories

LEMMA TypeStep == TypeInv /\ [Next]_vars => TypeInv'
<1> USE LicenceAssumption, SettingsAssumption
<1> SUFFICES ASSUME TypeInv, [Next]_vars PROVE TypeInv'
  OBVIOUS
<1>0. Stock /\ Around /\ watched[2] \in Facts("policy", watched[1])
  BY DEF TypeInv
<1>1. ASSUME NEW r \in Requests, Step(r), Observe(0) PROVE TypeInv'
  <2>1. Moved(r)
    BY <1>1, StepMoves
  <2>2. Around'
    <3>1. settings' \in [value : {"on", "off"}, left : 0 .. SettingsTTL]
      BY <1>0, <2>1, Parts DEF Moved, Around, Values
    <3>2. QED
      BY <1>0, <2>1, <3>1 DEF Moved, Around
  <2>3. QED
    BY <1>0, <1>1, <2>1, <2>2, ObserveTypes DEF Moved, TypeInv, Facts, Needs
<1>2. CASE ((\E l \in Licences : RevokeOwn(l) \/ Expire(l)) \/ CleanupExpired) /\ Observe(0)
  <2>1. Asking' /\ Stock' /\ Around'
    BY <1>0, <1>2, RowsCalm DEF Around
  <2>2. QED
    BY <1>0, <1>2, <2>1, ObserveTypes DEF TypeInv, Facts, Needs
<1>3. CASE UpdateSettings /\ Observe(0)
  BY <1>0, <1>3, UpdateCalm, ObserveTypes DEF TypeInv, Facts, Needs, Stock
<1>4. CASE Others /\ Observe(0)
  BY <1>0, <1>4, OthersCalm, ObserveTypes DEF TypeInv, Facts, Needs, Stock
<1>5. CASE Tick /\ Observe(1)
  BY <1>0, <1>5, TickCalm, ObserveTypes DEF TypeInv, Facts, Needs, Stock
<1>6. CASE UNCHANGED vars
  <2>1. Asking'
    BY <1>6 DEF TypeInv, Asking, vars
  <2>2. Stock' /\ Around' /\ watched' = watched
    BY <1>0, <1>6 DEF Stock, Around, vars
  <2>3. Histories'
    BY <1>6 DEF TypeInv, Histories, vars
  <2>4. QED
    BY <1>0, <2>1, <2>2, <2>3 DEF TypeInv, Facts, Needs
<1>7. QED
  BY <1>1, <1>2, <1>3, <1>4, <1>5, <1>6 DEF Next

\* The state keeps its type, and a request has a check of the policy exactly while it is where
\* one runs.
THEOREM TypeCorrect == Spec => []TypeOK
<1>1. Spec => []TypeInv
  BY TypeInit, TypeStep, PTL DEF Spec
<1>2. QED
  BY <1>1, TypeInvType, PTL

LEMMA NextMoves ==
    ASSUME TypeInv, Next
    PROVE  \/ \E r \in Requests : Moved(r) /\ Observe(0)
           \/ \E t \in {0, 1} : Asking' /\ Calm(t) /\ Observe(t)
BY StepMoves, RowsCalm, OthersCalm, UpdateCalm, TickCalm DEF Next

(***************************************************************************)
(* A sync takes away what was closed.  What a check did not find of what   *)
(* it asked for was missing when it asked.                                 *)
(***************************************************************************)
Looked(r) ==
    /\ check[r].pc # "off" => check[r].found \subseteq check[r].asked /\ check[r].asked \subseteq Facts("policy", check[r].item)
    /\ req[r].pc = "look" /\ check[r].found # check[r].asked => r \in missed
    /\ req[r].pc = "denied" => r \in missed

LookInv == \A r \in Requests : Looked(r)

LEMMA LookStep == TypeInv /\ LookInv /\ [Next]_vars => LookInv'
<1> SUFFICES ASSUME TypeInv, LookInv, [Next]_vars, NEW q \in Requests PROVE Looked(q)'
  BY DEF LookInv
<1>0. Looked(q) /\ Fit(req[q], check[q], fetched[q], licences)
  BY Parts DEF LookInv
<1>1. ASSUME req'[q].pc = req[q].pc, check'[q] = check[q], NEW t \in {0, 1}, Observe(t)
      PROVE  Looked(q)'
  <2>1. q \in missed /\ req[q].pc \in {"look", "denied"} => q \in missed'
    BY <1>1 DEF Observe
  <2>2. QED
    BY <1>0, <1>1, <2>1 DEF Looked, Facts, Needs
<1>2. ASSUME NEW r \in Requests, Moved(r), Observe(0), q # r PROVE Looked(q)'
  BY <1>1, <1>2 DEF Moved, Same
<1>3. ASSUME Moved(q), Observe(0) PROVE Looked(q)'
  <2>1. Fit(req'[q], check'[q], fetched'[q], licences') /\ (check'[q].pc # "off" <=> req'[q].pc \in {"policy", "look"})
    BY <1>3 DEF Moved, Asking, Fit
  <2>2. CASE Quiet(q) \/ Judged(q) \/ Revokes(q)
    BY <2>1, <2>2 DEF Quiet, Judged, Revokes, Looked
  <2>3. CASE Starts(q)
    BY <2>1, <2>3 DEF Starts, Looked
  <2>4. CASE Reads(q)
    <3>1. PICK fs \in SUBSET Facts("policy", check[q].item) :
              /\ check'[q].asked = check[q].asked \cup fs
              /\ check'[q].found = check[q].found \cup (fs \cap Holding(Student, check[q].item))
      BY <2>4 DEF Reads
    <3>2. req'[q] = req[q] /\ check'[q].item = check[q].item /\ check[q].pc # "off"
      BY <1>0, <2>4 DEF Reads, Fit
    <3>3. check'[q].found \subseteq check'[q].asked /\ check'[q].asked \subseteq Facts("policy", check'[q].item)
      BY <1>0, <3>1, <3>2 DEF Looked
    <3>4. ASSUME req[q].pc = "look", check'[q].found # check'[q].asked PROVE q \in missed'
      <4>1. CASE check[q].found # check[q].asked
        BY <1>0, <1>3, <3>2, <3>4, <4>1 DEF Looked, Observe
      <4>2. CASE ~(fs \subseteq Holding(Student, check[q].item))
        <5>1. ~Entitled(q)'
          <6>1. open' = open /\ archived' = archived /\ ready' = ready
            BY <1>3 DEF Moved
          <6>2. SUFFICES ASSUME Entitled(q)' PROVE fs \subseteq Holding(Student, check[q].item)
            BY <4>2
          <6>3. QED
            BY <3>1, <3>2, <6>1, <6>2 DEF Entitled, Holding, Facts, Needs
        <5>2. QED
          BY <1>3, <2>1, <3>2, <3>4, <5>1 DEF Observe
      <4>3. QED
        BY <3>1, <3>4, <4>1, <4>2
    <3>5. QED
      BY <2>4, <3>2, <3>3, <3>4 DEF Looked, Reads, Facts, Needs
  <2>5. CASE Settled(q)
    <3>1. q \in missed
      BY <1>0, <2>5 DEF Settled, Denied, Looked
    <3>2. q \in missed'
      BY <1>3, <2>5, <3>1 DEF Settled, Observe
    <3>3. QED
      BY <2>1, <2>5, <3>2 DEF Settled, Looked
  <2>6. QED
    BY <1>3, <2>2, <2>3, <2>4, <2>5 DEF Moved, Move
<1>4. CASE UNCHANGED vars
  BY <1>0, <1>4 DEF vars, Looked, Facts, Needs
<1>5. ASSUME NEW t \in {0, 1}, Calm(t), Observe(t) PROVE Looked(q)'
  BY <1>1, <1>5 DEF Calm
<1>6. QED
  BY <1>2, <1>3, <1>4, <1>5, NextMoves

\* A sync that gets its answers revokes the licences of no video that was READY and open to the
\* student all the time it looked.
THEOREM TakesClosed == Spec => []SyncTakesClosed
<1>1. Init => LookInv
  BY DEF Init, AccessInit, LookInv, Looked, NoCheck, Idle
<1>2. LookInv => SyncTakesClosed
  BY DEF LookInv, Looked, SyncTakesClosed
<1>3. QED
  BY <1>1, <1>2, TypeInit, TypeStep, LookStep, PTL DEF Spec

(***************************************************************************)
(* At most one licence in force.  As long as no two transactions have      *)
(* overlapped, the one under way knows every row it has to revoke.         *)
(***************************************************************************)
Writing(r) == req[r].pc \in {"revoke", "insert"}

Apart ==
    /\ \A q, r \in Requests : q # r => ~(Writing(q) /\ Writing(r))
    /\ \A r \in Requests : req[r].pc = "insert" => RowsOf(req[r].item, {"valid"}) \subseteq req[r].rows
    /\ \A k, l \in Licences : /\ licences[k].state = "valid" /\ licences[l].state = "valid"
                              /\ licences[k].item = licences[l].item
                              => k = l

ApartInv == overlapped \/ Apart

\* No row comes into force unless it is the request's.
LEMMA Untouched ==
    ASSUME Wanes \/ licences' = licences
    PROVE  \A l \in Licences : licences'[l].state = "valid" =>
               licences[l].state = "valid" /\ licences'[l].item = licences[l].item
BY DEF Wanes

LEMMA ApartStep == TypeInv /\ ApartInv /\ [Next]_vars => ApartInv'
<1> SUFFICES ASSUME TypeInv, ApartInv, [Next]_vars PROVE ApartInv'
  OBVIOUS
<1>1. CASE UNCHANGED vars
  BY <1>1 DEF vars, ApartInv, Apart, Writing, RowsOf
<1>2. ASSUME Next, ~overlapped' PROVE Apart'
  <2>0. /\ Apart /\ Stock /\ Asking
        /\ \A q, r \in Requests : q # r => ~(Writing(q)' /\ Writing(r)')
    BY <1>2 DEF ApartInv, Next, Observe, Writing, TypeInv
  <2>1. CASE \E r \in Requests : Step(r) /\ Observe(0)
    <3>1. PICK r \in Requests : Moved(r)
      BY <2>1, StepMoves
    <3>2. \A q \in Requests \ {r} : req'[q] = req[q]
      BY <3>1 DEF Moved, Same
    <3>3. req'[r].pc = "insert" => Revokes(r)
      BY <3>1 DEF Moved, Move, Quiet, Starts, Reads, Judged, Revokes, Settled
    <3>4. CASE Wanes \/ licences' = licences
      <4>1. ASSUME NEW q \in Requests, req'[q].pc = "insert"
            PROVE  RowsOf(req[q].item, {"valid"})' \subseteq req'[q].rows
        <5>1. CASE q # r
          BY <2>0, <3>2, <3>4, <4>1, <5>1, Untouched DEF Apart, RowsOf
        <5>2. CASE q = r
          <6>1. req'[r].item = req[r].item /\ req'[r].rows = RowsOf(req[r].item, {"valid", "lapsed"})
            BY <3>3, <4>1, <5>2 DEF Revokes, Stays
          <6>2. QED
            BY <3>4, <5>2, <6>1, Untouched DEF RowsOf
        <5>3. QED
          BY <5>1, <5>2
      <4>2. QED
        BY <2>0, <3>4, <4>1, Untouched DEF Apart, Writing
    <3>5. CASE Waxes(r) /\ Quiet(r)
      <4>1. PICK l \in Licences : licences' = [Revoked(req[r].rows) EXCEPT ![l] = [item |-> req[r].item, state |-> "valid"]]
        BY <3>5 DEF Waxes
      <4>2. /\ licences'[l].item = req[r].item /\ licences'[l].state = "valid"
            /\ \A k \in Licences \ {l} : licences'[k] = Revoked(req[r].rows)[k]
        BY <2>0, <4>1, RevokedType
      <4>3. \A k \in Licences \ {l} : licences'[k].state = "valid" =>
                licences[k].state = "valid" /\ licences'[k].item = licences[k].item /\ k \notin req[r].rows
        BY <2>0, <4>2, RevokedType
      <4>4. \A k \in Licences \ {l} : licences'[k].state = "valid" => licences'[k].item # req[r].item
        BY <2>0, <3>5, <4>3 DEF Apart, Waxes, RowsOf
      <4>5. \A q \in Requests : req'[q].pc # "insert"
        BY <2>0, <3>2, <3>5 DEF Waxes, Quiet, Apart, Writing
      <4>6. QED
        BY <2>0, <4>2, <4>3, <4>4, <4>5 DEF Apart, Writing
    <3>6. QED
      BY <3>1, <3>4, <3>5 DEF Moved
  <2>2. CASE (Wanes \/ licences' = licences) /\ \E t \in {0, 1} : Calm(t)
    <3>1. \A q \in Requests : req'[q].pc = req[q].pc /\ req'[q].item = req[q].item /\ req'[q].rows = req[q].rows
      BY <2>2 DEF Calm
    <3>2. QED
      BY <2>0, <2>2, <3>1, Untouched DEF Apart, Writing, RowsOf
  <2>3. QED
    BY <1>2, <2>1, <2>2, RowsCalm, OthersCalm, UpdateCalm, TickCalm DEF Next
<1>3. QED
  BY <1>1, <1>2 DEF ApartInv

\* A device has one licence in force for a video at most, unless transactions have overlapped.
THEOREM OneInForce == Spec => []OneLicence
<1>1. Init => ApartInv
  BY DEF Init, ApartInv, Apart, Writing, Idle, NoLicence
<1>2. ASSUME ApartInv PROVE OneLicence
  <2> SUFFICES ASSUME Apart, NEW i \in Items PROVE Cardinality(RowsOf(i, {"valid"})) <= 1
    BY <1>2 DEF OneLicence, ApartInv
  <2>1. CASE RowsOf(i, {"valid"}) = {}
    BY <2>1, FS_EmptySet
  <2>2. CASE RowsOf(i, {"valid"}) # {}
    <3>1. PICK l \in Licences : l \in RowsOf(i, {"valid"})
      BY <2>2 DEF RowsOf
    <3>2. RowsOf(i, {"valid"}) = {l}
      BY <3>1 DEF RowsOf, Apart
    <3>3. QED
      BY <3>2, FS_Singleton
  <2>3. QED
    BY <2>1, <2>2
<1>3. QED
  BY <1>1, <1>2, TypeInit, TypeStep, ApartStep, PTL DEF Spec

(***************************************************************************)
(* A licence is written on what held.  A fact the check has found was seen *)
(* to hold; and what a request knows of the setting is as old as it says.  *)
(***************************************************************************)
Granted(r) ==
    watched[1] = req[r].item =>
        /\ req[r].pc = "policy" /\ watched[2] \in check[r].found => r \in seen
        /\ Writing(r) => r \in seen

GrantInv == \A r \in Requests : Granted(r)

LEMMA GrantStep == TypeInv /\ GrantInv /\ [Next]_vars => GrantInv'
<1> SUFFICES ASSUME TypeInv, GrantInv, [Next]_vars, NEW q \in Requests PROVE Granted(q)'
  BY DEF GrantInv
<1>0. Granted(q) /\ Fit(req[q], check[q], fetched[q], licences) /\ watched[2] \in Facts("policy", watched[1])
  BY Parts DEF GrantInv, TypeInv
<1>1. ASSUME req'[q].pc = req[q].pc, req'[q].item = req[q].item, check'[q] = check[q], NEW t \in {0, 1}, Observe(t)
      PROVE  Granted(q)'
  BY <1>0, <1>1 DEF Granted, Writing, Observe
<1>2. ASSUME NEW r \in Requests, Moved(r), Observe(0), q # r PROVE Granted(q)'
  BY <1>1, <1>2 DEF Moved, Same
<1>3. ASSUME Moved(q), Observe(0) PROVE Granted(q)'
  <2>1. watched' = watched
    BY <1>3 DEF Observe
  <2>2. CASE Quiet(q) \/ Settled(q)
    BY <2>2 DEF Quiet, Settled, Granted, Writing
  <2>3. CASE Starts(q)
    BY <2>3 DEF Starts, Granted, Writing
  <2>4. CASE Reads(q)
    <3>1. PICK fs \in SUBSET Facts("policy", check[q].item) :
              check'[q].found = check[q].found \cup (fs \cap Holding(Student, check[q].item))
      BY <2>4 DEF Reads
    <3>2. req'[q] = req[q] /\ check'[q].item = check[q].item /\ check'[q].pc # "off" /\ req[q].pc \in {"policy", "look"}
      <4>1. req'[q] = req[q] /\ check'[q].item = check[q].item /\ req[q].pc \in {"policy", "look"}
        BY <2>4 DEF Reads
      <4>2. QED
        BY <1>3, <4>1 DEF Moved, Asking, Fit
    <3>3. ASSUME req[q].pc = "policy", watched[1] = req[q].item, watched[2] \in check'[q].found PROVE q \in seen'
      <4>1. CASE watched[2] \in check[q].found
        BY <1>0, <1>3, <3>2, <3>3, <4>1 DEF Granted, Observe
      <4>2. CASE watched[2] \in Holding(Student, check[q].item)
        <5>1. check[q].item = watched[1]
          BY <1>0, <3>3 DEF Fit
        <5>2. open' = open /\ archived' = archived /\ ready' = ready
          BY <1>3 DEF Moved
        <5>3. (watched[2] \in Holding(Student, watched[1]))'
          BY <2>1, <4>2, <5>1, <5>2 DEF Holding, Facts, Needs
        <5>4. QED
          BY <1>3, <3>2, <3>3, <5>3 DEF Observe
      <4>3. QED
        BY <3>1, <3>3, <4>1, <4>2
    <3>4. QED
      BY <2>1, <3>2, <3>3 DEF Granted, Writing
  <2>5. CASE Judged(q)
    <3>1. watched[1] = req[q].item => q \in seen
      <4>1. check[q].found = Facts("policy", check[q].item) /\ check[q].item = req[q].item /\ req[q].pc = "policy"
        BY <1>0, <2>5 DEF Judged, Passed, Fit
      <4>2. QED
        BY <1>0, <4>1 DEF Granted
    <3>2. QED
      BY <1>3, <2>1, <2>5, <3>1 DEF Judged, Stays, Granted, Writing, Observe
  <2>6. CASE Revokes(q)
    BY <1>0, <1>3, <2>1, <2>6 DEF Revokes, Stays, Granted, Writing, Observe
  <2>7. QED
    BY <1>3, <2>2, <2>3, <2>4, <2>5, <2>6 DEF Moved, Move
<1>4. CASE UNCHANGED vars
  BY <1>0, <1>4 DEF vars, Granted, Writing
<1>5. ASSUME NEW t \in {0, 1}, Calm(t), Observe(t) PROVE Granted(q)'
  BY <1>1, <1>5 DEF Calm
<1>6. QED
  BY <1>2, <1>3, <1>4, <1>5, NextMoves

\* How long downloads may have been off for each who takes them to be on.
Aged(r) ==
    /\ fetched[r] = "on" => since <= req[r].age
    /\ (req[r].pc = "policy" \/ Writing(r)) => since <= MaxAge + SettingsTTL - 1 + req[r].age

AgeInv ==
    /\ stored = "on" => since = 0
    /\ fetched[Admin] # "none" => admin = "invalidated" /\ fetched[Admin] = stored
    /\ settings.value = "on" /\ settings.left > 0 => since <= MaxAge + SettingsTTL - settings.left
    /\ \A r \in Requests : Aged(r)

LEMMA Bounds ==
    TypeInv => /\ since \in Nat /\ settings.left \in 0 .. SettingsTTL /\ MaxAge \in Nat /\ SettingsTTL \in Nat \ {0}
               /\ \A r \in Requests : req[r].age \in 0 .. MaxAge /\ r \in Readers /\ r # Admin
BY LicenceAssumption, SettingsAssumption DEF TypeInv, Histories, Around, Asking, Asks, Cap

LEMMA SinceGrows ==
    ASSUME TypeInv, NEW t \in {0, 1}, Observe(t)
    PROVE  since' \in Nat /\ since' <= since + t /\ (stored' = "on" => since' = 0)
BY Bounds DEF Observe, Cap

LEMMA AgeStep == TypeInv /\ AgeInv /\ [Next]_vars => AgeInv'
<1> SUFFICES ASSUME TypeInv, AgeInv, [Next]_vars PROVE AgeInv'
  OBVIOUS
<1> USE Bounds
<1>0. TypeInv'
  BY TypeStep
<1>1. CASE UNCHANGED vars
  BY <1>1 DEF vars, AgeInv, Aged, Writing
<1>2. ASSUME NEW r \in Requests, Moved(r), Observe(0) PROVE AgeInv'
  <2>1. since' \in Nat /\ since' <= since /\ (stored' = "on" => since' = 0)
    BY <1>2, SinceGrows
  <2>2. UNCHANGED <<stored, admin>> /\ fetched'[Admin] = fetched[Admin]
    BY <1>2, LicenceAssumption DEF Moved
  <2>3. settings'.value = "on" /\ settings'.left > 0 => since' <= MaxAge + SettingsTTL - settings'.left
    <3>1. CASE settings' = settings
      BY <2>1, <3>1 DEF AgeInv
    <3>2. CASE settings' = [value |-> fetched[r], left |-> SettingsTTL]
      BY <2>1, <3>2 DEF AgeInv, Aged
    <3>3. QED
      BY <1>2, <3>1, <3>2 DEF Moved
  <2>4. ASSUME NEW q \in Requests \ {r} PROVE Aged(q)'
    <3>1. req'[q] = req[q] /\ fetched'[q] = fetched[q] /\ Aged(q)
      BY <1>2 DEF Moved, Same, AgeInv
    <3>2. QED
      BY <2>1, <3>1 DEF Aged, Writing
  <2>5. fetched'[r] = "on" => since' <= req'[r].age
    <3>1. req'[r].age \in Nat
      BY <1>0, Bounds DEF TypeInv, Asking, Asks
    <3>2. QED
      BY <1>2, <2>1, <2>2, <3>1 DEF Moved
  <2>6. (req'[r].pc = "policy" \/ Writing(r)') => since' <= MaxAge + SettingsTTL - 1 + req'[r].age
    <3>1. Aged(r) /\ req'[r].age \in Nat
      BY <1>0, Bounds DEF AgeInv, TypeInv, Asking, Asks
    <3>2. CASE Quiet(r) \/ Settled(r)
      BY <3>2 DEF Quiet, Settled, Writing
    <3>3. CASE Starts(r)
      BY <2>1, <3>1, <3>3 DEF Starts, Stays, Writing, Aged, AgeInv
    <3>4. CASE Reads(r)
      BY <2>1, <3>1, <3>4 DEF Reads, Writing, Aged
    <3>5. CASE Judged(r) \/ Revokes(r)
      BY <2>1, <3>1, <3>5 DEF Judged, Revokes, Stays, Writing, Aged
    <3>6. QED
      BY <1>2, <3>2, <3>3, <3>4, <3>5 DEF Moved, Move
  <2>7. QED
    BY <2>1, <2>2, <2>3, <2>4, <2>5, <2>6 DEF AgeInv, Aged, Writing
<1>3. ASSUME Calm(0), Observe(0),
             \/ UNCHANGED <<stored, settings, admin, fetched>>
             \/ UpdateSettings
      PROVE  AgeInv'
  <2>1. since' \in Nat /\ since' <= since /\ (stored' = "on" => since' = 0)
    BY <1>3, SinceGrows
  <2>2. ASSUME NEW q \in Requests PROVE Aged(q)'
    <3>1. /\ req'[q].pc = req[q].pc /\ fetched'[q] = fetched[q] /\ Aged(q)
          /\ (req[q].pc # "idle" => req'[q].age = req[q].age) /\ (fetched[q] # "none" => req[q].pc = "settings")
      BY <1>3, Parts DEF Calm, AgeInv, Fit
    <3>2. QED
      BY <2>1, <3>1 DEF Aged, Writing
  <2>3. /\ fetched'[Admin] # "none" => admin' = "invalidated" /\ fetched'[Admin] = stored'
        /\ settings'.value = "on" /\ settings'.left > 0 => since' <= MaxAge + SettingsTTL - settings'.left
    <3>0. Admin \in Readers /\ fetched \in [Readers -> Values] /\ settings \in [value : {"on", "off"}, left : 0 .. SettingsTTL]
      BY LicenceAssumption DEF TypeInv, Asking, Around
    <3>1. CASE UNCHANGED <<stored, settings, admin, fetched>>
      BY <2>1, <3>1 DEF AgeInv
    <3>a. CASE UNCHANGED settingsVars /\ fetched[Admin] = "none"
      BY <2>1, <3>a DEF AgeInv, settingsVars
    <3>2. CASE admin = "idle" /\ Commit(IF stored = "on" THEN "off" ELSE "on")
      BY <2>1, <3>2 DEF AgeInv, Commit
    <3>3. CASE admin = "committed" /\ Invalidate
      BY <3>0, <3>3 DEF AgeInv, Invalidate
    <3>4. CASE admin = "invalidated" /\ UNCHANGED admin /\ Fetch(Admin)
      BY <2>1, <3>0, <3>4 DEF AgeInv, Fetch
    <3>5. CASE admin = "invalidated" /\ Fill(Admin)
      BY <2>1, <3>0, <3>5 DEF AgeInv, Fill
    <3>6. QED
      BY <1>3, <3>1, <3>a, <3>2, <3>3, <3>4, <3>5 DEF UpdateSettings
  <2>4. QED
    BY <2>1, <2>2, <2>3 DEF AgeInv
<1>4. CASE Tick /\ Observe(1)
  <2>1. since' \in Nat /\ since' <= since + 1 /\ (stored' = "on" => since' = 0)
    BY <1>4, SinceGrows
  <2>2. Calm(1) /\ UNCHANGED <<stored, fetched, admin>>
    BY <1>4, TickCalm
  <2>3. settings'.value = "on" /\ settings'.left > 0 => since' <= MaxAge + SettingsTTL - settings'.left
    <3>1. settings'.value = settings.value /\ (settings'.left > 0 => settings'.left = settings.left - 1)
      BY <1>4 DEF Tick, Age, TypeInv, Around
    <3>2. QED
      BY <2>1, <3>1, <1>0, Bounds DEF AgeInv, TypeInv, Around
  <2>4. ASSUME NEW q \in Requests PROVE Aged(q)'
    <3>1. /\ req'[q].pc = req[q].pc /\ fetched'[q] = fetched[q] /\ Aged(q)
          /\ (req[q].pc # "idle" => req'[q].age = req[q].age + 1) /\ (fetched[q] # "none" => req[q].pc = "settings")
      BY <2>2, Parts DEF Calm, AgeInv, Fit
    <3>2. QED
      BY <2>1, <3>1 DEF Aged, Writing
  <2>5. QED
    BY <2>1, <2>2, <2>3, <2>4 DEF AgeInv
<1>5. QED
  BY <1>1, <1>2, <1>3, <1>4, StepMoves, RowsCalm, OthersCalm, UpdateCalm DEF Next

\* No licence is written unless each of what it takes held at some moment of the check, and
\* downloads were on no longer ago than the cache and the requests keep an old answer.
THEOREM Allowed == Spec => []IssuedIsAllowed
<1>1. Init => GrantInv /\ AgeInv
  BY LicenceAssumption DEF Init, SettingsInit, GrantInv, Granted, Writing, AgeInv, Aged, Idle
<1>2. TypeInv /\ GrantInv /\ AgeInv => IssuedIsAllowed
  BY Bounds DEF GrantInv, Granted, AgeInv, Aged, Writing, IssuedIsAllowed, Cap
<1>3. QED
  BY <1>1, <1>2, TypeInit, TypeStep, GrantStep, AgeStep, PTL DEF Spec

=============================================================================
