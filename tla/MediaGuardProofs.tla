-------------------------- MODULE MediaGuardProofs --------------------------
(***************************************************************************)
(* What holds of MediaGuard for any catalogue, any sessions, requests that *)
(* overlap in any way, and any size and time of the cache.                 *)
(***************************************************************************)
EXTENDS MediaGuard, TLAPS

(***************************************************************************)
(* Types                                                                   *)
(***************************************************************************)

Ask == [pc : {"idle", "session", "policy", "served", "refused"}, kind : Kinds \cup {"none"},
        session : Sessions \cup {NoSession}, item : Items \cup {NoItem}, age : 0 .. MaxAge]

\* What a request and its check of the policy are to each other.
Matching(q, c) ==
    /\ q.pc # "idle" => q.session \in Sessions /\ q.item \in Items
    /\ (c.pc # "off") <=> (q.pc = "policy")
    /\ c.pc # "off" => /\ c.item = q.item /\ c.student = StudentOf[q.session]
                       /\ q.kind # "view" => c.pc = "policy"

ReqType ==
    /\ req \in [Requests -> Ask] /\ check \in [Requests -> Checks]
    /\ \A r \in Requests : Matching(req[r], check[r])

LEMMA FactsType == \A how : \A i \in Items : Facts(how, i) \subseteq {"chain", "ready"} \cup Places
BY PolicyAssumption DEF Facts, Needs, Places

\* However it is checked, an item takes what the policy asks of it, except that it is READY.
LEMMA FactsNested == \A how, i : Facts("policy", i) \subseteq Facts(how, i) \cup {"ready"}
BY DEF Facts

LEMMA TypeInit == Init => TypeOK
<1> SUFFICES ASSUME Init PROVE TypeOK
  OBVIOUS
<1> USE PolicyAssumption, GuardAssumption
<1>1. AccessTypeOK
  BY DEF Init, AccessInit, AccessTypeOK, NoCheck, Checks
<1>2. /\ live \subseteq Sessions /\ tokens \subseteq Keys /\ cache \in [Keys -> -1 .. TTL]
      /\ seen \subseteq Requests /\ missed \subseteq Requests /\ since \in 0 .. Cap
  BY DEF Init, Cap
<1>3. ReqType
  <2>1. req = [r \in Requests |-> Idle] /\ check = [r \in Requests |-> NoCheck]
    BY DEF Init, AccessInit
  <2>2. Idle \in Ask /\ Matching(Idle, NoCheck)
    BY DEF Idle, Ask, NoCheck, Matching
  <2>3. QED
    BY <1>1, <2>1, <2>2 DEF ReqType, AccessTypeOK
<1>4. watched[1] \in Keys /\ watched[2] \in AllFacts(watched[1][2])
  BY DEF Init
<1>5. QED
  BY <1>1, <1>2, <1>3, <1>4 DEF TypeOK, ReqType, Ask, Matching

\* A step in which request r, with what it asks for, becomes q and its check becomes c.
LEMMA ReqStep ==
    ASSUME ReqType, NEW r \in Requests, NEW q \in Ask, NEW c \in Checks, Matching(q, c),
           req' = [req EXCEPT ![r] = q], check' = [check EXCEPT ![r] = c]
    PROVE  ReqType'
BY DEF ReqType

(***************************************************************************)
(* What a step of a request does                                           *)
(***************************************************************************)
Same(r) == req'[r] = req[r] /\ check'[r] = check[r]
Stays(r) == req'[r].kind = req[r].kind /\ Key(r)' = Key(r) /\ req'[r].age = req[r].age

Ends(r) == req'[r].pc = "idle"
Asks(r) == req'[r].pc = "session"
Hits(r) ==
    /\ req'[r].pc = "served" /\ req'[r].kind = "playlist" /\ cache'[Key(r)'] > 0
Starts(r) ==
    /\ req'[r].pc = "policy" /\ req'[r].session \in live
    /\ check'[r].asked = {} /\ check'[r].found = {}
Turned(r) == req[r].pc = "session" /\ req'[r].pc = "refused" /\ req[r].session \notin live /\ Stays(r)
Reads(r) ==
    /\ req[r].pc = "policy" /\ req'[r] = req[r]
    /\ check'[r].pc = check[r].pc
    /\ \E fs \in SUBSET Facts(check[r].pc, req[r].item) :
         /\ check'[r].asked = check[r].asked \cup fs
         /\ check'[r].found = check[r].found \cup (fs \cap Holding(StudentOf[req[r].session], req[r].item))
Allowed(r) == req[r].pc = "policy" /\ req'[r].pc = "served" /\ Passed(r) /\ Stays(r)
Refused(r) == req[r].pc = "policy" /\ req'[r].pc = "refused" /\ Denied(r) /\ Stays(r)

Move(r) ==
    Ends(r) \/ Asks(r) \/ Hits(r) \/ Starts(r) \/ Turned(r) \/ Reads(r) \/ Allowed(r) \/ Refused(r)

CacheOf(r) ==
    /\ cache' \in [Keys -> -1 .. TTL]
    /\ \A k \in Keys : cache'[k] \in {-1, cache[k]} \/ (k = Key(r) /\ Allowed(r) /\ req[r].kind # "view")

\* All of it.
Moved(r) ==
    /\ ReqType' /\ tokens' \subseteq Keys /\ CacheOf(r)
    /\ UNCHANGED <<open, archived, ready, live>>
    /\ Move(r) /\ \A q \in Requests \ {r} : Same(q)

LEMMA OthersSame ==
    ASSUME ReqType, NEW r \in Requests, NEW q, NEW c,
           req' = [req EXCEPT ![r] = q], check' = [check EXCEPT ![r] = c]
    PROVE  /\ \A p \in Requests \ {r} : Same(p)
           /\ req'[r] = q /\ check'[r] = c
BY DEF ReqType, Same

LEMMA TypeParts == TypeOK => ReqType
BY DEF TypeOK, AccessTypeOK, ReqType, Ask, Matching

LEMMA KeyType ==
    ASSUME ReqType, NEW r \in Requests, req[r].pc # "idle"
    PROVE  Key(r) \in Keys /\ req[r].session \in Sessions /\ req[r].item \in Items
BY DEF ReqType, Matching, Key, Keys

LEMMA AskMoves ==
    ASSUME TypeOK, NEW r \in Requests, NEW kind \in Kinds, NEW se \in Sessions, NEW i \in Items,
           AskMedia(r, kind, se, i)
    PROVE  Moved(r)
<1> USE GuardAssumption
<1>1. PICK pc \in {"served", "session"} :
          /\ Asking(r, kind, se, i, pc)
          /\ pc = "served" => kind = "playlist" /\ cache[<<se, i>>] > 0
  BY DEF AskMedia
<1> DEFINE q == [pc |-> pc, kind |-> kind, session |-> se, item |-> i, age |-> 0]
<1>2. ReqType /\ req[r].pc = "idle" /\ UNCHANGED <<open, archived, ready, check, live, tokens, cache>>
  BY TypeParts DEF AskMedia, accessVars
<1>3. q \in Ask /\ req' = [req EXCEPT ![r] = q]
  BY <1>1 DEF Asking, Ask
<1>4. check[r] \in Checks /\ check[r].pc = "off" /\ check' = [check EXCEPT ![r] = check[r]]
  BY <1>2 DEF ReqType, Matching
<1>5. Matching(q, check[r])
  BY <1>4 DEF Matching
<1>6. ReqType'
  BY <1>2, <1>3, <1>4, <1>5, ReqStep
<1>7. req'[r] = q /\ \A p \in Requests \ {r} : Same(p)
  BY <1>2, <1>3 DEF ReqType, Same
<1>8. Asks(r) \/ Hits(r)
  BY <1>1, <1>2, <1>7 DEF Asks, Hits, Key
<1>9. CacheOf(r) /\ tokens' \subseteq Keys
  BY <1>2 DEF CacheOf, TypeOK
<1>10. QED
  BY <1>2, <1>6, <1>7, <1>8, <1>9 DEF Moved, Move

LEMMA AppMoves ==
    ASSUME TypeOK, NEW r \in Requests, NEW kind \in Kinds, NEW se \in Sessions, NEW i \in Items,
           NEW how \in {"policy", "space", "page", "search"}, kind # "view" => how = "policy",
           AskApp(r, kind, how, se, i)
    PROVE  Moved(r)
<1> USE GuardAssumption
<1> DEFINE q == [pc |-> "policy", kind |-> kind, session |-> se, item |-> i, age |-> 0]
           c == [pc |-> how, student |-> StudentOf[se], item |-> i, asked |-> {}, found |-> {}]
<1>1. ReqType /\ req[r].pc = "idle" /\ se \in live /\ UNCHANGED <<open, archived, ready, live, tokens, cache>>
  BY TypeParts DEF AskApp
<1>2. /\ q \in Ask /\ req' = [req EXCEPT ![r] = q]
      /\ c \in Checks /\ check' = [check EXCEPT ![r] = c]
  BY DEF AskApp, Asking, Started, Ask, Checks
<1>3. Matching(q, c)
  BY DEF Matching
<1>4. ReqType'
  BY <1>1, <1>2, <1>3, ReqStep
<1>5. req'[r] = q /\ check'[r] = c /\ \A p \in Requests \ {r} : Same(p)
  BY <1>1, <1>2, OthersSame
<1>6. Starts(r)
  BY <1>1, <1>5 DEF Starts
<1>7. CacheOf(r) /\ tokens' \subseteq Keys
  BY <1>1 DEF CacheOf, TypeOK
<1>8. QED
  BY <1>1, <1>4, <1>5, <1>6, <1>7 DEF Moved, Move

LEMMA SessionMoves == ASSUME TypeOK, NEW r \in Requests, ReadSession(r) PROVE Moved(r)
<1> USE GuardAssumption
<1>1. /\ ReqType /\ req[r].pc = "session" /\ UNCHANGED <<open, archived, ready, live, tokens, cache>>
      /\ req[r].session \in Sessions /\ req[r].item \in Items /\ req[r] \in Ask
  BY TypeParts, KeyType DEF ReadSession, ReqType
<1>2. CacheOf(r) /\ tokens' \subseteq Keys
  BY <1>1 DEF CacheOf, TypeOK
<1>3. CASE req[r].session \in live
  <2> DEFINE q == [req[r] EXCEPT !.pc = "policy"]
             c == [pc |-> "policy", student |-> StudentOf[req[r].session], item |-> req[r].item,
                   asked |-> {}, found |-> {}]
  <2>1. /\ q \in Ask /\ req' = [req EXCEPT ![r] = q]
        /\ c \in Checks /\ check' = [check EXCEPT ![r] = c]
    BY <1>1, <1>3 DEF ReadSession, Goto, Started, Ask, Checks, ReqType
  <2>2. Matching(q, c)
    BY <1>1 DEF Matching, Ask
  <2>3. ReqType'
    BY <1>1, <2>1, <2>2, ReqStep
  <2>4. req'[r] = q /\ check'[r] = c /\ \A p \in Requests \ {r} : Same(p)
    BY <1>1, <2>1, OthersSame
  <2>5. Starts(r)
    BY <1>1, <1>3, <2>4 DEF Starts, Ask
  <2>6. QED
    BY <1>1, <1>2, <2>3, <2>4, <2>5 DEF Moved, Move
<1>4. CASE req[r].session \notin live
  <2> DEFINE q == [req[r] EXCEPT !.pc = "refused"]
  <2>1. /\ q \in Ask /\ req' = [req EXCEPT ![r] = q]
        /\ check[r] \in Checks /\ check' = [check EXCEPT ![r] = check[r]]
    BY <1>1, <1>4 DEF ReadSession, Goto, Ask, ReqType
  <2>2. Matching(q, check[r])
    BY <1>1 DEF Matching, Ask, ReqType
  <2>3. ReqType'
    BY <1>1, <2>1, <2>2, ReqStep
  <2>4. req'[r] = q /\ \A p \in Requests \ {r} : Same(p)
    BY <1>1, <2>1 DEF ReqType, Same
  <2>5. Turned(r)
    BY <1>1, <1>4, <2>4 DEF Turned, Stays, Ask, Key
  <2>6. QED
    BY <1>1, <1>2, <2>3, <2>4, <2>5 DEF Moved, Move
<1>5. QED
  BY <1>3, <1>4

LEMMA ReadMoves == ASSUME TypeOK, NEW r \in Requests, Read(r) PROVE Moved(r)
<1> USE GuardAssumption
<1>1. PICK f \in Facts(check[r].pc, req[r].item) : ReadFact(r, f)
  BY DEF Read
<1>2. /\ ReqType /\ req[r].pc = "policy" /\ UNCHANGED <<open, archived, ready, live, tokens, cache, req>>
      /\ req[r].session \in Sessions /\ req[r].item \in Items /\ check[r] \in Checks /\ req[r] \in Ask
      /\ Matching(req[r], check[r])
  BY <1>1, TypeParts, KeyType DEF Read, ReadFact, guardVars, ReqType
<1>a. PICK fs : fs = Answers(check[r], f) /\ fs \subseteq Facts(check[r].pc, req[r].item)
  BY <1>2 DEF Answers, Matching
<1>b. PICK h : h = fs \cap Holding(check[r].student, check[r].item)
  OBVIOUS
<1> DEFINE c == [check[r] EXCEPT !.asked = @ \cup fs, !.found = @ \cup h]
<1>3. c \in Checks
  BY <1>2, <1>a, <1>b, FactsType DEF Checks
<1>4. check' = [check EXCEPT ![r] = c] /\ req' = [req EXCEPT ![r] = req[r]]
  BY <1>1, <1>2, <1>a, <1>b DEF ReadFact, ReqType
<1>5. c.pc = check[r].pc /\ c.item = check[r].item /\ c.student = check[r].student
      /\ c.asked = check[r].asked \cup fs /\ c.found = check[r].found \cup h
  BY <1>2 DEF Checks
<1>6. Matching(req[r], c)
  BY <1>2, <1>5 DEF Matching
<1> HIDE DEF c
<1>7. ReqType'
  BY <1>2, <1>3, <1>4, <1>6, ReqStep
<1>8. check'[r] = c /\ req'[r] = req[r] /\ \A p \in Requests \ {r} : Same(p)
  BY <1>2, <1>4 DEF ReqType, Same
<1>9. Reads(r)
  BY <1>2, <1>5, <1>8, <1>a, <1>b DEF Reads, Matching
<1>10. CacheOf(r) /\ tokens' \subseteq Keys
  BY <1>2 DEF CacheOf, TypeOK
<1>11. QED
  BY <1>2, <1>7, <1>8, <1>9, <1>10 DEF Moved, Move

LEMMA ForgottenType ==
    ASSUME TypeOK, NEW r \in Requests
    PROVE  Forgotten(r) \in [Keys -> -1 .. TTL] /\ \A k \in Keys : Forgotten(r)[k] \in {-1, cache[k]}
<1>1. cache \in [Keys -> -1 .. TTL] /\ -1 \in -1 .. TTL
  BY GuardAssumption DEF TypeOK
<1>2. [cache EXCEPT ![Key(r)] = -1] \in [Keys -> -1 .. TTL]
  BY <1>1
<1>3. QED
  BY <1>1, <1>2 DEF Forgotten

LEMMA StoredType ==
    ASSUME TypeOK, NEW k \in Keys
    PROVE  Stored(k) \in [Keys -> -1 .. TTL] /\ \A c \in Keys \ {k} : Stored(k)[c] \in {-1, cache[c]}
BY GuardAssumption DEF Stored, TypeOK

LEMMA AnswerMoves == ASSUME TypeOK, NEW r \in Requests, Allow(r) \/ Refuse(r) PROVE Moved(r)
<1> USE GuardAssumption
<1>1. PICK pc \in {"served", "refused"} :
          /\ Goto(r, pc) /\ check' = Stopped(r)
          /\ (pc = "served" /\ Allow(r)) \/ (pc = "refused" /\ Refuse(r))
  BY DEF Allow, Refuse
<1>2. /\ ReqType /\ req[r].pc = "policy" /\ UNCHANGED <<open, archived, ready, live>>
      /\ Key(r) \in Keys /\ req[r].session \in Sessions /\ req[r].item \in Items /\ req[r] \in Ask
  BY TypeParts, KeyType DEF Allow, Refuse, ReqType
<1> DEFINE q == [req[r] EXCEPT !.pc = pc]
<1>3. /\ q \in Ask /\ req' = [req EXCEPT ![r] = q]
      /\ NoCheck \in Checks /\ check' = [check EXCEPT ![r] = NoCheck]
  BY <1>1, <1>2 DEF Goto, Stopped, Ask, ReqType, NoCheck, Checks
<1>4. Matching(q, NoCheck)
  BY <1>2 DEF Matching, NoCheck, Ask
<1>5. ReqType'
  BY <1>2, <1>3, <1>4, ReqStep
<1>6. req'[r] = q /\ \A p \in Requests \ {r} : Same(p)
  BY <1>2, <1>3 DEF ReqType, Same
<1>7. Stays(r) /\ req'[r].pc = pc
  BY <1>2, <1>6 DEF Stays, Key, Ask
<1>8. Allowed(r) \/ Refused(r)
  BY <1>1, <1>2, <1>7 DEF Allow, Refuse, Allowed, Refused
<1>9. CacheOf(r)
  <2>1. CASE Refuse(r)
    BY <2>1, ForgottenType DEF CacheOf, Refuse
  <2>2. CASE pc = "served" /\ Allow(r)
    <3>1. Allowed(r)
      BY <2>2, <1>2, <1>7 DEF Allow, Allowed
    <3>2. cache' = cache \/ (cache' = Stored(Key(r)) /\ req[r].kind # "view")
      BY <2>2 DEF Allow, Media
    <3>3. QED
      BY <1>2, <3>1, <3>2, StoredType DEF CacheOf, TypeOK
  <2>3. QED
    BY <1>1, <2>1, <2>2
<1>10. tokens' \subseteq Keys
  BY <1>2 DEF Allow, Refuse, Issued, TypeOK
<1>11. QED
  BY <1>2, <1>5, <1>6, <1>8, <1>9, <1>10 DEF Moved, Move

\* A request that fails, or goes away with its answer.
LEMMA EndMoves == ASSUME TypeOK, NEW r \in Requests, ReadFails(r) \/ Finish(r) PROVE Moved(r)
<1> USE GuardAssumption
<1>1. ReqType /\ UNCHANGED <<open, archived, ready, live, tokens>> /\ req' = [req EXCEPT ![r] = Idle]
  BY TypeParts DEF ReadFails, Finish, accessVars
<1>2. /\ Idle \in Ask /\ NoCheck \in Checks /\ Matching(Idle, NoCheck)
      /\ \A c \in Checks : c.pc = "off" => Matching(Idle, c)
  BY DEF Idle, Ask, NoCheck, Checks, Matching
<1>3. PICK c \in Checks : c.pc = "off" /\ check' = [check EXCEPT ![r] = c]
  <2>1. CASE ReadFails(r)
    BY <1>2, <2>1 DEF ReadFails, Stopped, NoCheck
  <2>2. CASE Finish(r)
    <3>1. check[r] \in Checks /\ check[r].pc = "off" /\ check' = [check EXCEPT ![r] = check[r]]
      BY <1>1, <2>2 DEF Finish, accessVars, ReqType, Matching
    <3>2. QED
      BY <3>1
  <2>3. QED
    BY <2>1, <2>2
<1>4. Matching(Idle, c)
  BY <1>2, <1>3
<1>5. ReqType'
  BY <1>1, <1>2, <1>3, <1>4, ReqStep
<1>6. req'[r] = Idle /\ \A p \in Requests \ {r} : Same(p)
  BY <1>1, <1>3 DEF ReqType, Same
<1>7. CacheOf(r)
  BY ForgottenType DEF CacheOf, ReadFails, Finish, TypeOK
<1>8. Ends(r) /\ tokens' \subseteq Keys
  BY <1>1, <1>6 DEF Ends, Idle, TypeOK
<1>9. QED
  BY <1>1, <1>5, <1>6, <1>7, <1>8 DEF Moved, Move

LEMMA StepMoves == ASSUME TypeOK, NEW r \in Requests, Step(r) \/ Finish(r) PROVE Moved(r)
<1>1. ASSUME NEW se \in Sessions, NEW i \in Items,
             AskPlayback(r, se, i) \/ AskFileAccess(r, se, i) \/ AskView(r, se, i) \/ AskPage(r, se, i)
                \/ AskHome(r, se, i) \/ AskSearch(r, se, i)
      PROVE  Moved(r)
  BY <1>1, AppMoves DEF AskPlayback, AskFileAccess, AskView, AskPage, AskHome, AskSearch, Kinds
<1>2. QED
  BY <1>1, AskMoves, SessionMoves, ReadMoves, AnswerMoves, EndMoves DEF Step

\* Every step is one of a request, of an owner or a session, or of time.
LEMMA NextMoves ==
    ASSUME TypeOK, Next
    PROVE  \/ \E r \in Requests : Moved(r) /\ Observe(0)
           \/ /\ UNCHANGED <<req, check, cache, tokens>> /\ Observe(0)
              /\ live' \subseteq Sessions /\ open' \subseteq Students \X Places /\ archived' \subseteq Nodes /\ ready' \subseteq Videos
           \/ Tick /\ Observe(1) /\ \A r \in Requests : req[r].pc # "served"
<1>1. ASSUME NEW se \in Sessions, SessionEnds(se)
      PROVE  /\ UNCHANGED <<req, check, cache, tokens>>
             /\ live' \subseteq Sessions /\ open' \subseteq Students \X Places /\ archived' \subseteq Nodes /\ ready' \subseteq Videos
  BY <1>1 DEF SessionEnds, accessVars, TypeOK, AccessTypeOK
<1>2. ASSUME Others
      PROVE  /\ UNCHANGED <<req, check, cache, tokens>>
             /\ live' \subseteq Sessions /\ open' \subseteq Students \X Places /\ archived' \subseteq Nodes /\ ready' \subseteq Videos
  <2>1. UNCHANGED <<req, cache, tokens>> /\ live' = live /\ OthersAct
    BY <1>2 DEF Others, guardVars
  <2>2. ASSUME NEW ss \in SUBSET Students, NEW x \in Places, NEW on \in BOOLEAN, SetAccess(ss, x, on)
        PROVE  open' \subseteq Students \X Places /\ UNCHANGED <<archived, ready, check>>
    <3>1. Grants(ss, x) \subseteq Students \X Places
      BY PolicyAssumption DEF Grants, Places
    <3>2. QED
      BY <2>2, <3>1 DEF SetAccess, TypeOK, AccessTypeOK
  <2>3. ASSUME NEW n \in Nodes, SetArchived(n)
        PROVE  archived' \subseteq Nodes /\ UNCHANGED <<open, ready, check>>
    BY <2>3 DEF SetArchived, TypeOK, AccessTypeOK
  <2>4. ASSUME NEW i \in Videos, SetReady(i)
        PROVE  ready' \subseteq Videos /\ UNCHANGED <<open, archived, check>>
    BY <2>4 DEF SetReady, TypeOK, AccessTypeOK
  <2>5. QED
    BY <2>1, <2>2, <2>3, <2>4 DEF OthersAct, TypeOK, AccessTypeOK
<1>3. QED
  BY <1>1, <1>2, StepMoves DEF Next

LEMMA TickType == ASSUME TypeOK, Tick PROVE ReqType' /\ cache' \in [Keys -> -1 .. TTL]
<1>1. ReqType /\ check' = check /\ cache \in [Keys -> -1 .. TTL]
  BY TypeParts DEF Tick, accessVars, TypeOK
<1>2. \A r \in Requests : req'[r] = IF Active(r) THEN [req[r] EXCEPT !.age = @ + 1] ELSE req[r]
  BY DEF Tick
<1>3. ASSUME NEW r \in Requests PROVE req'[r] \in Ask /\ Matching(req'[r], check'[r])
  <2>1. req[r] \in Ask /\ Matching(req[r], check[r])
    BY <1>1 DEF ReqType
  <2>2. CASE Active(r)
    <3>1. req[r].age + 1 \in 0 .. MaxAge
      BY <2>1, <2>2, GuardAssumption DEF Tick, Ask
    <3>2. req'[r] = [req[r] EXCEPT !.age = req[r].age + 1]
      BY <1>2, <2>2
    <3>3. QED
      BY <1>1, <2>1, <3>1, <3>2 DEF Ask, Matching
  <2>3. CASE ~Active(r)
    BY <1>1, <1>2, <2>1, <2>3
  <2>4. QED
    BY <2>2, <2>3
<1>4. ReqType'
  BY <1>1, <1>3 DEF Tick, ReqType
<1>5. cache' \in [Keys -> -1 .. TTL]
  BY <1>1, GuardAssumption DEF Tick
<1>6. QED
  BY <1>4, <1>5

LEMMA TypeStep == TypeOK /\ [Next]_vars => TypeOK'
<1> SUFFICES ASSUME TypeOK, [Next]_vars PROVE TypeOK'
  OBVIOUS
<1> USE GuardAssumption
<1>1. ASSUME NEW t \in {0, 1}, Observe(t)
      PROVE  /\ seen' \subseteq Requests /\ missed' \subseteq Requests /\ since' \in 0 .. Cap
             /\ watched' = watched
  BY <1>1 DEF Observe, TypeOK, Cap
<1>2. ASSUME NEW t \in {0, 1}, Observe(t), ReqType', tokens' \subseteq Keys, cache' \in [Keys -> -1 .. TTL],
             live' \subseteq Sessions, open' \subseteq Students \X Places, archived' \subseteq Nodes /\ ready' \subseteq Videos
      PROVE  TypeOK'
  BY <1>1, <1>2 DEF TypeOK, AccessTypeOK, ReqType, Ask, Matching
<1>3. ASSUME NEW r \in Requests, Moved(r), Observe(0) PROVE TypeOK'
  BY <1>2, <1>3 DEF Moved, CacheOf, TypeOK, AccessTypeOK
<1>4. ASSUME UNCHANGED <<req, check, cache, tokens>>, Observe(0), live' \subseteq Sessions,
             open' \subseteq Students \X Places, archived' \subseteq Nodes /\ ready' \subseteq Videos
      PROVE  TypeOK'
  <2>1. ReqType'
    BY <1>4, TypeParts DEF ReqType
  <2>2. QED
    BY <1>2, <1>4, <2>1 DEF TypeOK
<1>5. ASSUME Tick, Observe(1) PROVE TypeOK'
  <2>1. UNCHANGED <<open, archived, ready, live, tokens>>
    BY <1>5 DEF Tick, accessVars
  <2>2. QED
    BY <1>2, <1>5, <2>1, TickType DEF TypeOK, AccessTypeOK
<1>6. CASE UNCHANGED vars
  BY <1>6 DEF vars, TypeOK, AccessTypeOK, WatchedHolds, HoldingFor, Holding, Active
<1>7. QED
  BY <1>3, <1>4, <1>5, <1>6, NextMoves

\* Type correctness: among others, a request is at the policy just while it has an evaluation under
\* way, for its own item and student.
THEOREM TypeCorrect == Spec => []TypeOK
<1>1. QED
  BY TypeInit, TypeStep, PTL DEF Spec

(***************************************************************************)
(* What the steps leave of a request                                       *)
(***************************************************************************)

\* The facts that are asked are those of the item, and those found are asked.
Coherent ==
    \A r \in Requests : check[r].pc # "off" =>
        check[r].found \subseteq check[r].asked /\ check[r].asked \subseteq Facts(check[r].pc, check[r].item)

\* A step changes nothing of a request but its age, and leaves the facts alone.
Older(r) ==
    /\ check'[r] = check[r] /\ req'[r].pc = req[r].pc /\ req'[r].kind = req[r].kind /\ Key(r)' = Key(r)

LEMMA TickOlder == ASSUME TypeOK, Tick, NEW r \in Requests PROVE Older(r)
<1>1. check' = check /\ req[r] \in Ask
  BY TypeParts DEF Tick, accessVars, ReqType
<1>2. req'[r] = IF Active(r) THEN [req[r] EXCEPT !.age = @ + 1] ELSE req[r]
  BY DEF Tick
<1>3. QED
  BY <1>1, <1>2 DEF Older, Key, Ask

LEMMA CoherentStep == TypeOK /\ Coherent /\ [Next]_vars => Coherent'
<1> SUFFICES ASSUME TypeOK, Coherent, [Next]_vars, NEW r \in Requests, check'[r].pc # "off"
             PROVE  check'[r].found \subseteq check'[r].asked /\ check'[r].asked \subseteq Facts(check'[r].pc, check'[r].item)
  BY DEF Coherent
<1>1. ReqType' /\ ReqType
  BY TypeStep, TypeParts DEF TypeOK, AccessTypeOK, ReqType, Ask, Matching
<1>2. req'[r].pc = "policy" /\ check'[r].item = req'[r].item
  BY <1>1 DEF ReqType, Matching
<1>3. ASSUME NEW q \in Requests, Moved(q) PROVE Same(r) \/ Starts(r) \/ Reads(r)
  BY <1>2, <1>3 DEF Moved, Move, Ends, Asks, Hits, Turned, Allowed, Refused
<1>4. CASE Same(r)
  BY <1>4 DEF Same, Coherent
<1>5. CASE Starts(r)
  BY <1>5 DEF Starts
<1>6. CASE Reads(r)
  <2>1. check[r].item = req[r].item /\ req'[r] = req[r] /\ check[r].pc # "off"
    BY <1>1, <1>6 DEF Reads, ReqType, Matching
  <2>2. QED
    BY <1>2, <1>6, <2>1 DEF Reads, Coherent
<1>7. CASE check' = check
  BY <1>7 DEF Coherent
<1>8. QED
  BY <1>3, <1>4, <1>5, <1>6, <1>7, NextMoves DEF Tick, accessVars, vars

(***************************************************************************)
(* Nobody is shut out                                                      *)
(***************************************************************************)

\* Whatever a request has not found was missing while it was under way.
Noticed ==
    \A r \in Requests :
        /\ Active(r) /\ ~Entitled(r) => r \in missed
        /\ req[r].pc = "policy" /\ check[r].asked # check[r].found => r \in missed
        /\ req[r].pc = "refused" => r \in missed

LEMMA NoticedStep == TypeOK /\ Coherent /\ Noticed /\ [Next]_vars => Noticed'
<1> SUFFICES ASSUME TypeOK, Coherent, Noticed, [Next]_vars PROVE Noticed'
  OBVIOUS
<1>0. ReqType /\ ReqType'
  BY TypeStep, TypeParts DEF TypeOK, AccessTypeOK, ReqType, Ask, Matching
<1>1. ASSUME NEW t, Observe(t), NEW r \in Requests
      PROVE  /\ Active(r)' /\ ~Entitled(r)' => r \in missed'
             /\ req'[r].pc # "idle" /\ r \in missed => r \in missed'
  BY <1>1 DEF Observe, Active
<1>2. ASSUME NEW r \in Requests, Older(r), NEW t, Observe(t)
      PROVE  /\ req'[r].pc = "policy" /\ check'[r].asked # check'[r].found => r \in missed'
             /\ req'[r].pc = "refused" => r \in missed'
  BY <1>1, <1>2 DEF Older, Noticed
<1>3. ASSUME NEW q \in Requests, Moved(q), Observe(0), NEW r \in Requests
      PROVE  /\ req'[r].pc = "policy" /\ check'[r].asked # check'[r].found => r \in missed'
             /\ req'[r].pc = "refused" => r \in missed'
  <2>1. CASE Same(r)
    BY <1>2, <1>3, <2>1 DEF Same, Older, Key
  <2>2. CASE Ends(r) \/ Asks(r) \/ Hits(r) \/ Allowed(r) \/ Starts(r)
    BY <2>2 DEF Ends, Asks, Hits, Allowed, Starts
  <2>3. CASE Turned(r)
    <3>1. Active(r) /\ ~Entitled(r)
      <4>1. "session" \notin {"chain", "ready"} \cup Needs(req[r].item)
        BY <1>0, <2>3, KeyType, GuardAssumption, PolicyAssumption DEF Turned, Needs, Places
      <4>2. "session" \notin HoldingFor(req[r].session, req[r].item)
        BY <4>1, <2>3 DEF HoldingFor, Holding, Turned
      <4>3. QED
        BY <4>2, <2>3 DEF Turned, Active, Entitled, FactsOf
    <3>2. r \in missed /\ req'[r].pc = "refused"
      BY <2>3, <3>1 DEF Noticed, Turned
    <3>3. QED
      BY <1>1, <1>3, <3>2
  <2>4. CASE Reads(r)
    <3>1. PICK fs \in SUBSET Facts(check[r].pc, req[r].item) :
              /\ check'[r].asked = check[r].asked \cup fs
              /\ check'[r].found = check[r].found \cup (fs \cap Holding(StudentOf[req[r].session], req[r].item))
      BY <2>4 DEF Reads
    <3>2. CASE fs \subseteq Holding(StudentOf[req[r].session], req[r].item)
      <4>1. check[r].asked = check[r].found => check'[r].asked = check'[r].found
        BY <3>1, <3>2
      <4>2. QED
        BY <1>1, <1>3, <2>4, <4>1 DEF Reads, Noticed
    <3>3. CASE ~(fs \subseteq Holding(StudentOf[req[r].session], req[r].item))
      <4>1. /\ "session" \notin Facts(check[r].pc, req[r].item)
            /\ check[r].pc # "off"
        BY <1>0, <2>4, KeyType, FactsType, GuardAssumption DEF Reads, ReqType, Matching
      <4>2. Active(r) /\ ~Entitled(r)
        BY <2>4, <3>1, <3>3, <4>1 DEF Reads, Active, Entitled, FactsOf, HoldingFor
      <4>3. r \in missed /\ req'[r].pc = "policy"
        BY <2>4, <4>2 DEF Noticed, Reads
      <4>4. QED
        BY <1>1, <1>3, <4>3
    <3>4. QED
      BY <3>2, <3>3
  <2>5. CASE Refused(r)
    <3>1. check[r].pc # "off" /\ check[r].asked # check[r].found
      BY <2>5 DEF Refused, Denied, Coherent
    <3>2. r \in missed /\ req'[r].pc = "refused"
      BY <2>5, <3>1 DEF Refused, Noticed
    <3>3. QED
      BY <1>1, <1>3, <3>2
  <2>6. QED
    BY <1>3, <2>1, <2>2, <2>3, <2>4, <2>5 DEF Moved, Move
<1>4. ASSUME UNCHANGED <<req, check>>, NEW r \in Requests PROVE Older(r)
  BY <1>4 DEF Older, Key
<1>5. ASSUME Tick, NEW r \in Requests PROVE Older(r)
  BY <1>5, TickOlder
<1>6. CASE Next
  BY <1>1, <1>2, <1>3, <1>4, <1>5, <1>6, NextMoves DEF Noticed
<1>7. CASE UNCHANGED vars
  BY <1>7 DEF vars, Noticed, Active, Entitled, FactsOf, HoldingFor, Holding
<1>8. QED
  BY <1>6, <1>7

LEMMA NoticedInit == Init => Coherent /\ Noticed
BY DEF Init, AccessInit, NoCheck, Idle, Coherent, Noticed, Active

\* media-guard and access-policy: a request that is refused was missing something while it was under
\* way, whatever the cache held or lost and however the reads of several requests mixed.
THEOREM NobodyIsShutOut == Spec => []NobodyShutOut
<1>1. Noticed => NobodyShutOut
  BY DEF Noticed, NobodyShutOut
<1>2. TypeOK /\ Coherent /\ Noticed /\ [Next]_vars => (TypeOK /\ Coherent /\ Noticed)'
  BY TypeStep, CoherentStep, NoticedStep
<1>3. QED
  BY <1>1, <1>2, TypeInit, NoticedInit, PTL DEF Spec

(***************************************************************************)
(* What is fresh is current                                                *)
(***************************************************************************)

\* The request takes the watched fact for the watched key.
Takes(r) == Key(r) = watched[1] /\ (req[r].kind = "view" => watched[2] # "ready")

\* It does, and is not one the cache may answer.
Watched(r) == req[r].kind # "playlist" /\ Takes(r)

\* It has found the watched fact; "session" was found before the policy.
HasFound(r) == req[r].pc = "policy" /\ watched[2] \in check[r].found \cup {"session"}

Witnessed ==
    \A r \in Requests : Watched(r) =>
        /\ Active(r) /\ WatchedHolds => r \in seen
        /\ HasFound(r) => r \in seen
        /\ req[r].pc = "served" => r \in seen

\* A step by which a request comes to have found the watched fact: the fact holds then.
LEMMA FoundHolds ==
    ASSUME TypeOK, TypeOK', NEW r \in Requests, Starts(r) \/ Reads(r), UNCHANGED <<open, archived, ready, live, watched>>,
           Key(r)' = watched[1], HasFound(r)', Starts(r) \/ ~HasFound(r)
    PROVE  WatchedHolds'
<1>0. ReqType /\ ReqType'
  BY TypeParts DEF TypeOK, AccessTypeOK, ReqType, Ask, Matching
<1>1. watched[1][1] = req'[r].session /\ watched[1][2] = req'[r].item
  BY DEF Key
<1>2. CASE Starts(r)
  <2>1. watched[2] = "session" /\ req'[r].session \in live
    BY <1>2 DEF Starts, HasFound
  <2>2. QED
    BY <1>1, <2>1 DEF WatchedHolds, HoldingFor
<1>3. CASE Reads(r) /\ ~HasFound(r)
  <2>1. watched[2] \in check'[r].found /\ watched[2] \notin check[r].found
    BY <1>3 DEF Reads, HasFound
  <2>2. watched[2] \in Holding(StudentOf[req[r].session], req[r].item) /\ req'[r] = req[r]
    BY <1>3, <2>1 DEF Reads
  <2>3. QED
    BY <1>1, <2>2 DEF WatchedHolds, HoldingFor, Holding
<1>4. QED
  BY <1>2, <1>3

\* An evaluation that passes has found the watched fact.
LEMMA PassedFound ==
    ASSUME TypeOK, NEW r \in Requests, Allowed(r), Takes(r)
    PROVE  HasFound(r)
<1>1. /\ check[r].item = req[r].item /\ watched[1][2] = req[r].item
      /\ check[r].pc = "policy" \/ watched[2] # "ready"
  BY TypeParts DEF Allowed, ReqType, Matching, Key, Takes
<1>2. watched[2] \in {"session"} \cup Facts(check[r].pc, req[r].item)
  BY <1>1, FactsNested DEF TypeOK, AllFacts
<1>3. QED
  BY <1>1, <1>2 DEF Allowed, Passed, HasFound

LEMMA WitnessedStep == TypeOK /\ Witnessed /\ [Next]_vars => Witnessed'
<1> SUFFICES ASSUME TypeOK, Witnessed, [Next]_vars PROVE Witnessed'
  OBVIOUS
<1>0. TypeOK'
  BY TypeStep
<1>1. ASSUME NEW t, Observe(t), NEW r \in Requests, Watched(r)', req'[r].pc # "idle"
      PROVE  /\ Active(r)' /\ WatchedHolds' => r \in seen'
             /\ r \in seen => r \in seen'
             /\ watched' = watched
  BY <1>1 DEF Observe, Watched, Takes
<1>2. ASSUME NEW r \in Requests, Older(r), NEW t, Observe(t), Watched(r)'
      PROVE  HasFound(r)' \/ req'[r].pc = "served" => r \in seen'
  <2>1. Watched(r) /\ (HasFound(r)' => HasFound(r))
    BY <1>2 DEF Older, Watched, Takes, HasFound, Observe
  <2>2. QED
    BY <1>1, <1>2, <2>1 DEF Older, Witnessed, HasFound
<1>3. ASSUME NEW q \in Requests, Moved(q), Observe(0), NEW r \in Requests, Watched(r)'
      PROVE  HasFound(r)' \/ req'[r].pc = "served" => r \in seen'
  <2>0. watched' = watched /\ UNCHANGED <<open, archived, ready, live>> /\ Key(r)' = watched[1]
    BY <1>3 DEF Moved, Observe, Watched, Takes
  <2>1. CASE Same(r)
    BY <1>2, <1>3, <2>1 DEF Same, Older, Key
  <2>2. CASE Ends(r) \/ Asks(r) \/ Hits(r) \/ Turned(r) \/ Refused(r)
    BY <1>3, <2>2 DEF Ends, Asks, Hits, Turned, Refused, HasFound, Watched
  <2>3. CASE Starts(r) \/ Reads(r)
    <3>1. req'[r].pc = "policy"
      BY <2>3 DEF Starts, Reads
    <3>2. ASSUME HasFound(r)', Starts(r) \/ ~HasFound(r) PROVE r \in seen'
      BY <1>0, <1>1, <1>3, <2>0, <2>3, <3>1, <3>2, FoundHolds DEF Active
    <3>3. ASSUME HasFound(r), Reads(r) PROVE r \in seen'
      <4>1. Watched(r)
        BY <1>3, <2>0, <3>3 DEF Reads, Watched, Takes, Key
      <4>2. QED
        BY <1>1, <1>3, <3>1, <3>3, <4>1 DEF Witnessed
    <3>4. QED
      BY <2>3, <3>1, <3>2, <3>3
  <2>4. CASE Allowed(r)
    <3>1. Takes(r) /\ Watched(r) /\ req'[r].pc = "served"
      BY <1>3, <2>0, <2>4 DEF Allowed, Stays, Watched, Takes
    <3>2. r \in seen
      BY <2>4, <3>1, PassedFound DEF Witnessed
    <3>3. QED
      BY <1>1, <1>3, <3>1, <3>2
  <2>5. QED
    BY <1>3, <2>1, <2>2, <2>3, <2>4 DEF Moved, Move
<1>4. ASSUME UNCHANGED <<req, check>>, NEW r \in Requests PROVE Older(r)
  BY <1>4 DEF Older, Key
<1>5. ASSUME Tick, NEW r \in Requests PROVE Older(r)
  BY <1>5, TickOlder
<1>6. CASE Next
  <2>1. ASSUME NEW t, Observe(t), NEW r \in Requests, Watched(r)',
               HasFound(r)' \/ req'[r].pc = "served" => r \in seen'
        PROVE  /\ Active(r)' /\ WatchedHolds' => r \in seen'
               /\ HasFound(r)' => r \in seen'
               /\ req'[r].pc = "served" => r \in seen'
    BY <1>1, <2>1 DEF Active
  <2>2. QED
    BY <1>2, <1>3, <1>4, <1>5, <1>6, <2>1, NextMoves DEF Witnessed
<1>7. CASE UNCHANGED vars
  BY <1>7 DEF vars, Witnessed, Watched, Takes, HasFound, Key, Active, WatchedHolds, HoldingFor, Holding
<1>8. QED
  BY <1>6, <1>7

LEMMA WitnessedInit == Init => Witnessed
BY DEF Init, Idle, Witnessed, Active, HasFound

\* media-guard, playback and the read models: what is served afresh was covered by the session, each
\* grant, the chain and (but for views) the state of the video at some moment since the request began, for any number of requests, owners
\* and sessions that act between its reads.
THEOREM FreshWasCurrent == Spec => []FreshIsCurrent
<1>1. Witnessed => FreshIsCurrent
  BY DEF Witnessed, Watched, Takes, FreshIsCurrent
<1>2. TypeOK /\ Witnessed /\ [Next]_vars => (TypeOK /\ Witnessed)'
  BY TypeStep, WitnessedStep
<1>3. QED
  BY <1>1, <1>2, TypeInit, WitnessedInit, PTL DEF Spec

(***************************************************************************)
(* Cut off in time                                                         *)
(***************************************************************************)

\* The watched fact has not held for at most as long as the request is old, once it was found; for
\* a cached answer the ticks it has spent in the cache are added.
Recent ==
    /\ \A r \in Requests : Key(r) = watched[1] =>
         /\ HasFound(r) => since <= req[r].age
         /\ req[r].pc = "served" /\ req[r].kind = "playlist" => since < Cap
    /\ cache[watched[1]] > 0 => since <= MaxAge + TTL - cache[watched[1]]

LEMMA RecentStep == TypeOK /\ Recent /\ [Next]_vars => Recent'
<1> SUFFICES ASSUME TypeOK, Recent, [Next]_vars PROVE Recent'
  OBVIOUS
<1> USE GuardAssumption
<1>0. /\ TypeOK' /\ ReqType /\ ReqType' /\ since \in Nat /\ Cap \in Nat /\ Cap = TTL + MaxAge
      /\ since <= Cap /\ watched[1] \in Keys /\ cache \in [Keys -> -1 .. TTL]
      /\ \A r \in Requests : req[r].age \in 0 .. MaxAge
  <2>1. TypeOK' /\ ReqType /\ ReqType'
    BY TypeStep, TypeParts DEF TypeOK, AccessTypeOK, ReqType, Ask, Matching
  <2>2. \A r \in Requests : req[r].age \in 0 .. MaxAge
    BY <2>1 DEF ReqType, Ask
  <2>3. QED
    BY <2>1, <2>2 DEF TypeOK, Cap
<1>1. ASSUME Observe(0)
      PROVE  watched' = watched /\ since' \in Nat /\ since' <= since /\ (WatchedHolds' => since' = 0)
  BY <1>0, <1>1 DEF Observe
<1>2. ASSUME NEW q \in Requests, Moved(q), Observe(0) PROVE Recent'
  <2>0. UNCHANGED <<watched, open, archived, ready, live>>
    BY <1>1, <1>2 DEF Moved
  <2>1. ASSUME NEW r \in Requests, Key(r)' = watched[1], HasFound(r)' PROVE since' <= req'[r].age
    <3>1. req'[r].age \in Nat
      BY <1>0 DEF ReqType, Ask
    <3>2. CASE Same(r)
      BY <1>0, <1>1, <1>2, <2>0, <2>1, <3>1, <3>2 DEF Same, HasFound, Key, Recent
    <3>3. CASE Starts(r) \/ Reads(r)
      <4>1. CASE Starts(r) \/ ~HasFound(r)
        BY <1>0, <1>1, <1>2, <2>0, <2>1, <3>1, <3>3, <4>1, FoundHolds
      <4>2. CASE Reads(r) /\ HasFound(r)
        BY <1>0, <1>1, <1>2, <2>0, <2>1, <3>1, <4>2 DEF Reads, Key, Recent
      <4>3. QED
        BY <3>3, <4>1, <4>2
    <3>4. QED
      BY <1>2, <2>1, <3>2, <3>3 DEF Moved, Move, Ends, Asks, Hits, Turned, Allowed, Refused, HasFound
  <2>2. ASSUME NEW r \in Requests, Allowed(r), Key(r) = watched[1], req[r].kind # "view"
        PROVE  since' <= MaxAge /\ since' < Cap
    <3>1. HasFound(r)
      BY <2>2, PassedFound DEF Takes
    <3>2. since <= req[r].age
      BY <2>2, <3>1 DEF Recent
    <3>3. QED
      BY <1>0, <1>1, <1>2, <3>2
  <2>3. cache'[watched[1]] > 0 => since' <= MaxAge + TTL - cache'[watched[1]]
    <3>1. cache'[watched[1]] \in {-1, cache[watched[1]]} \/ (watched[1] = Key(q) /\ Allowed(q) /\ req[q].kind # "view")
      BY <1>0, <1>2 DEF Moved, CacheOf
    <3>2. cache'[watched[1]] \in -1 .. TTL
      BY <1>0, <1>2 DEF Moved, CacheOf
    <3>3. CASE watched[1] = Key(q) /\ Allowed(q) /\ req[q].kind # "view"
      BY <1>0, <1>1, <1>2, <2>2, <3>2, <3>3
    <3>4. CASE cache'[watched[1]] \in {-1, cache[watched[1]]}
      BY <1>0, <1>1, <1>2, <3>2, <3>4 DEF Recent
    <3>5. QED
      BY <3>1, <3>3, <3>4
  <2>4. ASSUME NEW r \in Requests, Key(r)' = watched[1], req'[r].pc = "served", req'[r].kind = "playlist"
        PROVE  since' < Cap
    <3>1. CASE Same(r)
      BY <1>0, <1>1, <1>2, <2>4, <3>1 DEF Same, Key, Recent
    <3>2. CASE Allowed(r)
      BY <2>2, <2>4, <3>2 DEF Allowed, Stays
    <3>3. CASE Hits(r)
      <4>1. cache'[watched[1]] > 0 /\ cache'[watched[1]] \in -1 .. TTL
        BY <1>0, <1>2, <2>4, <3>3 DEF Hits, Moved, CacheOf
      <4>2. QED
        BY <1>0, <1>1, <1>2, <2>3, <4>1
    <3>4. QED
      BY <1>2, <2>4, <3>1, <3>2, <3>3 DEF Moved, Move, Ends, Asks, Starts, Turned, Reads, Refused
  <2>5. QED
    BY <2>0, <2>1, <2>3, <2>4 DEF Recent
<1>3. ASSUME UNCHANGED <<req, check, cache>>, Observe(0) PROVE Recent'
  BY <1>0, <1>1, <1>3 DEF Recent, HasFound, Key
<1>4. ASSUME Tick, Observe(1), \A r \in Requests : req[r].pc # "served" PROVE Recent'
  <2>1. watched' = watched /\ since' \in Nat /\ since' <= since + 1 /\ since' <= Cap
    BY <1>0, <1>4 DEF Observe
  <2>2. ASSUME NEW r \in Requests, Key(r)' = watched[1]
        PROVE  /\ HasFound(r)' => since' <= req'[r].age
               /\ req'[r].pc # "served"
    <3>1. Older(r) /\ req[r].pc # "served"
      BY <1>4, TickOlder
    <3>2. ASSUME HasFound(r)' PROVE since' <= req'[r].age
      <4>1. HasFound(r) /\ Key(r) = watched[1] /\ Active(r)
        BY <2>1, <2>2, <3>1, <3>2 DEF Older, HasFound, Active
      <4>2. req'[r].age = req[r].age + 1
        BY <1>0, <1>4, <4>1 DEF Tick, ReqType, Ask
      <4>3. QED
        BY <1>0, <2>1, <4>1, <4>2 DEF Recent
    <3>3. QED
      BY <3>1, <3>2 DEF Older
  <2>3. cache'[watched[1]] = IF cache[watched[1]] > 0 THEN cache[watched[1]] - 1 ELSE cache[watched[1]]
    BY <1>0, <1>4 DEF Tick
  <2>4. QED
    BY <1>0, <2>1, <2>2, <2>3 DEF Recent
<1>5. CASE UNCHANGED vars
  BY <1>5 DEF vars, Recent, HasFound, Key
<1>6. QED
  BY <1>2, <1>3, <1>4, <1>5, NextMoves

LEMMA RecentInit == Init => Recent
<1> SUFFICES ASSUME Init PROVE Recent
  OBVIOUS
<1>1. watched[1] \in Keys /\ cache[watched[1]] = -1
  BY TypeInit DEF Init, TypeOK
<1>2. \A r \in Requests : req[r].pc = "idle"
  BY DEF Init, Idle
<1>3. QED
  BY <1>1, <1>2 DEF Recent, HasFound

\* media-guard: whatever an answer in the cache was based on has not been gone for longer than the
\* cache keeps an answer and a request takes, for any TTL, any limit of the cache, and any requests
\* that store their answers late.
THEOREM CutsOffInTime == Spec => []CutOffInTime
<1>1. Recent => CutOffInTime
  BY DEF Recent, CutOffInTime
<1>2. TypeOK /\ Recent /\ [Next]_vars => (TypeOK /\ Recent)'
  BY TypeStep, RecentStep
<1>3. QED
  BY <1>1, <1>2, TypeInit, RecentInit, PTL DEF Spec

=============================================================================
