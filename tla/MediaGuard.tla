----------------------------- MODULE MediaGuard -----------------------------
(***************************************************************************)
(* Delivery of protected media: tokens bound to a session and an item,     *)
(* re-validated against the session and the access policy, with a cache of *)
(* positive answers for playlists and segments.                            *)
(* A step is one access to the database with what the request does after   *)
(* its answer.  Time passes in ticks, of which the cache keeps an answer   *)
(* for TTL.                                                                *)
(***************************************************************************)
EXTENDS AccessPolicy, FiniteSets

CONSTANTS
    Sessions,       \* auth sessions of students, each on its device
    StudentOf,      \* of each session
    NoSession,
    TTL,            \* ticks a cached answer is used for
    MaxEntries,     \* size at which the cache is emptied
    MaxAge          \* ticks a request takes at most (assumption)

ASSUME GuardAssumption ==
    /\ StudentOf \in [Sessions -> Students] /\ NoSession \notin Sessions
    /\ TTL \in Nat \ {0} /\ MaxEntries \in Nat \ {0} /\ MaxAge \in Nat
    /\ "session" \notin Places

Keys == Sessions \X Items

VARIABLES
    live,           \* sessions that are accepted: neither ended nor expired, account and device active
    tokens,         \* media tokens, as the session and the item they are bound to
    cache,          \* allowCache: of each key the ticks it is still used for, or -1
    req,            \* of each request: what it asks for and where it is
    watched,        \* history: a key and one fact it takes, chosen at the start
    seen,           \* history: requests for that key, not from the cache, during which the fact has held
    missed,         \* history: requests during which some fact was missing
    since           \* history: for how many ticks the watched fact has not held, up to Cap (videos)

guardVars == <<live, tokens, cache, req>>
vars == <<open, archived, ready, check, live, tokens, cache, req, watched, seen, missed, since>>

Cap == TTL + MaxAge
Kinds == {"playlist", "key", "playback", "view"}

\* What a session needs for an item; a request of it, according to how it is checked.
AllFacts(i) == {"session"} \cup Facts("policy", i)
FactsOf(r) ==
    {"session"} \cup Facts(IF check[r].pc = "off" THEN "policy" ELSE check[r].pc, req[r].item)
HoldingFor(se, i) ==
    Holding(StudentOf[se], i) \cup (IF se \in live THEN {"session"} ELSE {})

WatchedHolds == watched[2] \in HoldingFor(watched[1][1], watched[1][2])
WatchedIsCached == watched[1][2] \in Videos     \* nothing else is ever served from the cache

Idle == [pc |-> "idle", kind |-> "none", session |-> NoSession, item |-> NoItem, age |-> 0]

Init ==
    /\ AccessInit
    /\ live = Sessions
    /\ tokens = {}
    /\ cache = [k \in Keys |-> -1]
    /\ req = [r \in Requests |-> Idle]
    /\ watched \in {w \in Keys \X ({"session", "chain", "ready"} \cup Places) : w[2] \in AllFacts(w[1][2])}
    /\ seen = {} /\ missed = {}
    /\ since = IF WatchedHolds \/ ~WatchedIsCached THEN 0 ELSE Cap

TypeOK ==
    /\ AccessTypeOK
    /\ live \subseteq Sessions
    /\ tokens \subseteq Keys
    /\ cache \in [Keys -> -1 .. TTL]
    /\ req \in [Requests -> [pc : {"idle", "session", "policy", "served", "refused"},
                             kind : Kinds \cup {"none"}, session : Sessions \cup {NoSession},
                             item : Items \cup {NoItem}, age : 0 .. MaxAge]]
    /\ seen \subseteq Requests /\ missed \subseteq Requests /\ since \in 0 .. Cap
    /\ watched[1] \in Keys /\ watched[2] \in AllFacts(watched[1][2])
    /\ \A r \in Requests :
        /\ req[r].pc # "idle" => req[r].session \in Sessions /\ req[r].item \in Items
        /\ (check[r].pc # "off") <=> (req[r].pc = "policy")
        /\ check[r].pc # "off" => /\ check[r].item = req[r].item
                                  /\ check[r].student = StudentOf[req[r].session]
                                  /\ req[r].kind # "view" => check[r].pc = "policy"

Active(r) == req[r].pc \in {"session", "policy"}
Goto(r, pc) == req' = [req EXCEPT ![r].pc = pc]

\* Requests for media carry a token; the others are those of the student's app.
Media(kind) == kind \in {"playlist", "key"}
MediaOf(kind, i) == kind = "key" \/ (kind = "playlist" /\ i \in Videos)
Key(r) == <<req[r].session, req[r].item>>

(***************************************************************************)
(* The requests.  A "playlist" stands for the playlists and segments, a    *)
(* "key" for the content key and for the download of a file ("fresh").     *)
(***************************************************************************)

Asking(r, kind, se, i, pc) ==
    req' = [req EXCEPT ![r] = [pc |-> pc, kind |-> kind, session |-> se, item |-> i, age |-> 0]]

\* Mutant: an answer that is cached for a playlist serves for the key.
AskMediaCached(r, kind, se, i) ==
    /\ req[r].pc = "idle" /\ <<se, i>> \in tokens /\ MediaOf(kind, i)
    /\ Asking(r, kind, se, i, IF cache[<<se, i>>] > 0 THEN "served" ELSE "session")
    /\ UNCHANGED <<accessVars, live, tokens, cache>>

\* Mutant: what the cache says is taken for the answer although it has lapsed.
AskMediaLapsed(r, kind, se, i) ==
    /\ req[r].pc = "idle" /\ <<se, i>> \in tokens /\ MediaOf(kind, i)
    /\ Asking(r, kind, se, i, IF kind # "playlist" \/ cache[<<se, i>>] = -1 THEN "session"
                              ELSE IF cache[<<se, i>>] > 0 THEN "served" ELSE "refused")
    /\ UNCHANGED <<accessVars, live, tokens, cache>>

\* Mutant: each use prolongs a cached answer.
AskMediaRenewing(r, kind, se, i) ==
    LET hit == kind = "playlist" /\ cache[<<se, i>>] > 0 IN
    /\ req[r].pc = "idle" /\ <<se, i>> \in tokens /\ MediaOf(kind, i)
    /\ Asking(r, kind, se, i, IF hit THEN "served" ELSE "session")
    /\ cache' = IF hit THEN [cache EXCEPT ![<<se, i>>] = TTL] ELSE cache
    /\ UNCHANGED <<accessVars, live, tokens>>

\* verifyMediaToken, and the cache unless the answer has to be fresh.
AskMedia(r, kind, se, i) ==
    /\ req[r].pc = "idle" /\ <<se, i>> \in tokens /\ MediaOf(kind, i)
    /\ Asking(r, kind, se, i, IF kind = "playlist" /\ cache[<<se, i>>] > 0 THEN "served" ELSE "session")
    /\ UNCHANGED <<accessVars, live, tokens, cache>>

\* assertSessionLive.
ReadSession(r) ==
    /\ req[r].pc = "session"
    /\ \/ /\ req[r].session \in live
          /\ Goto(r, "policy")
          /\ check' = Started(r, "policy", StudentOf[req[r].session], req[r].item)
       \/ /\ req[r].session \notin live
          /\ Goto(r, "refused")
          /\ UNCHANGED check
    /\ UNCHANGED <<open, archived, ready, live, tokens, cache>>

\* A request of the app, past its authentication.
AskApp(r, kind, how, se, i) ==
    /\ req[r].pc = "idle" /\ se \in live
    /\ Asking(r, kind, se, i, "policy")
    /\ check' = Started(r, how, StudentOf[se], i)
    /\ UNCHANGED <<open, archived, ready, live, tokens, cache>>

\* For a token.
AskPlayback(r, se, i) == i \in Videos /\ AskApp(r, "playback", "policy", se, i)
AskFileAccess(r, se, i) == i \notin Videos /\ AskApp(r, "playback", "policy", se, i)

\* For the space of a teacher, a topic or a session: what is in it is read after the policy.
AskView(r, se, i) == i \in Videos /\ AskApp(r, "view", "space", se, i)

\* For a subject with its teachers, each locked or not, and its files unless it is locked.
AskPage(r, se, i) == AskApp(r, "view", "page", se, i)

\* For the first page of the app, where subjects are open or locked: by the grants read before them.
AskHome(r, se, i) == i \notin Videos /\ AskApp(r, "view", "search", se, i)

\* For what bears a name: what is inside a teacher's space is found only if that is open.
AskSearch(r, se, i) == i \in Videos /\ AskApp(r, "view", "search", se, i)

Read(r) ==
    /\ req[r].pc = "policy"
    /\ \E f \in Facts(check[r].pc, req[r].item) : ReadFact(r, f)
    /\ UNCHANGED guardVars

\* The cache, emptied at its limit, with the answer for k.
Stored(k) ==
    [c \in Keys |-> IF c = k THEN TTL
                    ELSE IF Cardinality({x \in Keys : cache[x] # -1}) >= MaxEntries THEN -1
                    ELSE cache[c]]

Issued(r) == IF req[r].kind = "playback" THEN tokens \cup {Key(r)} ELSE tokens

\* What the request does with the outcome of the policy.
Allow(r) ==
    /\ req[r].pc = "policy" /\ Passed(r)
    /\ Goto(r, "served")
    /\ cache' = IF Media(req[r].kind) THEN Stored(Key(r)) ELSE cache
    /\ tokens' = Issued(r)
    /\ check' = Stopped(r)
    /\ UNCHANGED <<open, archived, ready, live>>

Forgotten(r) == IF Media(req[r].kind) THEN [cache EXCEPT ![Key(r)] = -1] ELSE cache

Refuse(r) ==
    /\ req[r].pc = "policy" /\ Denied(r)
    /\ Goto(r, "refused")
    /\ cache' = Forgotten(r)
    /\ check' = Stopped(r)
    /\ UNCHANGED <<open, archived, ready, live, tokens>>

\* The database fails: an error, which is no refusal; the catch block forgets the answer too.
ReadFails(r) ==
    /\ Active(r)
    /\ cache' = IF req[r].pc = "policy" THEN Forgotten(r) ELSE cache
    /\ req' = [req EXCEPT ![r] = Idle]
    /\ check' = Stopped(r)
    /\ UNCHANGED <<open, archived, ready, live, tokens>>

Finish(r) ==
    /\ req[r].pc \in {"served", "refused"}
    /\ req' = [req EXCEPT ![r] = Idle]
    /\ UNCHANGED <<accessVars, live, tokens, cache>>

(***************************************************************************)
(* Around them                                                             *)
(***************************************************************************)

\* Logout, device reset, a closed account, expiry.
SessionEnds(se) ==
    /\ se \in live
    /\ live' = live \ {se}
    /\ UNCHANGED <<accessVars, tokens, cache, req>>

Others ==
    /\ OthersAct
    /\ UNCHANGED guardVars

\* Mutant: an entry loses a tick too many.
TickTwice ==
    /\ \A r \in Requests : Active(r) => req[r].age < MaxAge
    /\ req' = [r \in Requests |-> IF Active(r) THEN [req[r] EXCEPT !.age = @ + 1] ELSE req[r]]
    /\ cache' = [k \in Keys |-> IF cache[k] >= 0 THEN cache[k] - 2 ELSE cache[k]]
    /\ UNCHANGED <<accessVars, live, tokens>>

Tick ==
    /\ \A r \in Requests : Active(r) => req[r].age < MaxAge
    /\ req' = [r \in Requests |-> IF Active(r) THEN [req[r] EXCEPT !.age = @ + 1] ELSE req[r]]
    /\ cache' = [k \in Keys |-> IF cache[k] > 0 THEN cache[k] - 1 ELSE cache[k]]
    /\ UNCHANGED <<accessVars, live, tokens>>

(***************************************************************************)
(* History, brought up to date by every step                               *)
(***************************************************************************)

Entitled(r) == FactsOf(r) \subseteq HoldingFor(req[r].session, req[r].item)

Observe(ticks) ==
    /\ UNCHANGED watched
    /\ seen' = {r \in Requests : /\ req'[r].pc # "idle" /\ req'[r].kind # "playlist" /\ Key(r)' = watched[1]
                                 /\ r \in seen \/ (Active(r)' /\ WatchedHolds')}
    /\ missed' = {r \in Requests : /\ req'[r].pc # "idle"
                                   /\ r \in missed \/ (Active(r)' /\ ~Entitled(r)')}
    /\ since' = IF WatchedHolds' \/ ~WatchedIsCached THEN 0 ELSE IF since + ticks > Cap THEN Cap ELSE since + ticks

Step(r) ==
    \/ \E se \in Sessions, i \in Items :
        \/ \E kind \in Kinds : AskMedia(r, kind, se, i)
        \/ AskPlayback(r, se, i) \/ AskFileAccess(r, se, i) \/ AskView(r, se, i)
        \/ AskPage(r, se, i) \/ AskHome(r, se, i) \/ AskSearch(r, se, i)
    \/ ReadSession(r) \/ Read(r) \/ Allow(r) \/ Refuse(r) \/ ReadFails(r)

\* A request that has its answer is gone; it stays for one state, so that the properties see it.
Next ==
    IF \E r \in Requests : req[r].pc \in {"served", "refused"}
    THEN (\E r \in Requests : Finish(r)) /\ Observe(0)
    ELSE \/ /\ \/ \E r \in Requests : Step(r)
               \/ \E se \in Sessions : SessionEnds(se)
                    \/ Others
            /\ Observe(0)
         \/ Tick /\ Observe(1)

Spec == Init /\ [][Next]_vars

(***************************************************************************)
(* Properties                                                              *)
(***************************************************************************)

\* No content key, file, playback token, view or list is given out unless the session and each
\* grant was good, the chain active and the video READY (which views need not) at some moment since
\* the request began: whatever was closed before stops it at once.  Only playlists and segments may
\* come from the cache.
FreshIsCurrent ==
    \A r \in Requests :
        /\ req[r].pc = "served" /\ req[r].kind # "playlist" /\ Key(r) = watched[1]
        /\ req[r].kind = "view" => watched[2] # "ready"
        => r \in seen

\* A playlist or a segment is not served once the session has ended, access was closed, or the video
\* has ceased to be READY, for as long as an answer is cached and a request takes, also by an answer that was found before the
\* end and stored after it, and however often the cached answer is used.
CutOffInTime ==
    \A r \in Requests :
        req[r].pc = "served" /\ req[r].kind = "playlist" /\ Key(r) = watched[1] => since < Cap

\* Nobody is refused who had everything all the time, a READY video included: neither a lapsed
\* entry nor a cache that was emptied at its limit, nor what another request found, shuts a viewer out.
NobodyShutOut ==
    \A r \in Requests : req[r].pc = "refused" => r \in missed

=============================================================================
