---------------------------- MODULE RefreshTokens ----------------------------
(***************************************************************************)
(* The refresh tokens of one auth session, and a browser that keeps the    *)
(* current one in a cookie its tabs share.  A tab may refresh while        *)
(* another does.  A step is one access to the database, or one answer that *)
(* reaches the browser.                                                    *)
(***************************************************************************)
EXTENDS Integers

CONSTANTS
    Tabs,
    MaxTokens       \* tokens of the session (bound)

TokenIds == 1 .. MaxTokens
NoToken == 0

ASSUME TokensAssumption == MaxTokens \in Nat \ {0}

VARIABLES
    tokens,     \* refresh_tokens: "unused", "current", or, with rotated_at set, "recent"
                \* (no longer ago than the grace) or "rotated"; "deleted" by the clean-up
    expired,    \* tokens past their expires_at
    session,    \* auth_sessions: "live", "expired", "revoked", "reuse" (revoked with
                \* REFRESH_REUSE), "deleted"
    cookie,     \* external: what the browser holds
    tab,        \* of each tab: where its request is, with the token it sent or gets
    mishaps     \* history: "overlap" (of requests), "error" (of one), "lost" (an answer)

tokensVars == <<tokens, expired, session, cookie, tab, mishaps>>

At(pc, k) == [pc |-> pc, token |-> k]

\* After a login in one of the tabs.
TokensInit ==
    /\ tokens = [k \in TokenIds |-> IF k = 1 THEN "current" ELSE "unused"]
    /\ expired = {}
    /\ session = "live"
    /\ cookie = 1
    /\ tab = [t \in Tabs |-> At("idle", NoToken)]
    /\ mishaps = {}

TabGoto(t, pc, k) == tab' = [tab EXCEPT ![t] = At(pc, k)]

(***************************************************************************)
(* POST /auth/refresh.                                                     *)
(***************************************************************************)

\* Mutant: that there is no cookie is not noticed.
SendAnyway(t) ==
    /\ tab[t].pc = "idle"
    /\ TabGoto(t, "sent", cookie)
    /\ UNCHANGED <<tokens, expired, session, cookie, mishaps>>

Send(t) ==
    /\ tab[t].pc = "idle" /\ cookie # NoToken
    /\ TabGoto(t, "sent", cookie)
    /\ mishaps' = IF \E u \in Tabs : tab[u].pc # "idle" THEN mishaps \cup {"overlap"} ELSE mishaps
    /\ UNCHANGED <<tokens, expired, session, cookie>>

\* Mutant: no grace.
ReadGraceless(t) ==
    LET k == tab[t].token IN
    /\ tab[t].pc = "sent"
    /\ \/ /\ tokens[k] = "current" /\ k \notin expired /\ session = "live"
          /\ TabGoto(t, "rotate", k)
       \/ /\ tokens[k] \in {"recent", "rotated"} /\ session \in {"live", "expired"}
          /\ TabGoto(t, "reuse", k)
       \/ /\ \/ tokens[k] = "current" /\ (k \in expired \/ session # "live")
             \/ tokens[k] = "deleted"
             \/ tokens[k] \in {"recent", "rotated"} /\ session \notin {"live", "expired"}
          /\ TabGoto(t, "answer", NoToken)
    /\ UNCHANGED <<tokens, expired, session, cookie, mishaps>>

\* The token and its session are read.  A rotated token is a sign of reuse, but not within
\* the grace.
Read(t) ==
    LET k == tab[t].token IN
    /\ tab[t].pc = "sent"
    /\ \/ /\ tokens[k] = "current" /\ k \notin expired /\ session = "live"
          /\ TabGoto(t, "rotate", k)
       \/ /\ tokens[k] = "rotated" /\ session \in {"live", "expired"}
          /\ TabGoto(t, "reuse", k)
       \/ /\ \/ tokens[k] = "current" /\ (k \in expired \/ session # "live")
             \/ tokens[k] \in {"recent", "deleted"}
             \/ tokens[k] = "rotated" /\ session \notin {"live", "expired"}
          /\ TabGoto(t, "answer", NoToken)
    /\ UNCHANGED <<tokens, expired, session, cookie, mishaps>>

\* Mutant: the token is rotated without asking whether it still is the current one.
RotateAnyway(t) ==
    LET k == tab[t].token IN
    /\ tab[t].pc = "rotate"
    /\ \E n \in TokenIds :
          /\ tokens[n] = "unused" /\ \A m \in 1 .. n - 1 : tokens[m] # "unused"
          /\ tokens' = [tokens EXCEPT ![k] = "recent", ![n] = "current"]
          /\ TabGoto(t, "answer", n)
    /\ UNCHANGED <<expired, session, cookie, mishaps>>

\* Mutant: the answer carries the token that was sent.
RotateAnsweringOld(t) ==
    LET k == tab[t].token IN
    /\ tab[t].pc = "rotate" /\ tokens[k] = "current"
    /\ \E n \in TokenIds :
          /\ tokens[n] = "unused" /\ \A m \in 1 .. n - 1 : tokens[m] # "unused"
          /\ tokens' = [tokens EXCEPT ![k] = "recent", ![n] = "current"]
          /\ TabGoto(t, "answer", k)
    /\ UNCHANGED <<expired, session, cookie, mishaps>>

\* The transaction, which does not look at the session again.
Rotate(t) ==
    LET k == tab[t].token IN
    /\ tab[t].pc = "rotate"
    /\ \/ /\ tokens[k] = "current"
          /\ \E n \in TokenIds :
                /\ tokens[n] = "unused" /\ \A m \in 1 .. n - 1 : tokens[m] # "unused"
                /\ tokens' = [tokens EXCEPT ![k] = "recent", ![n] = "current"]
                /\ TabGoto(t, "answer", n)
       \/ /\ tokens[k] # "current"
          /\ TabGoto(t, "answer", NoToken)
          /\ UNCHANGED tokens
    /\ UNCHANGED <<expired, session, cookie, mishaps>>

Revoke(t) ==
    /\ tab[t].pc = "reuse"
    /\ session' = IF session \in {"live", "expired"} THEN "reuse" ELSE session
    /\ TabGoto(t, "answer", NoToken)
    /\ UNCHANGED <<tokens, expired, cookie, mishaps>>

\* Any other error is answered like a refusal, also when the transaction has committed and
\* only the confirmation is missing.
DatabaseFails(t) ==
    /\ tab[t].pc # "idle"
    /\ TabGoto(t, "answer", NoToken)
    /\ mishaps' = mishaps \cup {"error"}
    /\ UNCHANGED <<tokens, expired, session, cookie>>

(***************************************************************************)
(* The answer.                                                             *)
(***************************************************************************)

\* setRefreshCookie, or clearRefreshCookie after an error.
Answer(t) ==
    /\ tab[t].pc = "answer"
    /\ cookie' = tab[t].token
    /\ TabGoto(t, "idle", NoToken)
    /\ UNCHANGED <<tokens, expired, session, mishaps>>

\* The tab is closed or the connection breaks.
AnswerLost(t) ==
    /\ tab[t].pc = "answer"
    /\ TabGoto(t, "idle", NoToken)
    /\ mishaps' = mishaps \cup {"lost"}
    /\ UNCHANGED <<tokens, expired, session, cookie>>

(***************************************************************************)
(* Time, and what others do to the session.                                *)
(***************************************************************************)

\* A request and its answer take less than the grace of 20 s, so that none which began
\* before k was rotated is under way; this happens here when none is.
GraceEnds(k) ==
    /\ tokens[k] = "recent"
    /\ \A t \in Tabs : tab[t].pc = "idle"
    /\ tokens' = [tokens EXCEPT ![k] = "rotated"]
    /\ UNCHANGED <<expired, session, cookie, tab, mishaps>>

TokenExpires(k) ==
    /\ tokens[k] # "unused" /\ k \notin expired
    /\ expired' = expired \cup {k}
    /\ UNCHANGED <<tokens, session, cookie, tab, mishaps>>

SessionOver ==
    /\ session = "live"
    /\ session' \in {"expired", "revoked"}
    /\ UNCHANGED <<tokens, expired, cookie, tab, mishaps>>

\* cleanup-auth deletes tokens a day after they expired, and, with their tokens, sessions
\* thirty days after they ended.
CleanupAuth ==
    \E longAgo \in BOOLEAN :
        /\ longAgo => session # "live" /\ \A t \in Tabs : tab[t].pc = "idle"
        /\ session' = IF longAgo THEN "deleted" ELSE session
        /\ tokens' = [k \in TokenIds |-> IF tokens[k] # "unused" /\ (longAgo \/ k \in expired)
                                         THEN "deleted" ELSE tokens[k]]
        /\ UNCHANGED <<expired, cookie, tab, mishaps>>

TokensNext ==
    \/ \E t \in Tabs : \/ Send(t) \/ Read(t) \/ Rotate(t) \/ Revoke(t)
                       \/ DatabaseFails(t) \/ Answer(t) \/ AnswerLost(t)
    \/ \E k \in TokenIds : GraceEnds(k) \/ TokenExpires(k)
    \/ SessionOver \/ CleanupAuth

TokensSpec == TokensInit /\ [][TokensNext]_tokensVars

(***************************************************************************)
(* Properties.                                                             *)
(***************************************************************************)

\* The values every variable may take; a request holds a token that was given out.
TokensTypeOK ==
    /\ tokens \in [TokenIds -> {"unused", "current", "recent", "rotated", "deleted"}]
    /\ expired \in SUBSET TokenIds
    /\ session \in {"live", "expired", "revoked", "reuse", "deleted"}
    /\ cookie \in {NoToken} \cup TokenIds
    /\ tab \in [Tabs -> [pc : {"idle", "sent", "rotate", "reuse", "answer"},
                         token : {NoToken} \cup TokenIds]]
    /\ \A t \in Tabs : tab[t].pc \in {"sent", "rotate", "reuse"} => tab[t].token # NoToken
    /\ mishaps \in SUBSET {"overlap", "error", "lost"}

\* "Only one concurrent request can rotate a given token": the session never has two
\* tokens that can be exchanged, so that a copy and the original cannot both live on.
OneCurrentToken ==
    \A k, n \in TokenIds : tokens[k] = "current" /\ tokens[n] = "current" => k = n

\* "A client race, not theft": tabs of one browser that refresh at the same time are
\* never taken for a copied token, unless an answer was lost.
RaceIsNotTheft == "lost" \notin mishaps => session # "reuse"

\* A browser with no request under way holds the token of its session, unless the session
\* or the token has ended: refreshing, if nothing went wrong and one at a time, does not
\* sign it out.
StaysSignedIn ==
    mishaps = {} /\ session = "live" /\ (\A t \in Tabs : tab[t].pc = "idle") /\ expired = {} =>
        cookie # NoToken /\ tokens[cookie] = "current"

============================================================================
