------------------------------ MODULE JobQueue ------------------------------
(***************************************************************************)
(* What the backend relies on from a job queue: a job that was added and   *)
(* has not ended is held once, there is a slot for every job that runs, a  *)
(* job is given MaxAttempts tries at most, nothing is tried again once the *)
(* queue is closed, and what its process held is lost when it stops.       *)
(***************************************************************************)
EXTENDS Integers

CONSTANTS Ids, Slots, MaxAttempts

VARIABLES
    open,   \* the queue takes jobs
    state,  \* of each id: "absent", "pending" or "running"
    tries   \* the attempts begun of each job that is not absent

vars == <<open, state, tries>>

Init ==
    /\ open = TRUE
    /\ state = [id \in Ids |-> "absent"]
    /\ tries = [id \in Ids |-> 0]

\* Every job of R can have a slot of its own.
Fit(R) == \E slot \in [R -> Slots] : \A i, j \in R : slot[i] = slot[j] => i = j

\* From the states st and tr, some of the pending jobs start.
Dispatch(st, tr) ==
    \E S \in SUBSET {id \in Ids : st[id] = "pending" /\ tr[id] < MaxAttempts} :
        /\ state' = [id \in Ids |-> IF id \in S THEN "running" ELSE st[id]]
        /\ tries' = [id \in Ids |-> IF id \in S THEN tr[id] + 1 ELSE tr[id]]
        /\ Fit({id \in Ids : state'[id] = "running"})

\* Nothing is pending in a queue that was closed.
Start == Dispatch(state, tries) /\ UNCHANGED open

Add(id) ==
    /\ open /\ state[id] = "absent"
    /\ Dispatch([state EXCEPT ![id] = "pending"], tries)
    /\ UNCHANGED open

End(id) ==
    /\ state[id] = "running"
    /\ state' = [state EXCEPT ![id] = "absent"]
    /\ tries' = [tries EXCEPT ![id] = 0]
    /\ UNCHANGED open

Retry(id) ==
    /\ open /\ state[id] = "running" /\ tries[id] < MaxAttempts
    /\ state' = [state EXCEPT ![id] = "pending"]
    /\ UNCHANGED <<open, tries>>

\* The jobs that run go on; the others are dropped.
Close ==
    /\ open' = FALSE
    /\ state' = [id \in Ids |-> IF state[id] = "pending" THEN "absent" ELSE state[id]]
    /\ tries' = [id \in Ids |-> IF state[id] = "pending" THEN 0 ELSE tries[id]]

Lose ==
    /\ open' = FALSE
    /\ state' = [id \in Ids |-> "absent"]
    /\ tries' = [id \in Ids |-> 0]

\* A new process begins with the jobs S, which it finds in its database.
Resume(S) ==
    /\ ~open /\ \A id \in Ids : state[id] = "absent"
    /\ open' = TRUE
    /\ state' = [id \in Ids |-> IF id \in S THEN "pending" ELSE "absent"]
    /\ UNCHANGED tries

Next ==
    \/ \E id \in Ids : Add(id) \/ End(id) \/ Retry(id)
    \/ Start \/ Close \/ Lose
    \/ \E S \in SUBSET Ids : Resume(S)

Spec == Init /\ [][Next]_vars

============================================================================
