--------------------------- MODULE VideoLifecycle ---------------------------
(***************************************************************************)
(* What the upload pipeline promises the owner of a video: an upload is    *)
(* sent, submitted and ends, on its own, READY or FAILED; a failed or      *)
(* abandoned one can be started over; a READY video stays READY and can be *)
(* watched.                                                                *)
(***************************************************************************)
CONSTANT Videos

VARIABLES
    status,     \* what the dashboard shows of each video
    watchable   \* the videos whose stream the server can deliver

vars == <<status, watchable>>

Init ==
    /\ status = [v \in Videos |-> "NONE"]
    /\ watchable = {}

Begin(v) ==
    /\ status[v] \in {"NONE", "UPLOADING", "FAILED"}
    /\ status' = [status EXCEPT ![v] = "UPLOADING"]
    /\ UNCHANGED watchable

Submit(v) ==
    /\ status[v] = "UPLOADING"
    /\ status' = [status EXCEPT ![v] = "PROCESSING"]
    /\ UNCHANGED watchable

\* The upload was abandoned.
Abandon(v) ==
    /\ status[v] = "UPLOADING"
    /\ status' = [status EXCEPT ![v] = "FAILED"]
    /\ UNCHANGED watchable

Publish(v) ==
    /\ status[v] = "PROCESSING"
    /\ status' = [status EXCEPT ![v] = "READY"]
    /\ watchable' = watchable \cup {v}

Fail(v) ==
    /\ status[v] = "PROCESSING"
    /\ status' = [status EXCEPT ![v] = "FAILED"]
    /\ UNCHANGED watchable

Next == \E v \in Videos : Begin(v) \/ Submit(v) \/ Abandon(v) \/ Publish(v) \/ Fail(v)

Spec == /\ Init /\ [][Next]_vars
        /\ \A v \in Videos : WF_vars(Publish(v) \/ Fail(v))

============================================================================
