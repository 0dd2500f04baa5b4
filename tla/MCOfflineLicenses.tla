------------------------- MODULE MCOfflineLicenses -------------------------
(***************************************************************************)
(* Instances of OfflineLicenses for TLC: one student, one video of the one *)
(* teacher of a subject.                                                   *)
(***************************************************************************)
EXTENDS OfflineLicenses, TLC

CONSTANTS ali, math, mathT, video, topic

MCSubjectOf == [t \in {mathT} |-> math]
MCScope == [i \in {video} |-> mathT]
MCAbove == [i \in {video} |-> {topic}]
MCReaders == Requests \cup {Admin}

\* The settings are read before the policy and do not depend on it, and a sync does not read them.
\* So either the settings change, beside issues of a first licence, or access does.
SettingsChange ==
    /\ open = {ali} \X {math, mathT} /\ archived = {} /\ ready = Videos /\ watched[2] = "chain"
    /\ \A r \in Requests : req[r].pc \in {"idle"} \cup Issuing
    /\ \A l \in Licences : licences[l].state = "none"
AccessChanges ==
    /\ stored = "on" /\ admin = "idle" /\ since = 0
    /\ settings.left = 0 \/ settings.value = "on"
    /\ \A r \in Requests : req[r].age = 0 /\ fetched[r] # "off"
OneChanges == SettingsChange \/ AccessChanges

\* Of the chain, the state of the video and the grant for the subject one changes at a time: the one
\* that is watched, or else the last, beside the grant for the teacher.
Changes ==
    /\ watched[2] # "ready" => ready = Videos
    /\ watched[2] # "chain" => archived = {}
    /\ watched[2] \in {"chain", "ready"} => <<ali, math>> \in open

Symmetry == Permutations(Requests)

=============================================================================
