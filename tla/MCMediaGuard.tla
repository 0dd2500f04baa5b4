---------------------------- MODULE MCMediaGuard ----------------------------
(***************************************************************************)
(* Instances of MediaGuard for TLC: a subject with one teacher, a video of *)
(* the teacher and a file of the subject.                                  *)
(***************************************************************************)
EXTENDS MediaGuard, TLC

CONSTANTS ali, math, mathT, video, file, topic, grade, phone

\* Requests of the app, and those for files, touch neither the cached answers others use nor each
\* other: they are looked at one by one, beside what owners do, sessions that end, and time.
\* Requests for a video overlap.
Overlaps ==
    \A r, q \in Requests :
        r # q /\ req[r].pc # "idle" /\ req[q].pc # "idle" =>
            req[r].item \in Videos /\ Media(req[r].kind) /\ Media(req[q].kind)

\* The grant for the subject is watched at the file, the other facts, read alike, at the video.
Watches == (watched[1][2] = file) <=> (watched[2] = math)

\* Of the chain, the state of the video and the grant for the subject one changes at a time: the one
\* that is watched, or else the last, beside the grant for the teacher and the
\* session.
Changes ==
    /\ watched[2] # "ready" => ready = Videos
    /\ watched[2] # "chain" => archived = {}
    /\ watched[2] \in {"chain", "ready"} => <<ali, math>> \in open

Symmetry == Permutations(Requests)

MCSubjectOf == [t \in {mathT} |-> math]
MCScopeVideo == [i \in {video} |-> mathT]
MCAboveVideo == [i \in {video} |-> {topic}]
MCScope == [i \in {video, file} |-> IF i = video THEN mathT ELSE math]
MCAbove == [i \in {video, file} |-> {topic}]
MCStudentOf == [s \in {phone} |-> ali]

=============================================================================
