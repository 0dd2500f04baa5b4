----------------------------- MODULE StoredFiles -----------------------------
(***************************************************************************)
(* The bytes of content files and of a teacher's photo: received into a    *)
(* temporary file, moved to a new key, and only then named by a row, by    *)
(* steps that may fail or be cut off by a crash; and the sweep of the      *)
(* temporary files.  A request is made once and has a temporary file and a *)
(* key of its own (a random one), for which its name stands.  The order    *)
(* and lifecycle of the rows are in Catalog.                               *)
(***************************************************************************)
EXTENDS Integers, FiniteSets

CONSTANTS
    Uploads,        \* requests that upload a content file
    PhotoRequests,  \* requests that set or remove the photo
    FirstPhoto,     \* the key of the photo there may be at the start
    NoKey,
    MaxCrashes      \* crashes (bound)

Requests == Uploads \cup PhotoRequests

ASSUME StoredFilesAssumption ==
    /\ Uploads \cap PhotoRequests = {}
    /\ FirstPhoto \notin Requests /\ NoKey \notin Requests \cup {FirstPhoto}
    /\ MaxCrashes \in Nat

Keys == Requests \cup {FirstPhoto}

VARIABLES
    disk,       \* keys under files/ and images/teachers/ that have bytes
    temp,       \* of each request its file in tmp/uploads: "none", "fresh" or "old" (a day)
    files,      \* keys named by content_files
    photo,      \* image_key of the teacher
    req,        \* of each request: where it is, and the photo it has read
    sweep,      \* whether the clean-up is under way, and the entries it has yet to look at
    crashes,
    lost        \* history: whether something happened after which bytes may stay without a row

vars == <<disk, temp, files, photo, req, sweep, crashes, lost>>

Init ==
    /\ photo \in {NoKey, FirstPhoto} /\ disk = {photo} \ {NoKey}
    /\ temp = [r \in Requests |-> "none"]
    /\ files = {}
    /\ req = [r \in Requests |-> [pc |-> "new", old |-> NoKey]]
    /\ sweep = [pc |-> "idle", entries |-> {}]
    /\ crashes = 0 /\ lost = FALSE

Ended == {"done", "gone"}

TypeOK ==
    /\ disk \subseteq Keys /\ files \subseteq Requests /\ photo \in Keys \cup {NoKey}
    /\ temp \in [Requests -> {"none", "fresh", "old"}]
    /\ req \in [Requests -> [pc : {"new", "receiving", "broken", "received", "refused", "moving", "saving",
                                   "undoing", "clearing", "replaced"} \cup Ended,
                             old : Keys \cup {NoKey}]]
    /\ \A r \in Requests : /\ req[r].pc \in {"received", "refused", "moving"} => temp[r] = "fresh"
                           /\ temp[r] = "old" => req[r].pc \in Ended
    /\ sweep \in [pc : {"idle", "running"}, entries : SUBSET Requests]
    /\ crashes \in 0 .. MaxCrashes /\ lost \in BOOLEAN

Goto(r, pc) == req' = [req EXCEPT ![r].pc = pc]

(***************************************************************************)
(* receiveSingleFile                                                       *)
(***************************************************************************)

Upload(r) ==
    /\ req[r].pc = "new"
    /\ Goto(r, "receiving")
    /\ UNCHANGED <<disk, temp, files, photo, sweep, crashes, lost>>

\* The part with the file has begun, and its extension is allowed.
OpenTemp(r) ==
    /\ req[r].pc = "receiving" /\ temp[r] = "none"
    /\ temp' = [temp EXCEPT ![r] = "fresh"]
    /\ UNCHANGED <<disk, files, photo, req, sweep, crashes, lost>>

\* Too large, empty, not what its extension says, a broken body, an extension that is not allowed.
Fail(r) ==
    /\ req[r].pc = "receiving"
    /\ Goto(r, "broken")
    /\ UNCHANGED <<disk, temp, files, photo, sweep, crashes, lost>>

\* The client is gone in the middle of the body.  Nothing ends the parser then, so that it does not
\* close: the request has no answer and the temporary file stays.
Aborted(r) ==
    /\ req[r].pc \in {"receiving", "broken"}
    /\ Goto(r, "gone")
    /\ UNCHANGED <<disk, temp, files, photo, sweep, crashes, lost>>

\* Mutant: a body without a file is taken for a file.
ClosedEmpty(r) ==
    /\ \/ req[r].pc = "receiving" /\ Goto(r, "received") /\ UNCHANGED temp
       \/ req[r].pc = "broken" /\ Goto(r, "done") /\ temp' = [temp EXCEPT ![r] = "none"]
    /\ UNCHANGED <<disk, files, photo, sweep, crashes, lost>>

\* The parser has closed, and the file is written.  When the file of a request that failed cannot be
\* removed, which is tried twice, nobody handles the error: the process ends (Crash).
Closed(r) ==
    /\ \/ req[r].pc = "receiving" /\ temp[r] # "none" /\ Goto(r, "received") /\ UNCHANGED temp
       \/ /\ req[r].pc = "broken" \/ (req[r].pc = "receiving" /\ temp[r] = "none")
          /\ Goto(r, "done") /\ temp' = [temp EXCEPT ![r] = "none"]
    /\ UNCHANGED <<disk, files, photo, sweep, crashes, lost>>

(***************************************************************************)
(* uploadFile, setTeacherImage, removeTeacherImage                         *)
(***************************************************************************)

\* The parent is there and active, or not.
ResolveParent(r) ==
    /\ req[r].pc = "received" /\ r \in Uploads
    /\ Goto(r, "moving") \/ Goto(r, "refused")
    /\ UNCHANGED <<disk, temp, files, photo, sweep, crashes, lost>>

\* Whether another request has read the photo and has not yet written it.
Overlap == \E q \in PhotoRequests : req[q].pc \in {"moving", "saving", "clearing"}

\* Mutant: the former photo is removed at once.
LoadTeacherClearing(r) ==
    /\ req[r].pc = "received" /\ r \in PhotoRequests
    /\ req' = [req EXCEPT ![r].pc = "moving", ![r].old = photo]
    /\ disk' = disk \ {photo}
    /\ lost' = (lost \/ Overlap)
    /\ UNCHANGED <<temp, files, photo, sweep, crashes>>

\* There is no such teacher, or the read fails, after which the temporary file stays.
LoadTeacher(r) ==
    /\ req[r].pc = "received" /\ r \in PhotoRequests
    /\ \/ req' = [req EXCEPT ![r].pc = "moving", ![r].old = photo]
       \/ \E pc \in {"refused", "done"} : Goto(r, pc)
    /\ lost' = (lost \/ Overlap)
    /\ UNCHANGED <<disk, temp, files, photo, sweep, crashes>>

\* The file system may refuse, here and wherever a file is removed.
Discard(r) ==
    /\ req[r].pc = "refused"
    /\ temp' = [temp EXCEPT ![r] = "none"] \/ UNCHANGED temp
    /\ Goto(r, "done")
    /\ UNCHANGED <<disk, files, photo, sweep, crashes, lost>>

\* commitReceivedFile, which may fail and then leaves the temporary file.
Commit(r) ==
    /\ req[r].pc = "moving"
    /\ \/ /\ disk' = disk \cup {r}
          /\ temp' = [temp EXCEPT ![r] = "none"]
          /\ Goto(r, "saving")
       \/ Goto(r, "done") /\ UNCHANGED <<disk, temp>>
    /\ UNCHANGED <<files, photo, sweep, crashes, lost>>

\* The transaction that writes the row; a notification follows, which has no part in this.
SaveFile(r) ==
    /\ req[r].pc = "saving" /\ r \in Uploads
    /\ \/ files' = files \cup {r} /\ Goto(r, "done")
       \/ UNCHANGED files /\ Goto(r, "undoing")
    /\ UNCHANGED <<disk, temp, photo, sweep, crashes, lost>>

\* Mutant: the bytes of a failed upload stay.
UndoNothing(r) ==
    /\ req[r].pc = "undoing"
    /\ Goto(r, "done")
    /\ UNCHANGED <<disk, temp, files, photo, sweep, crashes, lost>>

Undo(r) ==
    /\ req[r].pc = "undoing"
    /\ \/ disk' = disk \ {r} /\ UNCHANGED lost
       \/ UNCHANGED disk /\ lost' = TRUE
    /\ Goto(r, "done")
    /\ UNCHANGED <<temp, files, photo, sweep, crashes>>

\* When this transaction fails nothing removes the bytes.
SavePhoto(r) ==
    /\ req[r].pc = "saving" /\ r \in PhotoRequests
    /\ \/ photo' = r /\ Goto(r, "replaced") /\ UNCHANGED lost
       \/ UNCHANGED photo /\ Goto(r, "done") /\ lost' = TRUE
    /\ UNCHANGED <<disk, temp, files, sweep, crashes>>

LoadForRemoval(r) ==
    /\ req[r].pc = "new" /\ r \in PhotoRequests /\ photo # NoKey
    /\ req' = [req EXCEPT ![r] = [pc |-> "clearing", old |-> photo]]
    /\ lost' = (lost \/ Overlap)
    /\ UNCHANGED <<disk, temp, files, photo, sweep, crashes>>

RemovePhoto(r) ==
    /\ req[r].pc = "clearing"
    /\ \/ photo' = NoKey /\ Goto(r, "replaced")
       \/ UNCHANGED photo /\ Goto(r, "done")
    /\ UNCHANGED <<disk, temp, files, sweep, crashes, lost>>

\* The photo that was read at the start of the request.
RemoveFormer(r) ==
    /\ req[r].pc = "replaced"
    /\ \/ disk' = disk \ {req[r].old} /\ UNCHANGED lost
       \/ UNCHANGED disk /\ lost' = (lost \/ req[r].old # NoKey)
    /\ Goto(r, "done")
    /\ UNCHANGED <<temp, files, photo, sweep, crashes>>

(***************************************************************************)
(* The clean-up, time and crashes                                          *)
(***************************************************************************)

List ==
    /\ sweep.pc = "idle" /\ \E r \in Requests : temp[r] # "none"
    /\ sweep' = [pc |-> "running", entries |-> {r \in Requests : temp[r] # "none"}]
    /\ UNCHANGED <<disk, temp, files, photo, req, crashes, lost>>

\* Mutant: the entry is counted only.
LookAtUnlinked(r) ==
    /\ r \in sweep.entries
    /\ sweep' = [sweep EXCEPT !.entries = @ \ {r}]
    /\ UNCHANGED <<disk, temp, files, photo, req, crashes, lost>>

\* An entry that has been moved or removed since makes stat, and with it the clean-up, fail.
LookAt(r) ==
    /\ r \in sweep.entries
    /\ sweep' = IF temp[r] = "none" THEN [pc |-> "idle", entries |-> {}]
                ELSE [sweep EXCEPT !.entries = @ \ {r}]
    /\ temp' = [temp EXCEPT ![r] = IF temp[r] = "old" THEN "none" ELSE temp[r]]
    /\ UNCHANGED <<disk, files, photo, req, crashes, lost>>

SweepDone ==
    /\ sweep = [pc |-> "running", entries |-> {}]
    /\ sweep' = [pc |-> "idle", entries |-> {}]
    /\ UNCHANGED <<disk, temp, files, photo, req, crashes, lost>>

\* The stat or the removal of an entry rejects: the clean-up ends with the error.
SweepFails ==
    /\ sweep.entries # {}
    /\ sweep' = [pc |-> "idle", entries |-> {}]
    /\ UNCHANGED <<disk, temp, files, photo, req, crashes, lost>>

\* A day passes for a file nobody writes to; no request under way is idle for a day.
Age(r) ==
    /\ temp[r] = "fresh" /\ req[r].pc \in Ended
    /\ temp' = [temp EXCEPT ![r] = "old"]
    /\ UNCHANGED <<disk, files, photo, req, sweep, crashes, lost>>

Crash ==
    /\ crashes < MaxCrashes /\ crashes' = crashes + 1
    /\ req' = [r \in Requests |-> IF req[r].pc = "new" THEN req[r] ELSE [req[r] EXCEPT !.pc = "done"]]
    /\ sweep' = [pc |-> "idle", entries |-> {}]
    /\ lost' = TRUE
    /\ UNCHANGED <<disk, temp, files, photo>>

Step(r) ==
    \/ Upload(r) \/ OpenTemp(r) \/ Fail(r) \/ Aborted(r) \/ Closed(r)
    \/ ResolveParent(r) \/ LoadTeacher(r) \/ Discard(r) \/ Commit(r)
    \/ SaveFile(r) \/ Undo(r) \/ SavePhoto(r) \/ LoadForRemoval(r) \/ RemovePhoto(r) \/ RemoveFormer(r)

CleanUp == List \/ SweepDone \/ \E r \in Requests : LookAt(r)

Next == CleanUp \/ SweepFails \/ Crash \/ \E r \in Requests : Step(r) \/ Age(r)

\* The clean-up is started every hour and does not fail at the same file every time, and days pass.
Spec == Init /\ [][Next]_vars /\ WF_vars(CleanUp)
             /\ \A r \in Requests : SF_vars(LookAt(r)) /\ WF_vars(Age(r))

(***************************************************************************)
(* Properties                                                              *)
(***************************************************************************)

\* What a row names can be read: neither a failure or a crash at any step, nor two requests for
\* the photo of a teacher in any order, leave a row whose bytes are not there.
RowsHaveBytes == files \subseteq disk /\ photo \in disk \cup {NoKey}

\* Bytes that no row names belong to a request that is about to name or remove them, unless the
\* process has crashed, the row of a photo could not be written, two requests for the photo have
\* overlapped, or the file system refused to remove the bytes.  Nothing looks for such bytes later.
NothingLeftBehind ==
    lost \/ disk \subseteq files \cup {photo}
                     \cup {r \in Requests : req[r].pc \in {"saving", "undoing"}}
                     \cup {req[r].old : r \in {q \in Requests : req[q].pc = "replaced"}}

\* A temporary file whose request has ended, or will never end, is removed in the end: the
\* clean-up fails when a file goes away under it, but is started again.
TempsGo ==
    \A r \in Requests : temp[r] # "none" /\ req[r].pc \in Ended ~> temp[r] = "none"

=============================================================================
