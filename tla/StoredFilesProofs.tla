-------------------------- MODULE StoredFilesProofs --------------------------
(***************************************************************************)
(* What holds of StoredFiles for any uploads and any requests for a photo: *)
(* the types, that rows have their bytes, and that bytes without a row     *)
(* belong to somebody, but for the exceptions the code makes.              *)
(***************************************************************************)
EXTENDS StoredFiles, TLAPS

(***************************************************************************)
(* Types                                                                   *)
(***************************************************************************)
PCs == {"new", "receiving", "broken", "received", "refused", "moving", "saving",
        "undoing", "clearing", "replaced"} \cup Ended

LEMMA TypeInit == Init => TypeOK
<1> SUFFICES ASSUME Init PROVE TypeOK
  OBVIOUS
<1>1. disk \subseteq Keys /\ files \subseteq Requests /\ photo \in Keys \cup {NoKey}
  BY StoredFilesAssumption DEF Init, Keys
<1>2. /\ sweep \in [pc : {"idle", "running"}, entries : SUBSET Requests]
      /\ crashes \in 0 .. MaxCrashes
  BY StoredFilesAssumption DEF Init
<1>3. lost \in BOOLEAN
  BY DEF Init
<1>4. QED
  BY <1>1, <1>2, <1>3 DEF Init, TypeOK

\* A step of a request: it goes to pc, and its temporary file is what that allows.
LEMMA GotoType ==
    ASSUME TypeOK, NEW r \in Requests, NEW pc \in PCs, Goto(r, pc),
           NEW t \in {"none", "fresh", "old"}, temp' = [temp EXCEPT ![r] = t],
           pc \in {"received", "refused", "moving"} => t = "fresh",
           t = "old" => pc \in Ended
    PROVE  /\ temp' \in [Requests -> {"none", "fresh", "old"}]
           /\ req' \in [Requests -> [pc : PCs, old : Keys \cup {NoKey}]]
           /\ \A q \in Requests : /\ req'[q].pc \in {"received", "refused", "moving"} => temp'[q] = "fresh"
                                  /\ temp'[q] = "old" => req'[q].pc \in Ended
BY DEF TypeOK, Goto, PCs

LEMMA TypeStep == TypeOK /\ [Next]_vars => TypeOK'
<1> SUFFICES ASSUME TypeOK, [Next]_vars PROVE TypeOK'
  OBVIOUS
<1> USE StoredFilesAssumption
<1>a. \A r \in Requests : temp' = temp => temp' = [temp EXCEPT ![r] = temp[r]]
  BY DEF TypeOK
<1>b. \A r \in Requests : temp[r] \in {"none", "fresh", "old"}
  BY DEF TypeOK
<1>1. ASSUME NEW r \in Requests,
             Upload(r) \/ Fail(r) \/ Aborted(r) \/ ResolveParent(r) \/ SaveFile(r) \/ SavePhoto(r)
      PROVE  TypeOK'
  <2>1. PICK pc \in {"receiving", "broken", "gone", "moving", "refused", "done", "undoing", "replaced"} : Goto(r, pc)
    BY <1>1 DEF Upload, Fail, Aborted, ResolveParent, SaveFile, SavePhoto
  <2>2. temp' = [temp EXCEPT ![r] = temp[r]]
    BY <1>1, <1>a DEF Upload, Fail, Aborted, ResolveParent, SaveFile, SavePhoto
  <2>3. pc \in {"received", "refused", "moving"} => temp[r] = "fresh"
    BY <1>1, <2>1 DEF Upload, Fail, Aborted, ResolveParent, SaveFile, SavePhoto, TypeOK, Goto
  <2>4. temp[r] = "old" => pc \in Ended
    BY <1>1, <2>1 DEF Upload, Fail, Aborted, ResolveParent, SaveFile, SavePhoto, TypeOK, Goto, Ended
  <2>5. pc \in PCs
    BY DEF PCs, Ended
  <2>6. /\ disk' \subseteq Keys /\ files' \subseteq Requests /\ photo' \in Keys \cup {NoKey}
        /\ sweep' = sweep /\ crashes' = crashes /\ lost' \in BOOLEAN
    BY <1>1 DEF Upload, Fail, Aborted, ResolveParent, SaveFile, SavePhoto, TypeOK, Keys
  <2>7. QED
    BY <1>b, <2>1, <2>2, <2>3, <2>4, <2>5, <2>6, GotoType DEF TypeOK, PCs
<1>2. ASSUME NEW r \in Requests, OpenTemp(r) PROVE TypeOK'
  BY <1>2 DEF OpenTemp, TypeOK, Ended
<1>3. ASSUME NEW r \in Requests, Closed(r) \/ Discard(r) \/ Commit(r) \/ Undo(r) \/ RemoveFormer(r) PROVE TypeOK'
  <2>1. PICK pc \in {"received", "done", "saving"}, t \in {"none", "fresh", "old"} :
            /\ Goto(r, pc) /\ temp' = [temp EXCEPT ![r] = t]
            /\ pc \in {"received", "refused", "moving"} => t = "fresh"
            /\ t = "old" => pc \in Ended
    BY <1>3, <1>a, <1>b DEF Closed, Discard, Commit, Undo, RemoveFormer, TypeOK, Ended
  <2>2. pc \in PCs
    BY DEF PCs, Ended
  <2>3. disk' \subseteq Keys /\ files' = files /\ photo' = photo /\ sweep' = sweep /\ crashes' = crashes /\ lost' \in BOOLEAN
    BY <1>3 DEF Closed, Discard, Commit, Undo, RemoveFormer, TypeOK, Keys
  <2>4. QED
    BY <2>1, <2>2, <2>3, GotoType DEF TypeOK, PCs
<1>4. ASSUME NEW r \in Requests, LoadTeacher(r) \/ LoadForRemoval(r) \/ RemovePhoto(r) PROVE TypeOK'
  <2>1. lost' \in BOOLEAN
    BY <1>4 DEF LoadTeacher, LoadForRemoval, RemovePhoto, TypeOK
  <2>2. /\ req' \in [Requests -> [pc : PCs, old : Keys \cup {NoKey}]]
        /\ \A q \in Requests : /\ req'[q].pc \in {"received", "refused", "moving"} => temp[q] = "fresh"
                               /\ temp[q] = "old" => req'[q].pc \in Ended
    <3>1. ASSUME NEW pc \in {"refused", "done", "replaced"}, Goto(r, pc), ~LoadForRemoval(r)
          PROVE  /\ req' \in [Requests -> [pc : PCs, old : Keys \cup {NoKey}]]
                 /\ \A q \in Requests : /\ req'[q].pc \in {"received", "refused", "moving"} => temp[q] = "fresh"
                                        /\ temp[q] = "old" => req'[q].pc \in Ended
      <4>1. CASE LoadTeacher(r)
        <5>1. temp[r] = "fresh"
          BY <4>1 DEF LoadTeacher, TypeOK
        <5>2. QED
          BY <3>1, <5>1 DEF Goto, TypeOK, PCs, Ended
      <4>2. CASE RemovePhoto(r)
        <5>1. pc # "refused" /\ temp[r] # "old"
          BY <3>1, <4>2 DEF RemovePhoto, Goto, TypeOK, Ended
        <5>2. QED
          BY <3>1, <5>1 DEF Goto, TypeOK, PCs, Ended
      <4>3. QED
        BY <1>4, <3>1, <4>1, <4>2
    <3>2. CASE LoadForRemoval(r) \/ req' = [req EXCEPT ![r].pc = "moving", ![r].old = photo]
      BY <1>4, <3>2 DEF LoadTeacher, LoadForRemoval, RemovePhoto, Goto, TypeOK, PCs, Ended
    <3>3. QED
      BY <1>4, <3>1, <3>2 DEF LoadTeacher, RemovePhoto
  <2>3. /\ photo' \in Keys \cup {NoKey} /\ crashes' = crashes
        /\ UNCHANGED <<disk, temp, files, sweep>>
    BY <1>4 DEF LoadTeacher, LoadForRemoval, RemovePhoto, TypeOK
  <2>4. QED
    BY <2>1, <2>2, <2>3 DEF TypeOK, PCs
<1>5. CASE List \/ SweepDone \/ SweepFails
  BY <1>5 DEF List, SweepDone, SweepFails, TypeOK
<1>6. ASSUME NEW r \in Requests, LookAt(r) \/ Age(r) PROVE TypeOK'
  BY <1>6 DEF LookAt, Age, TypeOK, Ended
<1>7. CASE Crash
  BY <1>7 DEF Crash, TypeOK, Ended
<1>8. CASE UNCHANGED vars
  BY <1>8 DEF vars, TypeOK
<1>9. QED
  BY <1>1, <1>2, <1>3, <1>4, <1>5, <1>6, <1>7, <1>8 DEF Next, Step, CleanUp, TypeOK

\* Type correctness: among others, a request that goes on with what it has received still has its
\* temporary file, since the clean-up takes only those nobody has written to for a day.
THEOREM TypeCorrect == Spec => []TypeOK
<1>1. QED
  BY TypeInit, TypeStep, PTL DEF Spec

(***************************************************************************)
(* Rows have their bytes                                                   *)
(***************************************************************************)

\* Keys that are or were the photo, and never become it again.
UsedKeys == {NoKey, FirstPhoto} \cup {r \in PhotoRequests : req[r].pc \in {"replaced", "done"}}

PhotoKeysUsed == photo \in UsedKeys /\ \A r \in Requests : req[r].old \in UsedKeys

FormerIsReplaced ==
    \A r \in Requests : req[r].pc = "replaced" => req[r].old = NoKey \/ req[r].old # photo

FilesAreDone == \A r \in files : r \in Uploads /\ req[r].pc = "done"

\* Which requests come to which steps, and the bytes of those that write their row.
StepsOfRequests ==
    \A r \in Requests :
        /\ req[r].pc \in {"clearing", "replaced"} => r \in PhotoRequests
        /\ req[r].pc = "undoing" => r \in Uploads
        /\ req[r].pc = "saving" => r \in disk

BytesInv ==
    TypeOK /\ PhotoKeysUsed /\ FormerIsReplaced /\ FilesAreDone /\ StepsOfRequests /\ RowsHaveBytes

LEMMA BytesInit == Init => BytesInv
<1> SUFFICES ASSUME Init PROVE BytesInv
  OBVIOUS
<1>1. TypeOK
  BY TypeInit
<1>2. QED
  BY <1>1 DEF Init, BytesInv, PhotoKeysUsed, UsedKeys, FormerIsReplaced, FilesAreDone,
              StepsOfRequests, RowsHaveBytes

\* A step that leaves bytes, rows and photo alone, and does not change what a request has read,
\* nor take it from or to a step that matters here.
LEMMA BytesKept ==
    ASSUME BytesInv, TypeOK', UNCHANGED <<disk, files, photo>>,
           \A r \in Requests :
               \/ req'[r] = req[r]
               \/ req'[r].old = req[r].old /\ req'[r].pc \notin {"saving", "undoing", "clearing", "replaced"}
                  /\ (req[r].pc \in {"replaced", "done"} => req'[r].pc = "done")
    PROVE  BytesInv'
<1>1. UsedKeys \subseteq UsedKeys'
  BY DEF UsedKeys, Requests
<1>2. PhotoKeysUsed'
  BY <1>1 DEF PhotoKeysUsed, BytesInv
<1>3. FormerIsReplaced' /\ FilesAreDone' /\ StepsOfRequests' /\ RowsHaveBytes'
  BY DEF BytesInv, FormerIsReplaced, FilesAreDone, StepsOfRequests, RowsHaveBytes, TypeOK
<1>4. QED
  BY <1>2, <1>3 DEF BytesInv

\* A step of one request never turns a key that was the photo into one that was not.
LEMMA UsedStay ==
    ASSUME NEW r \in Requests, req'[r].old \in UsedKeys, \A q \in Requests \ {r} : req'[q] = req[q],
           req[r].pc \in {"replaced", "done"} => req'[r].pc \in {"replaced", "done"},
           \A q \in Requests : req[q].old \in UsedKeys
    PROVE  UsedKeys \subseteq UsedKeys' /\ \A q \in Requests : req'[q].old \in UsedKeys'
<1>1. \A q \in PhotoRequests : req[q].pc \in {"replaced", "done"} => req'[q].pc \in {"replaced", "done"}
  BY DEF Requests
<1>2. UsedKeys \subseteq UsedKeys'
  BY <1>1 DEF UsedKeys
<1>3. \A q \in Requests : req'[q].old \in UsedKeys
  OBVIOUS
<1>4. QED
  BY <1>2, <1>3

\* A step of one request: what it has to keep so that the invariant does.
LEMMA OneStep ==
    ASSUME BytesInv, TypeOK', NEW r \in Requests,
           \A q \in Requests \ {r} : req'[q] = req[q] /\ (req[q].pc = "saving" => q \in disk'),
           photo' \in UsedKeys', \A q \in Requests : req'[q].old \in UsedKeys',
           photo' = photo \/ \A q \in Requests : req[q].old = NoKey \/ req[q].old # photo',
           req'[r].pc = "replaced" => req'[r].old = NoKey \/ req'[r].old # photo',
           req'[r].pc \in {"clearing", "replaced"} => r \in PhotoRequests,
           req'[r].pc = "undoing" => r \in Uploads,
           req'[r].pc = "saving" => r \in disk',
           files' = files \/ (files' = files \cup {r} /\ r \in Uploads),
           r \in files' => req'[r].pc = "done",
           RowsHaveBytes'
    PROVE  BytesInv'
<1>1. PhotoKeysUsed'
  BY DEF PhotoKeysUsed
<1>2. FormerIsReplaced'
  BY DEF BytesInv, FormerIsReplaced
<1>3. FilesAreDone'
  BY DEF BytesInv, FilesAreDone, Requests
<1>4. StepsOfRequests'
  BY DEF BytesInv, StepsOfRequests
<1>5. QED
  BY <1>1, <1>2, <1>3, <1>4 DEF BytesInv

LEMMA BytesStep == BytesInv /\ [Next]_vars => BytesInv'
<1> SUFFICES ASSUME BytesInv, [Next]_vars PROVE BytesInv'
  OBVIOUS
<1> USE StoredFilesAssumption
<1>0. TypeOK /\ TypeOK'
  BY TypeStep DEF BytesInv
<1>a. ASSUME NEW r \in Requests
      PROVE  /\ \A pc \in PCs : Goto(r, pc) => /\ req'[r].pc = pc /\ req'[r].old = req[r].old
                                                /\ \A q \in Requests \ {r} : req'[q] = req[q]
             /\ \A pc \in {"saving", "undoing", "replaced", "done"} : Goto(r, pc) => req'[r].pc = pc
  BY <1>0, <1>a DEF TypeOK, Goto
<1>b. \A r \in Requests : r \notin UsedKeys \/ (r \in PhotoRequests /\ req[r].pc \in {"replaced", "done"})
  BY DEF UsedKeys
<1>c. \A r \in Uploads : r \notin UsedKeys
  BY DEF UsedKeys, Requests
<1>1. ASSUME NEW r \in Requests,
             Upload(r) \/ Fail(r) \/ Aborted(r) \/ Closed(r) \/ ResolveParent(r) \/ Discard(r)
      PROVE  BytesInv'
  <2>1. UNCHANGED <<disk, files, photo>>
    BY <1>1 DEF Upload, Fail, Aborted, Closed, ResolveParent, Discard
  <2>2. /\ req[r].pc \notin {"replaced", "done"}
        /\ \E pc \in PCs \ {"saving", "undoing", "clearing", "replaced"} : Goto(r, pc)
    BY <1>1 DEF Upload, Fail, Aborted, Closed, ResolveParent, Discard, PCs, Ended
  <2>3. QED
    BY <1>0, <2>1, <2>2, BytesKept DEF Goto, TypeOK
<1>2. ASSUME NEW r \in Requests, LoadTeacher(r) PROVE BytesInv'
  <2>1. CASE \E pc \in {"refused", "done"} : Goto(r, pc)
    BY <1>0, <1>2, <2>1, BytesKept DEF LoadTeacher, Goto, TypeOK
  <2>2. CASE req' = [req EXCEPT ![r].pc = "moving", ![r].old = photo]
    <3>1. /\ req'[r].pc = "moving" /\ req'[r].old = photo
          /\ \A q \in Requests \ {r} : req'[q] = req[q]
      BY <1>0, <2>2 DEF TypeOK
    <3>2. UsedKeys \subseteq UsedKeys' /\ \A q \in Requests : req'[q].old \in UsedKeys'
      BY <1>0, <1>2, <3>1, UsedStay DEF LoadTeacher, BytesInv, PhotoKeysUsed, PCs
    <3>3. UNCHANGED <<disk, files, photo>> /\ req[r].pc = "received"
      BY <1>2 DEF LoadTeacher
    <3>4. r \notin files /\ photo \in UsedKeys /\ RowsHaveBytes'
      BY <3>3 DEF BytesInv, FilesAreDone, PhotoKeysUsed, RowsHaveBytes
    <3>5. \A q \in Requests : req[q].pc = "saving" => q \in disk
      BY DEF BytesInv, StepsOfRequests
    <3>6. QED
      BY <1>0, <3>1, <3>2, <3>3, <3>4, <3>5, OneStep
  <2>3. QED
    BY <1>2, <2>1, <2>2 DEF LoadTeacher
<1>3. ASSUME NEW r \in Requests, LoadForRemoval(r) PROVE BytesInv'
  <2>1. /\ req'[r].pc = "clearing" /\ req'[r].old = photo /\ req[r].pc = "new"
        /\ \A q \in Requests \ {r} : req'[q] = req[q]
        /\ UNCHANGED <<disk, files, photo>> /\ r \in PhotoRequests
    BY <1>0, <1>3 DEF LoadForRemoval, TypeOK
  <2>2. UsedKeys \subseteq UsedKeys' /\ \A q \in Requests : req'[q].old \in UsedKeys'
    BY <1>0, <2>1, UsedStay DEF BytesInv, PhotoKeysUsed, PCs
  <2>3. r \notin files /\ photo \in UsedKeys /\ RowsHaveBytes'
    BY <2>1 DEF BytesInv, FilesAreDone, PhotoKeysUsed, RowsHaveBytes
  <2>4. \A q \in Requests : req[q].pc = "saving" => q \in disk
    BY DEF BytesInv, StepsOfRequests
  <2>5. QED
    BY <1>0, <2>1, <2>2, <2>3, <2>4, OneStep
<1>4. ASSUME NEW r \in Requests, NEW pc \in PCs,
             Commit(r) \/ SaveFile(r) \/ Undo(r) \/ SavePhoto(r) \/ RemovePhoto(r) \/ RemoveFormer(r),
             Goto(r, pc)
      PROVE  BytesInv'
  <2>1. /\ req'[r].pc = pc /\ req'[r].old = req[r].old
        /\ \A q \in Requests \ {r} : req'[q] = req[q]
    BY <1>4, <1>a
  <2>2. req[r].pc \in {"moving", "saving", "undoing", "clearing", "replaced"}
    BY <1>4 DEF Commit, SaveFile, Undo, SavePhoto, RemovePhoto, RemoveFormer
  <2>3. req[r].pc = "replaced" => pc = "done"
    BY <1>4, <1>a, <2>1 DEF Commit, SaveFile, Undo, SavePhoto, RemovePhoto, RemoveFormer
  <2>4. UsedKeys \subseteq UsedKeys' /\ \A q \in Requests : req'[q].old \in UsedKeys'
    BY <1>0, <2>1, <2>2, <2>3, UsedStay DEF BytesInv, PhotoKeysUsed, PCs
  <2>5. /\ photo \in UsedKeys' /\ r \notin files
        /\ \A q \in Requests : req[q].pc = "saving" => q \in disk
    BY <2>2, <2>4 DEF BytesInv, PhotoKeysUsed, FilesAreDone, StepsOfRequests
  <2>6. CASE Commit(r)
    <3>1. /\ (pc = "saving" /\ disk' = disk \cup {r}) \/ (pc = "done" /\ disk' = disk)
          /\ UNCHANGED <<files, photo>>
      BY <1>a, <2>1, <2>6 DEF Commit
    <3>2. RowsHaveBytes'
      BY <3>1 DEF BytesInv, RowsHaveBytes
    <3>3. QED
      BY <1>0, <2>1, <2>4, <2>5, <3>1, <3>2, OneStep
  <2>7. CASE SaveFile(r)
    <3>1. /\ r \in Uploads /\ r \in disk /\ disk' = disk /\ photo' = photo
          /\ (pc = "done" /\ files' = files \cup {r}) \/ (pc = "undoing" /\ files' = files)
      BY <1>a, <2>1, <2>7 DEF SaveFile, BytesInv, StepsOfRequests
    <3>2. RowsHaveBytes'
      BY <3>1 DEF BytesInv, RowsHaveBytes
    <3>3. QED
      BY <1>0, <2>1, <2>4, <2>5, <3>1, <3>2, OneStep
  <2>8. CASE Undo(r)
    <3>1. /\ r \in Uploads /\ disk' \in {disk, disk \ {r}} /\ pc = "done" /\ UNCHANGED <<files, photo>>
          /\ r \notin files /\ photo # r
      BY <1>c, <1>a, <2>1, <2>8 DEF Undo, BytesInv, StepsOfRequests, FilesAreDone, PhotoKeysUsed
    <3>2. RowsHaveBytes'
      BY <3>1 DEF BytesInv, RowsHaveBytes
    <3>3. QED
      BY <1>0, <2>1, <2>4, <2>5, <3>1, <3>2, OneStep
  <2>9. CASE SavePhoto(r)
    <3>1. /\ r \in PhotoRequests /\ r \in disk /\ UNCHANGED <<disk, files>> /\ req[r].pc = "saving"
          /\ (pc = "replaced" /\ photo' = r) \/ (pc = "done" /\ photo' = photo)
      BY <1>a, <2>1, <2>9 DEF SavePhoto, BytesInv, StepsOfRequests
    <3>2. \A q \in Requests : req[q].old # r
      BY <1>b, <3>1 DEF BytesInv, PhotoKeysUsed
    <3>3. photo' \in UsedKeys'
      BY <2>4, <2>1, <3>1 DEF BytesInv, PhotoKeysUsed, UsedKeys
    <3>4. RowsHaveBytes'
      BY <3>1 DEF BytesInv, RowsHaveBytes
    <3>5. QED
      BY <1>0, <2>1, <2>4, <2>5, <3>1, <3>2, <3>3, <3>4, OneStep
  <2>10. CASE RemovePhoto(r)
    <3>1. /\ r \in PhotoRequests /\ UNCHANGED <<disk, files>> /\ req[r].pc = "clearing"
          /\ (pc = "replaced" /\ photo' = NoKey) \/ (pc = "done" /\ photo' = photo)
      BY <1>a, <2>1, <2>10 DEF RemovePhoto, BytesInv, StepsOfRequests
    <3>2. photo' \in UsedKeys'
      BY <2>4, <3>1 DEF BytesInv, PhotoKeysUsed, UsedKeys
    <3>3. RowsHaveBytes'
      BY <3>1 DEF BytesInv, RowsHaveBytes
    <3>4. QED
      BY <1>0, <2>1, <2>4, <2>5, <3>1, <3>2, <3>3, OneStep
  <2>11. CASE RemoveFormer(r)
    <3>1. /\ req[r].pc = "replaced" /\ disk' \in {disk, disk \ {req[r].old}} /\ pc = "done"
          /\ UNCHANGED <<files, photo>>
      BY <1>a, <2>1, <2>11 DEF RemoveFormer
    <3>2. /\ req[r].old \notin files
          /\ \A q \in Requests : req[q].pc = "saving" => q # req[r].old
      BY <1>b, <1>c DEF BytesInv, FilesAreDone, PhotoKeysUsed
    <3>3. RowsHaveBytes'
      BY <3>1, <3>2 DEF BytesInv, FormerIsReplaced, RowsHaveBytes
    <3>4. QED
      BY <1>0, <2>1, <2>4, <2>5, <3>1, <3>2, <3>3, OneStep
  <2>12. QED
    BY <1>4, <2>6, <2>7, <2>8, <2>9, <2>10, <2>11
<1>5. ASSUME NEW r \in Requests,
             Commit(r) \/ SaveFile(r) \/ Undo(r) \/ SavePhoto(r) \/ RemovePhoto(r) \/ RemoveFormer(r)
      PROVE  BytesInv'
  <2>1. \E pc \in PCs : Goto(r, pc)
    BY <1>5 DEF Commit, SaveFile, Undo, SavePhoto, RemovePhoto, RemoveFormer, PCs, Ended
  <2>2. QED
    BY <1>4, <1>5, <2>1
<1>6. ASSUME UNCHANGED <<disk, files, photo, req>> PROVE BytesInv'
  BY <1>0, <1>6, BytesKept
<1>7. CASE Crash
  BY <1>0, <1>7, BytesKept DEF Crash, TypeOK
<1>8. QED
  BY <1>1, <1>2, <1>3, <1>5, <1>6, <1>7 DEF Next, Step, CleanUp, OpenTemp, List, SweepDone, SweepFails, LookAt, Age, vars

\* uploadFile and setTeacherImage: whatever fails, in whatever order requests overlap, and
\* wherever the process crashes, a row never names bytes that are not there.
THEOREM RowsKeepBytes == Spec => []RowsHaveBytes
<1>1. BytesInv => RowsHaveBytes
  BY DEF BytesInv
<1>2. QED
  BY <1>1, BytesInit, BytesStep, PTL DEF Spec

(***************************************************************************)
(* Bytes without a row                                                     *)
(***************************************************************************)

\* A photo request that has read the photo and not yet written it.
InWork(r) == r \in PhotoRequests /\ req[r].pc \in {"moving", "saving", "clearing"}

\* Unless requests have overlapped, there is at most one, and what it has read is the photo.
OneInWork ==
    lost \/ \A r \in Requests : InWork(r) =>
               req[r].old = photo /\ \A q \in Requests : InWork(q) => q = r

LeftInv == BytesInv /\ OneInWork /\ NothingLeftBehind

LEMMA LeftInit == Init => LeftInv
<1> SUFFICES ASSUME Init PROVE LeftInv
  OBVIOUS
<1>1. QED
  BY BytesInit DEF Init, LeftInv, OneInWork, InWork, NothingLeftBehind

\* A step of one request: what it has to keep so that the invariant does.
LEMMA LeftOneStep ==
    ASSUME ~lost, LeftInv, BytesInv', NEW r \in Requests,
           \A q \in Requests \ {r} : req'[q] = req[q],
           InWork(r)' => req'[r].old = photo' /\ (InWork(r) \/ ~Overlap),
           photo' = photo \/ InWork(r),
           InWork(r)' => photo' = photo,
           \A k \in disk' : \/ k \in files' \cup {photo'}
                            \/ k = r /\ req'[r].pc \in {"saving", "undoing"}
                            \/ req'[r].pc = "replaced" /\ k = req'[r].old
                            \/ \E q \in Requests \ {r} : \/ k = q /\ req[q].pc \in {"saving", "undoing"}
                                                         \/ req[q].pc = "replaced" /\ k = req[q].old
    PROVE  LeftInv'
<1>1. OneInWork'
  <2>1. SUFFICES ASSUME NEW q \in Requests, InWork(q)'
                 PROVE  req'[q].old = photo' /\ \A p \in Requests : InWork(p)' => p = q
    BY DEF OneInWork
  <2>2. \A p \in Requests \ {r} : InWork(p)' <=> InWork(p)
    BY DEF InWork
  <2>3. CASE q = r
    <3>1. \A p \in Requests \ {r} : ~InWork(p)
      BY <2>1, <2>3 DEF LeftInv, OneInWork, Overlap, InWork
    <3>2. QED
      BY <2>1, <2>2, <2>3, <3>1
  <2>4. CASE q # r
    <3>1. InWork(q) /\ ~InWork(r) /\ req[q].old = photo /\ \A p \in Requests : InWork(p) => p = q
      BY <2>1, <2>2, <2>4 DEF LeftInv, OneInWork
    <3>2. ~InWork(r)'
      BY <2>4, <3>1 DEF Overlap, InWork
    <3>3. QED
      BY <2>2, <2>4, <3>1, <3>2
  <2>5. QED
    BY <2>3, <2>4
<1>2. NothingLeftBehind'
  BY DEF NothingLeftBehind
<1>3. QED
  BY <1>1, <1>2 DEF LeftInv

LEMMA LeftStep == LeftInv /\ [Next]_vars => LeftInv'
<1> SUFFICES ASSUME LeftInv, [Next]_vars PROVE LeftInv'
  OBVIOUS
<1> USE StoredFilesAssumption
<1>0. TypeOK /\ BytesInv /\ BytesInv'
  BY BytesStep DEF LeftInv, BytesInv
<1>1. CASE lost'
  BY <1>0, <1>1 DEF LeftInv, OneInWork, NothingLeftBehind
<1>2. CASE ~lost'
  <2>0. ~lost
    BY <1>2 DEF Next, CleanUp, List, SweepDone, SweepFails, LookAt, Crash, Step, Age, Upload, OpenTemp, Fail, Aborted, Closed,
                ResolveParent, LoadTeacher, Discard, Commit, SaveFile, Undo, SavePhoto, LoadForRemoval,
                RemovePhoto, RemoveFormer, vars
  <2>a. \A k \in disk : \/ k \in files \cup {photo}
                       \/ \E q \in Requests : \/ k = q /\ req[q].pc \in {"saving", "undoing"}
                                              \/ req[q].pc = "replaced" /\ k = req[q].old
    BY <2>0 DEF LeftInv, NothingLeftBehind
  <2>b. ASSUME NEW r \in Requests, NEW pc \in PCs, Goto(r, pc)
        PROVE  /\ req'[r].pc = pc /\ req'[r].old = req[r].old
               /\ \A q \in Requests \ {r} : req'[q] = req[q]
    BY <1>0, <2>b DEF TypeOK, Goto
  <2>c. \A r \in Requests : InWork(r) => req[r].old = photo
    BY <2>0 DEF LeftInv, OneInWork
  <2>1. ASSUME NEW r \in Requests,
               Upload(r) \/ Fail(r) \/ Aborted(r) \/ Closed(r) \/ ResolveParent(r) \/ Discard(r)
        PROVE  LeftInv'
    <3>1. /\ UNCHANGED <<disk, files, photo>>
          /\ req[r].pc \in {"new", "receiving", "broken", "received", "refused"}
          /\ \E pc \in PCs : Goto(r, pc) /\ (r \in PhotoRequests => pc \notin {"moving", "saving", "clearing"})
      BY <2>1 DEF Upload, Fail, Aborted, Closed, ResolveParent, Discard, PCs, Ended
    <3>2. ~InWork(r)' /\ \A q \in Requests \ {r} : req'[q] = req[q]
      BY <3>1, <2>b DEF InWork
    <3>3. QED
      BY <1>0, <2>0, <2>a, <3>1, <3>2, LeftOneStep
  <2>2. ASSUME NEW r \in Requests, LoadTeacher(r) PROVE LeftInv'
    <3>1. /\ UNCHANGED <<disk, files, photo>> /\ req[r].pc = "received" /\ ~Overlap
      BY <1>2, <2>2 DEF LoadTeacher
    <3>2. /\ \A q \in Requests \ {r} : req'[q] = req[q]
          /\ req'[r].pc \in {"refused", "done"} \/ req'[r].old = photo
      BY <1>0, <2>2 DEF LoadTeacher, TypeOK, Goto
    <3>3. InWork(r)' => req'[r].old = photo'
      BY <3>1, <3>2 DEF InWork
    <3>4. QED
      BY <1>0, <2>0, <2>a, <3>1, <3>2, <3>3, LeftOneStep
  <2>3. ASSUME NEW r \in Requests, LoadForRemoval(r) PROVE LeftInv'
    <3>1. /\ UNCHANGED <<disk, files, photo>> /\ req[r].pc = "new" /\ ~Overlap
      BY <1>2, <2>3 DEF LoadForRemoval
    <3>2. /\ \A q \in Requests \ {r} : req'[q] = req[q]
          /\ req'[r].old = photo
      BY <1>0, <2>3 DEF LoadForRemoval, TypeOK
    <3>3. QED
      BY <1>0, <2>0, <2>a, <3>1, <3>2, LeftOneStep
  <2>4. ASSUME NEW r \in Requests, Commit(r) PROVE LeftInv'
    <3>1. PICK pc \in {"saving", "done"} :
              /\ Goto(r, pc) /\ UNCHANGED <<files, photo>> /\ req[r].pc = "moving"
              /\ disk' = IF pc = "saving" THEN disk \cup {r} ELSE disk
      BY <2>4 DEF Commit
    <3>2. pc \in PCs
      BY DEF PCs, Ended
    <3>3. /\ req'[r].pc = pc /\ req'[r].old = req[r].old
          /\ \A q \in Requests \ {r} : req'[q] = req[q]
      BY <2>b, <3>1, <3>2
    <3>4. InWork(r)' => InWork(r) /\ req'[r].old = photo'
      BY <2>c, <3>1, <3>3 DEF InWork
    <3>5. QED
      BY <1>0, <2>0, <2>a, <3>1, <3>3, <3>4, LeftOneStep
  <2>5. ASSUME NEW r \in Requests, SaveFile(r) \/ Undo(r) \/ SavePhoto(r) \/ RemovePhoto(r) \/ RemoveFormer(r)
        PROVE  LeftInv'
    <3>1. PICK pc \in {"done", "undoing", "replaced"} : Goto(r, pc)
      BY <2>5 DEF SaveFile, Undo, SavePhoto, RemovePhoto, RemoveFormer
    <3>2. pc \in PCs
      BY DEF PCs, Ended
    <3>3. /\ req'[r].pc = pc /\ req'[r].old = req[r].old
          /\ \A q \in Requests \ {r} : req'[q] = req[q]
      BY <2>b, <3>1, <3>2
    <3>4. ~InWork(r)'
      BY <3>1, <3>3 DEF InWork
    <3>5. CASE SaveFile(r)
      <4>1. /\ disk' = disk /\ photo' = photo /\ req[r].pc = "saving"
            /\ (files' = files \cup {r}) \/ (files' = files /\ req'[r].pc = "undoing")
        BY <1>0, <3>5 DEF SaveFile, Goto, TypeOK
      <4>2. QED
        BY <1>0, <2>0, <2>a, <3>3, <3>4, <4>1, LeftOneStep
    <3>6. CASE Undo(r)
      <4>1. disk' = disk \ {r} /\ UNCHANGED <<files, photo>> /\ req[r].pc = "undoing"
        BY <1>2, <3>6 DEF Undo
      <4>2. QED
        BY <1>0, <2>0, <2>a, <3>3, <3>4, <4>1, LeftOneStep
    <3>7. CASE SavePhoto(r) \/ RemovePhoto(r)
      <4>1. /\ UNCHANGED <<disk, files>> /\ req[r].pc \in {"saving", "clearing"} /\ InWork(r)
            /\ \/ photo' \in {r, NoKey} /\ req'[r].pc = "replaced" /\ (req[r].pc = "saving" => photo' = r)
               \/ photo' = photo /\ req[r].pc = "clearing"
        BY <1>0, <1>2, <3>7 DEF SavePhoto, RemovePhoto, Goto, TypeOK, BytesInv, StepsOfRequests, InWork
      <4>2. req'[r].old = photo
        BY <2>c, <3>3, <4>1
      <4>3. QED
        BY <1>0, <2>0, <2>a, <3>3, <3>4, <4>1, <4>2, LeftOneStep
    <3>8. CASE RemoveFormer(r)
      <4>1. /\ disk' = disk \ {req[r].old} \/ (disk' = disk /\ req[r].old = NoKey)
            /\ UNCHANGED <<files, photo>> /\ req[r].pc = "replaced"
        BY <1>2, <3>8 DEF RemoveFormer
      <4>0. NoKey \notin disk
        BY <1>0 DEF TypeOK, Keys
      <4>2. QED
        BY <1>0, <2>0, <2>a, <3>3, <3>4, <4>0, <4>1, LeftOneStep
    <3>9. QED
      BY <2>5, <3>5, <3>6, <3>7, <3>8
  <2>6. ASSUME UNCHANGED <<disk, files, photo, req>> PROVE LeftInv'
    BY <1>0, <2>0, <2>6 DEF LeftInv, OneInWork, InWork, NothingLeftBehind
  <2>7. CASE Crash
    BY <1>2, <2>7 DEF Crash
  <2>8. QED
    BY <2>1, <2>2, <2>3, <2>4, <2>5, <2>6, <2>7
       DEF Next, Step, CleanUp, OpenTemp, List, SweepDone, SweepFails, LookAt, Age, vars
<1>3. QED
  BY <1>1, <1>2

\* Undo and RemoveFormer: but for a crash, a failure to write the row of a photo, overlapping requests
\* for one, or a file system that refuses a removal, bytes that are superfluous are removed at once.
THEOREM NothingStaysBehind == Spec => []NothingLeftBehind
<1>1. LeftInv => NothingLeftBehind
  BY DEF LeftInv
<1>2. QED
  BY <1>1, LeftInit, LeftStep, PTL DEF Spec

=============================================================================
