------------------------- MODULE NotificationsProofs -------------------------
(***************************************************************************)
(* What holds of Notifications for any notifications and students, any     *)
(* size of a batch, and any failures, shutdowns and crashes.               *)
(***************************************************************************)
EXTENDS Notifications, TLAPS

Ats == {"none", "waiting", "active", "inserting", "done", "failed", "lost"}
Jobs == [at : Ats, failures : 0 .. MaxAttempts, stalled : BOOLEAN]

\* What the type invariant says of one notification.
TypeOf(n) ==
    /\ steady[n] \subseteq ever[n] /\ (pub[n] = "none" => ever[n] = {})
    /\ pub[n] \in {"none", "created"} => job[n].at = "none" /\ job[n].failures = 0
    /\ todo[n] # {} => job[n].at = "inserting"
    /\ job[n].failures = MaxAttempts => job[n].at = "failed"

LEMMA TypeInit == Init => TypeOK
BY NotificationsAssumption DEF Init, TypeOK

\* The parts of the type invariant.
Processes ==
    /\ driver \in {"memory", "redis"} /\ mode \in {"up", "closing", "down"}
    /\ pub \in [Notes -> {"none", "created", "queued", "ended"}]
    /\ audience \subseteq Students /\ changes \in 0 .. MaxChanges /\ stops \in 0 .. MaxStops
Queued == job \in [Notes -> Jobs] /\ todo \in [Notes -> SUBSET Students]
Boxes == inbox \in [Notes -> [Students -> {"none", "unread", "read"}]]
Histories == steady \in [Notes -> SUBSET Students] /\ ever \in [Notes -> SUBSET Students]

LEMMA TypeParts == TypeOK <=> Processes /\ Queued /\ Boxes /\ Histories /\ \A n \in Notes : TypeOf(n)
BY DEF TypeOK, Processes, Queued, Boxes, Histories, Jobs, Ats, TypeOf

LEMMA TypePartsNext == TypeOK' <=> Processes' /\ Queued' /\ Boxes' /\ Histories' /\ \A n \in Notes : TypeOf(n)'
BY DEF TypeOK, Processes, Queued, Boxes, Histories, Jobs, Ats, TypeOf

LEMMA TypeStep == TypeOK /\ [Next]_vars => TypeOK'
<1> SUFFICES ASSUME TypeOK, [Next]_vars PROVE TypeOK'
  OBVIOUS
<1> USE NotificationsAssumption
<1>0. Processes /\ Queued /\ Boxes /\ Histories /\ \A n \in Notes : TypeOf(n)
  BY TypeParts
<1>1. ASSUME NEW n \in Notes, CreateNotification(n) PROVE TypeOK'
  <2>1. Processes'
    BY <1>0, <1>1 DEF CreateNotification, Processes
  <2>2. Queued'
    BY <1>0, <1>1 DEF CreateNotification, Queued, Jobs, Ats
  <2>3. Boxes'
    BY <1>0, <1>1 DEF CreateNotification, Boxes
  <2>4. Histories'
    BY <1>0, <1>1 DEF CreateNotification, Histories, Processes
  <2>5. \A m \in Notes : TypeOf(m)'
    BY <1>0, <1>1 DEF CreateNotification, TypeOf, Queued, Jobs, Histories, Processes
  <2>6. QED
    BY <2>1, <2>2, <2>3, <2>4, <2>5, TypePartsNext
<1>2. ASSUME NEW n \in Notes, EnqueueNotificationFanout(n) PROVE TypeOK'
  <2>1. Processes'
    BY <1>0, <1>2 DEF EnqueueNotificationFanout, MoveJob, History, Processes
  <2>2. Queued'
    BY <1>0, <1>2 DEF EnqueueNotificationFanout, MoveJob, History, Queued, Jobs, Ats
  <2>3. Boxes'
    BY <1>0, <1>2 DEF EnqueueNotificationFanout, MoveJob, History, Boxes
  <2>4. Histories'
    BY <1>0, <1>2 DEF EnqueueNotificationFanout, MoveJob, History, Histories, Processes
  <2>5. \A m \in Notes : TypeOf(m)'
    BY <1>0, <1>2 DEF EnqueueNotificationFanout, MoveJob, History, TypeOf, Queued, Jobs, Histories, Processes
  <2>6. QED
    BY <2>1, <2>2, <2>3, <2>4, <2>5, TypePartsNext
<1>3. ASSUME NEW n \in Notes, Answer(n) PROVE TypeOK'
  BY <1>3 DEF Answer, History, TypeOK
<1>4. ASSUME NEW n \in Notes, Take(n) \/ Complete(n) PROVE TypeOK'
  <2>1. Processes'
    BY <1>0, <1>4 DEF Take, Complete, MoveJob, History, Processes
  <2>2. Queued'
    BY <1>0, <1>4 DEF Take, Complete, MoveJob, History, Queued, Jobs, Ats
  <2>3. Boxes'
    BY <1>0, <1>4 DEF Take, Complete, MoveJob, History, Boxes
  <2>4. Histories'
    BY <1>0, <1>4 DEF Take, Complete, MoveJob, History, Histories, Processes
  <2>a. PICK at \in {"active", "done"} : /\ MoveJob(n, at) /\ UNCHANGED <<pub, todo, steady, ever>>
                                         /\ job[n].at \in {"waiting", "inserting"} /\ todo[n] = {}
    BY <1>0, <1>4 DEF Take, Complete, History, TypeOf
  <2>5. \A m \in Notes : TypeOf(m)'
    BY <1>0, <2>a DEF MoveJob, TypeOf, Queued, Jobs
  <2>6. QED
    BY <2>1, <2>2, <2>3, <2>4, <2>5, TypePartsNext
<1>5. ASSUME NEW n \in Notes, ResolveAudience(n) PROVE TypeOK'
  BY <1>5 DEF ResolveAudience, MoveJob, History, TypeOK
<1>6. ASSUME NEW n \in Notes, InsertBatch(n) PROVE TypeOK'
  BY <1>6 DEF InsertBatch, History, TypeOK
<1>7. ASSUME NEW n \in Notes, AttemptFails(n) PROVE TypeOK'
  BY <1>7 DEF AttemptFails, Active, History, TypeOK
<1>8. ASSUME NEW s \in Students, MarkAllRead(s) \/ \E n \in Notes : MarkRead(s, n) PROVE TypeOK'
  <2>1. Processes'
    BY <1>0, <1>8 DEF MarkAllRead, MarkRead, History, Processes
  <2>2. Queued'
    BY <1>0, <1>8 DEF MarkAllRead, MarkRead, History, Queued, Jobs, Ats
  <2>3. Boxes'
    BY <1>0, <1>8 DEF MarkAllRead, MarkRead, History, Boxes
  <2>4. Histories'
    BY <1>0, <1>8 DEF MarkAllRead, MarkRead, History, Histories, Processes
  <2>5. \A m \in Notes : TypeOf(m)'
    BY <1>0, <1>8 DEF MarkAllRead, MarkRead, History, TypeOf, Queued, Jobs, Histories, Processes
  <2>6. QED
    BY <2>1, <2>2, <2>3, <2>4, <2>5, TypePartsNext
<1>9. ASSUME NEW s \in Students, AudienceChanges(s) PROVE TypeOK'
  <2>1. Processes'
    BY <1>0, <1>9 DEF AudienceChanges, Processes
  <2>2. Queued'
    BY <1>0, <1>9 DEF AudienceChanges, Queued, Jobs, Ats
  <2>3. Boxes'
    BY <1>0, <1>9 DEF AudienceChanges, Boxes
  <2>4. Histories'
    BY <1>0, <1>9 DEF AudienceChanges, Histories, Processes
  <2>5. \A m \in Notes : TypeOf(m)'
    BY <1>0, <1>9 DEF AudienceChanges, TypeOf, Queued, Jobs, Histories, Processes
  <2>6. QED
    BY <2>1, <2>2, <2>3, <2>4, <2>5, TypePartsNext
<1>10. CASE Shutdown \/ Exit \/ ApiCrash \/ Boot
  <2>1. Processes'
    BY <1>0, <1>10 DEF Shutdown, Exit, ApiCrash, Boot, History, Processes
  <2>2. Queued'
    BY <1>0, <1>10 DEF Shutdown, Exit, ApiCrash, Boot, History, Queued, Jobs, Ats
  <2>3. Boxes'
    BY <1>0, <1>10 DEF Shutdown, Exit, ApiCrash, Boot, History, Boxes
  <2>4. Histories'
    BY <1>0, <1>10 DEF Shutdown, Exit, ApiCrash, Boot, History, Histories, Processes
  <2>5. \A m \in Notes : TypeOf(m)'
    BY <1>0, <1>10 DEF Shutdown, Exit, ApiCrash, Boot, History, TypeOf, Queued, Jobs, Histories, Processes
  <2>6. QED
    BY <2>1, <2>2, <2>3, <2>4, <2>5, TypePartsNext
<1>11. CASE Crash
  <2>1. Processes'
    <3>1. pub' \in [Notes -> {"none", "created", "queued", "ended"}]
      BY <1>0, <1>11 DEF Crash, Processes
    <3>a. stops < MaxStops /\ stops' = stops + 1
      BY <1>11 DEF Crash
    <3>2. stops' \in 0 .. MaxStops
      BY <1>0, <3>a DEF Processes
    <3>3. QED
      BY <1>0, <1>11, <3>1, <3>2 DEF Crash, Processes
  <2>2. Queued'
    BY <1>0, <1>11 DEF Crash, Active, History, Queued, Jobs, Ats
  <2>3. Boxes'
    BY <1>0, <1>11 DEF Crash, Active, History, Boxes
  <2>4. Histories'
    BY <1>0, <1>11 DEF Crash, Active, History, Histories, Processes
  <2>5. \A m \in Notes : TypeOf(m)'
    BY <1>0, <1>11 DEF Crash, Active, History, TypeOf, Queued, Jobs, Histories, Processes
  <2>6. QED
    BY <2>1, <2>2, <2>3, <2>4, <2>5, TypePartsNext
<1>12. CASE UNCHANGED vars
  BY <1>12 DEF vars, TypeOK
<1>13. QED
  BY <1>1, <1>2, <1>3, <1>4, <1>5, <1>6, <1>7, <1>8, <1>9, <1>10, <1>11, <1>12 DEF Next, Worker

\* Type correctness: among others, a fan-out has students left to insert only while it inserts, and
\* one that has used up its attempts has failed.
THEOREM TypeCorrect == Spec => []TypeOK
<1>1. QED
  BY TypeInit, TypeStep, PTL DEF Spec

(***************************************************************************)
(* Delivery                                                                *)
(***************************************************************************)

\* What a fan-out has reached, and what it has yet to, on its way.
Delivering(n) ==
    /\ steady[n] \subseteq audience /\ (pub[n] # "none" => audience \subseteq ever[n])
    /\ Recipients(n) \subseteq ever[n] /\ todo[n] \subseteq ever[n]
    /\ job[n].at = "inserting" => steady[n] \subseteq Recipients(n) \cup todo[n]
    /\ job[n].at = "done" => steady[n] \subseteq Recipients(n)

DeliveryInv == TypeOK /\ \A n \in Notes : Delivering(n)

LEMMA DeliveryInit == Init => DeliveryInv
BY TypeInit DEF Init, DeliveryInv, Delivering, Recipients

\* A step that leaves the audience, the inboxes and the histories alone.
LEMMA Undelivered ==
    ASSUME DeliveryInv, TypeOK', UNCHANGED <<inbox, audience, steady, ever>>,
           \A n \in Notes : /\ pub[n] = "none" => pub'[n] = "none"
                            /\ todo'[n] \subseteq todo[n]
                            /\ job'[n].at = "inserting" => job[n].at = "inserting" /\ todo'[n] = todo[n]
                            /\ job'[n].at = "done" => job[n].at = "done" \/ (job[n].at = "inserting" /\ todo[n] = {})
    PROVE  DeliveryInv'
BY DEF DeliveryInv, Delivering, Recipients

LEMMA DeliveryStep == DeliveryInv /\ [Next]_vars => DeliveryInv'
<1> SUFFICES ASSUME DeliveryInv, [Next]_vars PROVE DeliveryInv'
  OBVIOUS
<1>0. /\ Processes /\ Queued /\ Boxes /\ Histories /\ \A n \in Notes : TypeOf(n)
      /\ TypeOK' /\ \A n \in Notes : Delivering(n)
  BY TypeParts, TypeStep DEF DeliveryInv
<1>1. ASSUME NEW n \in Notes, CreateNotification(n) PROVE DeliveryInv'
  BY <1>0, <1>1 DEF CreateNotification, DeliveryInv, Delivering, Recipients, TypeOf, Processes, Histories
<1>2. ASSUME NEW n \in Notes, EnqueueNotificationFanout(n) PROVE DeliveryInv'
  <2>1. UNCHANGED <<inbox, audience, steady, ever, todo>> /\ pub[n] = "created"
    BY <1>2 DEF EnqueueNotificationFanout, History
  <2>2. \A m \in Notes : /\ pub[m] = "none" => pub'[m] = "none"
                         /\ job'[m] = job[m] \/ job'[m].at \in {"lost", "waiting"}
    BY <1>0, <1>2 DEF EnqueueNotificationFanout, MoveJob, Processes, Queued, Jobs
  <2>3. QED
    BY <1>0, <2>1, <2>2, Undelivered
<1>3. ASSUME NEW n \in Notes, Answer(n) PROVE DeliveryInv'
  <2>1. /\ UNCHANGED <<inbox, audience, steady, ever, todo, job>>
        /\ \A m \in Notes : pub[m] = "none" => pub'[m] = "none"
    BY <1>0, <1>3 DEF Answer, History, Processes
  <2>2. QED
    BY <1>0, <2>1, Undelivered
<1>4. ASSUME NEW n \in Notes, Take(n) \/ Complete(n) PROVE DeliveryInv'
  <2>1. /\ UNCHANGED <<inbox, audience, steady, ever, todo, pub>>
        /\ \A m \in Notes : job'[m] = job[m] \/ job'[m].at = "active"
                            \/ (job'[m].at = "done" /\ job[m].at = "inserting" /\ todo[m] = {})
    BY <1>0, <1>4 DEF Take, Complete, MoveJob, History, Queued, Jobs
  <2>2. QED
    BY <1>0, <2>1, Undelivered
<1>5. ASSUME NEW n \in Notes, ResolveAudience(n) PROVE DeliveryInv'
  <2>1. /\ UNCHANGED <<inbox, audience, steady, ever, pub>> /\ pub[n] # "none"
        /\ job'[n].at = "inserting" /\ todo'[n] = audience
        /\ \A m \in Notes \ {n} : job'[m] = job[m] /\ todo'[m] = todo[m]
    BY <1>0, <1>5 DEF ResolveAudience, MoveJob, History, Queued, Jobs, TypeOf
  <2>2. QED
    BY <1>0, <2>1 DEF DeliveryInv, Delivering, Recipients
<1>6. ASSUME NEW n \in Notes, InsertBatch(n) PROVE DeliveryInv'
  <2>1. PICK rows \in SUBSET todo[n] :
            /\ inbox' = [inbox EXCEPT ![n] = [s \in Students |->
                             IF s \in rows /\ inbox[n][s] = "none" THEN "unread" ELSE inbox[n][s]]]
            /\ todo' = [todo EXCEPT ![n] = todo[n] \ rows]
    BY <1>6 DEF InsertBatch
  <2>2. /\ UNCHANGED <<audience, steady, ever, pub, job>> /\ job[n].at = "inserting"
        /\ todo'[n] = todo[n] \ rows /\ rows \subseteq Students
        /\ \A m \in Notes \ {n} : inbox'[m] = inbox[m] /\ todo'[m] = todo[m]
    BY <1>0, <1>6, <2>1 DEF InsertBatch, History, Queued, Boxes
  <2>3. Recipients(n)' = Recipients(n) \cup rows
    BY <1>0, <2>1, <2>2 DEF Recipients, Boxes
  <2>4. \A m \in Notes \ {n} : Recipients(m)' = Recipients(m)
    BY <2>2 DEF Recipients
  <2>5. QED
    BY <1>0, <2>1, <2>2, <2>3, <2>4 DEF DeliveryInv, Delivering
<1>7. ASSUME NEW n \in Notes, AttemptFails(n) PROVE DeliveryInv'
  <2>1. /\ UNCHANGED <<inbox, audience, steady, ever, pub>> /\ job'[n].at \in {"failed", "lost", "waiting"}
        /\ todo'[n] = {} /\ \A m \in Notes \ {n} : job'[m] = job[m] /\ todo'[m] = todo[m]
    BY <1>0, <1>7 DEF AttemptFails, History, Queued, Jobs
  <2>2. QED
    BY <1>0, <2>1, Undelivered
<1>8. ASSUME NEW s \in Students, MarkAllRead(s) \/ \E n \in Notes : MarkRead(s, n) PROVE DeliveryInv'
  <2>1. UNCHANGED <<audience, steady, ever, todo, pub, job>>
    BY <1>8 DEF MarkAllRead, MarkRead, History
  <2>2. \A m \in Notes, t \in Students : inbox'[m][t] = "none" <=> inbox[m][t] = "none"
    BY <1>0, <1>8 DEF MarkAllRead, MarkRead, Boxes
  <2>3. \A m \in Notes : Recipients(m)' = Recipients(m)
    BY <2>2 DEF Recipients
  <2>4. QED
    BY <1>0, <2>1, <2>3 DEF DeliveryInv, Delivering
<1>9. ASSUME NEW s \in Students, AudienceChanges(s) PROVE DeliveryInv'
  <2>1. UNCHANGED <<inbox, todo, pub, job>>
    BY <1>9 DEF AudienceChanges
  <2>2. \A n \in Notes : /\ steady'[n] = steady[n] \cap audience'
                         /\ ever'[n] = IF pub[n] = "none" THEN {} ELSE ever[n] \cup audience'
    BY <1>9 DEF AudienceChanges
  <2>3. \A n \in Notes : Recipients(n)' = Recipients(n)
    BY <2>1 DEF Recipients
  <2>4. ASSUME NEW n \in Notes PROVE Delivering(n)'
    <3>1. Delivering(n) /\ steady[n] \subseteq ever[n] /\ (pub[n] = "none" => ever[n] = {})
      BY <1>0 DEF TypeOf
    <3>2. steady'[n] \subseteq steady[n] /\ steady'[n] \subseteq audience' /\ (pub[n] # "none" => audience' \subseteq ever'[n])
      BY <2>2
    <3>3. Recipients(n)' \subseteq ever'[n] /\ todo'[n] \subseteq ever'[n]
      BY <2>1, <2>2, <2>3, <3>1 DEF Delivering
    <3>4. QED
      BY <2>1, <2>3, <3>1, <3>2, <3>3 DEF Delivering
  <2>5. QED
    BY <1>0, <2>4 DEF DeliveryInv
<1>10. CASE Shutdown \/ Exit \/ ApiCrash \/ Boot
  <2>1. UNCHANGED <<inbox, audience, steady, ever, todo>>
    BY <1>10 DEF Shutdown, Exit, ApiCrash, Boot, History
  <2>2. \A m \in Notes : pub[m] = "none" => pub'[m] = "none"
    BY <1>0, <1>10 DEF Shutdown, Exit, ApiCrash, Boot, Requesting, Processes
  <2>3. \A m \in Notes : job'[m] = job[m] \/ job'[m].at = "lost"
    BY <1>0, <1>10 DEF Shutdown, Exit, ApiCrash, Boot, Queued, Jobs
  <2>4. QED
    BY <1>0, <2>1, <2>2, <2>3, Undelivered
<1>11. CASE Crash
  <2>1. UNCHANGED <<inbox, audience, steady, ever>> /\ \A m \in Notes : todo'[m] = {}
    BY <1>11 DEF Crash, History
  <2>2. \A m \in Notes : pub[m] = "none" => pub'[m] = "none"
    BY <1>0, <1>11 DEF Crash, Requesting, Processes
  <2>3. \A m \in Notes : (job'[m] = job[m] /\ ~Active(m)) \/ job'[m].at \in {"lost", "failed", "waiting"}
    BY <1>0, <1>11 DEF Crash, Queued, Jobs
  <2>4. QED
    BY <1>0, <2>1, <2>2, <2>3, Undelivered DEF Active
<1>12. CASE UNCHANGED vars
  BY <1>0, <1>12, Undelivered DEF vars
<1>13. QED
  BY <1>1, <1>2, <1>3, <1>4, <1>5, <1>6, <1>7, <1>8, <1>9, <1>10, <1>11, <1>12 DEF Next, Worker

\* deliverNotification: a fan-out that is done has reached everybody who was in the audience all the
\* time, and nobody who never was, for any batch size, and however often it was tried again.
THEOREM DeliveredToAll == Spec => []DeliveredToAudience
<1>1. DeliveryInv => DeliveredToAudience
  BY DEF DeliveryInv, Delivering, DeliveredToAudience
<1>2. QED
  BY <1>1, DeliveryInit, DeliveryStep, PTL DEF Spec

\* What is read stays read: every attempt skips the rows that are there.
THEOREM ReadRemains == Spec => ReadStaysRead
<1>1. ASSUME TypeOK, [Next]_vars
      PROVE  [\A n \in Notes, s \in Students :
                 /\ inbox[n][s] = "read" => inbox'[n][s] = "read"
                 /\ inbox[n][s] # "none" => inbox'[n][s] # "none"]_inbox
  <2>0. Boxes
    BY <1>1, TypeParts
  <2>1. ASSUME NEW n \in Notes, InsertBatch(n), NEW m \in Notes, NEW s \in Students
        PROVE  inbox'[m][s] = inbox[m][s] \/ inbox[m][s] = "none"
    BY <2>0, <2>1 DEF InsertBatch, Boxes
  <2>2. ASSUME NEW t \in Students, MarkAllRead(t) \/ \E n \in Notes : MarkRead(t, n),
               NEW m \in Notes, NEW s \in Students
        PROVE  inbox'[m][s] = inbox[m][s] \/ (inbox[m][s] = "unread" /\ inbox'[m][s] = "read")
    BY <2>0, <2>2 DEF MarkAllRead, MarkRead, Boxes
  <2>3. QED
    BY <1>1, <2>1, <2>2 DEF Next, Worker, CreateNotification, EnqueueNotificationFanout, Answer, Take,
        ResolveAudience, Complete, AttemptFails, AudienceChanges, Shutdown, Exit, Crash, ApiCrash, Boot, vars
<1>2. QED
  BY <1>1, TypeInit, TypeStep, PTL DEF Spec, ReadStaysRead

=============================================================================
