------------------------- MODULE MemoryQueueProofs -------------------------
(***************************************************************************)
(* What holds of MemoryQueue for any number of jobs, slots, attempts and   *)
(* callers.  The queue and the slots are taken as parameters q, r and T    *)
(* (waiting, run, timers), since a step changes them first and pumps then. *)
(***************************************************************************)
EXTENDS MemoryQueue, SequenceTheorems, TLAPS

HandlingIn(r) == {s \in Slots : r[s].pc = "handling"}

QueuedIn(q)   == {q[i].id : i \in 1 .. Len(q)}
DelayedIn(T)  == {e.id : e \in T}
HandledIn(r)  == {r[s].job.id : s \in HandlingIn(r)}

\* Every job is in one place, once.
HeldIn(q, r, T) ==
    /\ \A i, j \in 1 .. Len(q) : q[i].id = q[j].id => i = j
    /\ \A e, f \in T : e.id = f.id => e = f
    /\ \A s, t \in HandlingIn(r) : r[s].job.id = r[t].job.id => s = t
    /\ \A i \in 1 .. Len(q), e \in T : q[i].id # e.id
    /\ \A i \in 1 .. Len(q), s \in HandlingIn(r) : q[i].id # r[s].job.id
    /\ \A e \in T, s \in HandlingIn(r) : e.id # r[s].job.id

IdsIn(q, r, T) == QueuedIn(q) \cup DelayedIn(T) \cup HandledIn(r)

\* A scheduled retry has an attempt left.
TimersHaveAttempts == \A e \in timers : e.attempt < MaxAttempts

TypeInv == TypeOK /\ TimersHaveAttempts

Known(K, ids) == /\ ids \subseteq K
                 /\ phase = "open" => K \subseteq ids

\* Once closed the queue only waits for the jobs that run.
ClosedIsEmpty == /\ phase # "open" => waiting = <<>> /\ timers = {}
                 /\ phase = "closed" => FreeSlots(run) = Slots /\ known = {} /\ waiters = {}

QueueInv == HeldIn(waiting, run, timers) /\ Known(known, IdsIn(waiting, run, timers))

(***************************************************************************)
(* The pump.                                                               *)
(***************************************************************************)

\* pump starts the first n jobs, in order, each in a free slot of its own, and stops only
\* when the queue is empty or no slot is free.
Started(h, q, r, n, f) ==
    /\ \A i, j \in 1 .. n : f[i] = f[j] => i = j
    /\ waiting' \in Seq(EntryType)
    /\ Len(waiting') = Len(q) - n
    /\ \A i \in 1 .. Len(q) - n : waiting'[i] = q[n + i]
    /\ run' \in [Slots -> SlotType]
    /\ \A i \in 1 .. n : run'[f[i]] = Slot("handling", q[i])
    /\ \A s \in Slots : (\A i \in 1 .. n : f[i] # s) => run'[s] = r[s]
    /\ h /\ phase = "open" => waiting' = <<>> \/ FreeSlots(run') = {}

LEMMA PumpStarts ==
    ASSUME NEW h \in BOOLEAN, NEW q \in Seq(EntryType), NEW r \in [Slots -> SlotType],
           Pump(h, q, r)
    PROVE  \E n \in 0 .. Len(q) : \E f \in [1 .. n -> FreeSlots(r)] : Started(h, q, r, n, f)
<1>0. Len(q) \in Nat /\ \A i \in 1 .. Len(q) : q[i] \in EntryType
  BY LenProperties, ElementOfSeq
<1>1. CASE ~(h /\ phase = "open")
  <2>1. waiting' = q /\ run' = r
    BY <1>1 DEF Pump
  <2>2. [i \in 1 .. 0 |-> 0] \in [1 .. 0 -> FreeSlots(r)]
    OBVIOUS
  <2>3. QED
    <3>1. Started(h, q, r, 0, [i \in 1 .. 0 |-> 0])
      BY <1>0, <1>1, <2>1 DEF Started
    <3>2. 0 \in 0 .. Len(q)
      BY <1>0
    <3>3. QED
      BY <2>2, <3>1, <3>2, Zenon
<1>2. CASE h /\ phase = "open"
  <2> DEFINE P(n, f) ==
           /\ \A i, j \in 1 .. n : f[i] = f[j] => i = j
           /\ n = Len(q) \/ \A s \in FreeSlots(r) : \E i \in 1 .. n : f[i] = s
           /\ waiting' = SubSeq(q, n + 1, Len(q))
           /\ run' = [s \in Slots |->
                         IF \E i \in 1 .. n : f[i] = s
                         THEN Slot("handling", q[CHOOSE i \in 1 .. n : f[i] = s])
                         ELSE r[s]]
  <2>0. PICK n \in 0 .. Len(q) : \E f \in [1 .. n -> FreeSlots(r)] : P(n, f)
    BY <1>2 DEF Pump
  <2>1. PICK f \in [1 .. n -> FreeSlots(r)] : P(n, f)
    BY <2>0
  <2>2. /\ waiting' \in Seq(EntryType)
        /\ Len(waiting') = Len(q) - n
        /\ \A i \in 1 .. Len(q) - n : waiting'[i] = q[n + i]
    <3>1. \A i \in n + 1 .. Len(q) : q[i] \in EntryType
      BY <1>0
    <3>2. /\ SubSeq(q, n + 1, Len(q)) \in Seq(EntryType)
          /\ Len(SubSeq(q, n + 1, Len(q))) = IF n + 1 <= Len(q) THEN Len(q) - (n + 1) + 1 ELSE 0
          /\ \A i \in 1 .. Len(q) - (n + 1) + 1 : SubSeq(q, n + 1, Len(q))[i] = q[n + 1 + i - 1]
      BY <1>0, <3>1, SubSeqProperties
    <3>3. QED
      BY <1>0, <2>1, <3>2
  <2>3. \A i \in 1 .. n : run'[f[i]] = Slot("handling", q[i])
    <3> TAKE i \in 1 .. n
    <3>1. f[i] \in Slots
      BY DEF FreeSlots
    <3>2. (CHOOSE k \in 1 .. n : f[k] = f[i]) = i
      BY <2>1
    <3>3. QED
      BY <2>1, <3>1, <3>2
  <2>4. \A s \in Slots : (\A i \in 1 .. n : f[i] # s) => run'[s] = r[s]
    BY <2>1
  <2>5. run' \in [Slots -> SlotType]
    <3>1. \A i \in 1 .. n : Slot("handling", q[i]) \in SlotType
      BY <1>0 DEF Slot, SlotType
    <3>2. \A s \in Slots : run'[s] \in SlotType
      BY <2>3, <2>4, <3>1
    <3>3. QED
      BY <2>1, <3>2
  <2>6. waiting' = <<>> \/ FreeSlots(run') = {}
    <3>1. CASE n = Len(q)
      BY <2>2, <3>1, EmptySeq
    <3>2. CASE \A s \in FreeSlots(r) : \E i \in 1 .. n : f[i] = s
      <4>1. ASSUME NEW s \in Slots
            PROVE  run'[s].pc # "free"
        <5>1. CASE \E i \in 1 .. n : f[i] = s
          <6>1. PICK i \in 1 .. n : f[i] = s
            BY <5>1
          <6>2. run'[s] = Slot("handling", q[i])
            BY <2>3, <6>1
          <6>3. QED
            BY <6>2 DEF Slot
        <5>2. CASE ~\E i \in 1 .. n : f[i] = s
          BY <2>4, <3>2, <5>2 DEF FreeSlots
        <5>3. QED
          BY <5>1, <5>2
      <4>2. QED
        BY <4>1 DEF FreeSlots
    <3>3. QED
      BY <2>1, <3>1, <3>2
  <2>7. Started(h, q, r, n, f)
    BY <2>1, <2>2, <2>3, <2>4, <2>5, <2>6 DEF Started
  <2>8. QED
    BY <2>7
<1>3. QED
  BY <1>1, <1>2

\* It moves jobs from the queue to slots, and neither loses nor doubles one.
LEMMA PumpHolds ==
    ASSUME NEW h \in BOOLEAN, NEW q \in Seq(EntryType), NEW r \in [Slots -> SlotType],
           NEW T \in SUBSET EntryType, HeldIn(q, r, T), Pump(h, q, r)
    PROVE  HeldIn(waiting', run', T) /\ IdsIn(waiting', run', T) = IdsIn(q, r, T)
<1>0. Len(q) \in Nat
  BY LenProperties
<1>a. PICK n \in 0 .. Len(q) : \E f \in [1 .. n -> FreeSlots(r)] : Started(h, q, r, n, f)
  BY PumpStarts
<1>b. PICK f \in [1 .. n -> FreeSlots(r)] : Started(h, q, r, n, f)
  BY <1>a
<1>1. Started(h, q, r, n, f)
  BY <1>b
<1>2. \A i \in 1 .. n : f[i] \in HandlingIn(run') /\ run'[f[i]].job = q[i]
  <2> TAKE i \in 1 .. n
  <2>1. f[i] \in Slots
    BY DEF FreeSlots
  <2>2. run'[f[i]] = Slot("handling", q[i])
    BY <1>1 DEF Started
  <2>3. QED
    BY <2>1, <2>2 DEF HandlingIn, Slot
<1>3. \A s \in HandlingIn(r) : s \in HandlingIn(run') /\ run'[s] = r[s]
  BY <1>1 DEF Started, HandlingIn, FreeSlots
<1>4. \A s \in HandlingIn(run') : \/ \E i \in 1 .. n : f[i] = s
                                  \/ s \in HandlingIn(r)
  BY <1>1 DEF Started, HandlingIn
<1>5. \A i \in 1 .. Len(waiting') : n + i \in 1 .. Len(q) /\ waiting'[i] = q[n + i]
  BY <1>0, <1>1 DEF Started
\* What a slot handles after the pump it took from the queue or handled before.
<1>h. \A s \in HandlingIn(run') : \/ \E i \in 1 .. n : f[i] = s /\ run'[s].job = q[i]
                                  \/ s \in HandlingIn(r) /\ run'[s].job = r[s].job
  BY <1>2, <1>3, <1>4
<1>n. n \in Nat /\ n <= Len(q) /\ Len(waiting') = Len(q) - n
  BY <1>0, <1>1 DEF Started
<1>6. HeldIn(waiting', run', T)
  <2>1. ASSUME NEW i \in 1 .. Len(waiting'), NEW j \in 1 .. Len(waiting'),
               waiting'[i].id = waiting'[j].id
        PROVE  i = j
    <3>0. q[n + i].id = q[n + j].id /\ n + i \in 1 .. Len(q) /\ n + j \in 1 .. Len(q)
      BY <1>5, <2>1
    <3>1. n + i = n + j
      BY <3>0 DEF HeldIn
    <3>2. QED
      BY <1>0, <1>n, <3>1
  <2>2. ASSUME NEW s \in HandlingIn(run'), NEW t \in HandlingIn(run'),
               run'[s].job.id = run'[t].job.id
        PROVE  s = t
    <3>1. CASE \E i, j \in 1 .. n : /\ f[i] = s /\ run'[s].job = q[i]
                                    /\ f[j] = t /\ run'[t].job = q[j]
      <4>1. PICK i \in 1 .. n, j \in 1 .. n : /\ f[i] = s /\ run'[s].job = q[i]
                                              /\ f[j] = t /\ run'[t].job = q[j]
        BY <3>1
      <4>2. i \in 1 .. Len(q) /\ j \in 1 .. Len(q)
        BY <1>0, <1>n
      <4>3. QED
        BY <2>2, <4>1, <4>2 DEF HeldIn
    <3>2. CASE /\ s \in HandlingIn(r) /\ run'[s].job = r[s].job
               /\ t \in HandlingIn(r) /\ run'[t].job = r[t].job
      BY <2>2, <3>2 DEF HeldIn
    <3>3. \A i \in 1 .. n, u \in HandlingIn(r) : q[i].id # r[u].job.id
      BY <1>0, <1>n DEF HeldIn
    <3>4. QED
      BY <1>h, <2>2, <3>1, <3>2, <3>3
  <2>3. \A i \in 1 .. Len(waiting'), e \in T : waiting'[i].id # e.id
    BY <1>5 DEF HeldIn
  <2>4. ASSUME NEW i \in 1 .. Len(waiting'), NEW s \in HandlingIn(run')
        PROVE  waiting'[i].id # run'[s].job.id
    <3>1. n + i \in 1 .. Len(q) /\ waiting'[i] = q[n + i]
      BY <1>5
    <3>2. CASE \E k \in 1 .. n : f[k] = s /\ run'[s].job = q[k]
      <4>1. PICK k \in 1 .. n : run'[s].job = q[k]
        BY <3>2
      <4>2. k \in 1 .. Len(q) /\ k # n + i
        BY <1>0, <1>n
      <4>3. QED
        BY <3>1, <4>1, <4>2 DEF HeldIn
    <3>3. CASE s \in HandlingIn(r) /\ run'[s].job = r[s].job
      BY <3>1, <3>3 DEF HeldIn
    <3>4. QED
      BY <1>h, <3>2, <3>3
  <2>5. ASSUME NEW e \in T, NEW s \in HandlingIn(run')
        PROVE  e.id # run'[s].job.id
    <3>1. \A k \in 1 .. n : q[k].id # e.id
      BY <1>0, <1>n DEF HeldIn
    <3>2. QED
      BY <1>h, <3>1 DEF HeldIn
  <2>t. \A e, g \in T : e.id = g.id => e = g
    BY DEF HeldIn
  <2>6. QED
    BY <2>1, <2>2, <2>3, <2>4, <2>5, <2>t DEF HeldIn
<1>7. QueuedIn(waiting') \cup HandledIn(run') = QueuedIn(q) \cup HandledIn(r)
  <2>1. QueuedIn(waiting') \subseteq QueuedIn(q)
    BY <1>5 DEF QueuedIn
  <2>2. HandledIn(run') \subseteq QueuedIn(q) \cup HandledIn(r)
    <3>1. \A k \in 1 .. n : q[k].id \in QueuedIn(q)
      BY <1>0, <1>n DEF QueuedIn
    <3>2. QED
      BY <1>h, <3>1 DEF HandledIn
  <2>3. HandledIn(r) \subseteq HandledIn(run')
    BY <1>3 DEF HandledIn
  <2>4. QueuedIn(q) \subseteq QueuedIn(waiting') \cup HandledIn(run')
    <3>1. ASSUME NEW i \in 1 .. Len(q)
          PROVE  q[i].id \in QueuedIn(waiting') \cup HandledIn(run')
      <4>1. CASE i <= n
        BY <1>0, <1>2, <4>1 DEF HandledIn
      <4>2. CASE ~(i <= n)
        <5>0. i - n \in 1 .. Len(waiting') /\ n + (i - n) = i
          BY <1>0, <1>n, <4>2
        <5>1. waiting'[i - n] = q[i]
          BY <1>5, <5>0
        <5>2. QED
          BY <5>0, <5>1 DEF QueuedIn
      <4>3. QED
        BY <4>1, <4>2
    <3>2. QED
      BY <3>1 DEF QueuedIn
  <2>5. QED
    BY <2>1, <2>2, <2>3, <2>4
<1>8. QED
  BY <1>6, <1>7 DEF IdsIn

\* What the pump leaves is well typed, and it leaves no job beside a free slot.
LEMMA PumpTypes ==
    ASSUME NEW h \in BOOLEAN, NEW q \in Seq(EntryType), NEW r \in [Slots -> SlotType],
           Pump(h, q, r)
    PROVE  /\ waiting' \in Seq(EntryType) /\ run' \in [Slots -> SlotType]
           /\ h /\ phase = "open" => waiting' = <<>> \/ FreeSlots(run') = {}
           /\ phase # "open" => waiting' = q /\ run' = r
<1>1. PICK n \in 0 .. Len(q) : \E f \in [1 .. n -> FreeSlots(r)] : Started(h, q, r, n, f)
  BY PumpStarts
<1>2. phase # "open" => waiting' = q /\ run' = r
  BY DEF Pump
<1>3. QED
  BY <1>1, <1>2 DEF Started

(***************************************************************************)
(* The moves of a job: into the queue, into a timer, out of a timer, out   *)
(* of a slot.                                                              *)
(***************************************************************************)
LEMMA AppendHolds ==
    ASSUME NEW q \in Seq(EntryType), NEW r \in [Slots -> SlotType], NEW T \in SUBSET EntryType,
           HeldIn(q, r, T), NEW x \in EntryType, x.id \notin IdsIn(q, r, T)
    PROVE  /\ Append(q, x) \in Seq(EntryType)
           /\ HeldIn(Append(q, x), r, T)
           /\ IdsIn(Append(q, x), r, T) = IdsIn(q, r, T) \cup {x.id}
<1> DEFINE p == Append(q, x)
<1>1. /\ p \in Seq(EntryType) /\ Len(q) \in Nat /\ Len(p) = Len(q) + 1
      /\ \A i \in 1 .. Len(q) : p[i] = q[i]
      /\ p[Len(q) + 1] = x
  BY AppendProperties, LenProperties
<1> HIDE DEF p
<1>2. \A i \in 1 .. Len(p) : \/ i \in 1 .. Len(q) /\ p[i] = q[i]
                             \/ i = Len(p) /\ p[i] = x
  <2> TAKE i \in 1 .. Len(p)
  <2>1. i \in 1 .. Len(q) \/ i = Len(q) + 1
    BY <1>1
  <2>2. CASE i \in 1 .. Len(q)
    BY <1>1, <2>2
  <2>3. CASE i = Len(q) + 1
    BY <1>1, <2>3
  <2>4. QED
    BY <2>1, <2>2, <2>3
<1>3. /\ \A i \in 1 .. Len(q) : q[i].id # x.id
      /\ \A e \in T : e.id # x.id
      /\ \A s \in HandlingIn(r) : r[s].job.id # x.id
  BY DEF IdsIn, QueuedIn, DelayedIn, HandledIn
<1>4. HeldIn(p, r, T)
  <2>1. \A i, j \in 1 .. Len(p) : p[i].id = p[j].id => i = j
    BY <1>2, <1>3 DEF HeldIn
  <2>2. \A i \in 1 .. Len(p), e \in T : p[i].id # e.id
    BY <1>2, <1>3 DEF HeldIn
  <2>3. \A i \in 1 .. Len(p), s \in HandlingIn(r) : p[i].id # r[s].job.id
    BY <1>2, <1>3 DEF HeldIn
  <2>4. QED
    BY <2>1, <2>2, <2>3 DEF HeldIn
<1>5. QueuedIn(p) = QueuedIn(q) \cup {x.id}
  <2>1. QueuedIn(p) \subseteq QueuedIn(q) \cup {x.id}
    BY <1>2 DEF QueuedIn
  <2>2. \A i \in 1 .. Len(q) : q[i].id \in QueuedIn(p)
    <3> TAKE i \in 1 .. Len(q)
    <3>1. i \in 1 .. Len(p) /\ p[i] = q[i]
      BY <1>1
    <3>2. QED
      BY <3>1 DEF QueuedIn
  <2>3. Len(p) \in 1 .. Len(p) /\ p[Len(p)] = x
    BY <1>1
  <2>4. x.id \in QueuedIn(p)
    BY <2>3 DEF QueuedIn
  <2>5. QED
    BY <2>1, <2>2, <2>4 DEF QueuedIn
<1>6. p \in Seq(EntryType) /\ HeldIn(p, r, T) /\ IdsIn(p, r, T) = IdsIn(q, r, T) \cup {x.id}
  BY <1>1, <1>4, <1>5 DEF IdsIn
<1>7. QED
  BY <1>6 DEF p

LEMMA DelayHolds ==
    ASSUME NEW q \in Seq(EntryType), NEW r \in [Slots -> SlotType], NEW T \in SUBSET EntryType,
           HeldIn(q, r, T), NEW x \in EntryType, x.id \notin IdsIn(q, r, T),
           NEW U, U = T \cup {x}
    PROVE  HeldIn(q, r, U) /\ IdsIn(q, r, U) = IdsIn(q, r, T) \cup {x.id}
<1>1. /\ \A i \in 1 .. Len(q) : q[i].id # x.id
      /\ \A e \in T : e.id # x.id
      /\ \A s \in HandlingIn(r) : r[s].job.id # x.id
  BY DEF IdsIn, QueuedIn, DelayedIn, HandledIn
<1>2. HeldIn(q, r, U)
  BY <1>1 DEF HeldIn
<1>3. DelayedIn(U) = DelayedIn(T) \cup {x.id}
  BY DEF DelayedIn
<1>4. QED
  BY <1>2, <1>3 DEF IdsIn

LEMMA UndelayHolds ==
    ASSUME NEW q \in Seq(EntryType), NEW r \in [Slots -> SlotType], NEW T \in SUBSET EntryType,
           HeldIn(q, r, T), NEW x \in T, NEW U, U = T \ {x}
    PROVE  HeldIn(q, r, U) /\ IdsIn(q, r, U) = IdsIn(q, r, T) \ {x.id}
<1>1. HeldIn(q, r, U)
  BY DEF HeldIn
<1>2. DelayedIn(U) = DelayedIn(T) \ {x.id}
  BY DEF HeldIn, DelayedIn
<1>3. x.id \notin QueuedIn(q) /\ x.id \notin HandledIn(r)
  BY DEF HeldIn, QueuedIn, HandledIn
<1>4. QED
  BY <1>1, <1>2, <1>3 DEF IdsIn

LEMMA SettleHolds ==
    ASSUME NEW q \in Seq(EntryType), NEW r \in [Slots -> SlotType], NEW T \in SUBSET EntryType,
           HeldIn(q, r, T), NEW s \in HandlingIn(r),
           NEW p \in [Slots -> SlotType], p[s].pc = "settled",
           \A t \in Slots \ {s} : p[t] = r[t]
    PROVE  HeldIn(q, p, T) /\ IdsIn(q, p, T) = IdsIn(q, r, T) \ {r[s].job.id}
<1>1. HandlingIn(p) = HandlingIn(r) \ {s} /\ \A t \in HandlingIn(p) : p[t] = r[t]
  BY DEF HandlingIn
<1>2. HeldIn(q, p, T)
  BY <1>1 DEF HeldIn
<1>3. HandledIn(p) = HandledIn(r) \ {r[s].job.id}
  BY <1>1 DEF HandledIn, HeldIn
<1>4. r[s].job.id \notin QueuedIn(q) /\ r[s].job.id \notin DelayedIn(T)
  BY DEF HeldIn, QueuedIn, DelayedIn
<1>5. QED
  BY <1>2, <1>3, <1>4 DEF IdsIn

\* What Settle does to the slots.
LEMMA SettleSlots ==
    ASSUME run \in [Slots -> SlotType], NEW s \in Slots, run[s].pc = "handling", Settle(s)
    PROVE  /\ run' \in [Slots -> SlotType] /\ run'[s].pc = "settled"
           /\ \A t \in Slots \ {s} : run'[t] = run[t]
<1>1. \A t \in Slots : run'[t] = IF t = s THEN [run[s] EXCEPT !.pc = "settled"] ELSE run[t]
  BY DEF Settle
<1>2. run[s] \in [pc : {"handling", "settled"}, job : EntryType]
  BY DEF SlotType, Free, Slot
<1>3. [run[s] EXCEPT !.pc = "settled"] \in SlotType
  BY <1>2 DEF SlotType
<1>4. QED
  BY <1>1, <1>2, <1>3 DEF Settle

(***************************************************************************)
(* The invariant.                                                          *)
(***************************************************************************)
IInv == TypeInv /\ QueueInv /\ NoIdleSlot /\ ClosedIsEmpty

LEMMA IInvInit == Init => IInv
<1> SUFFICES ASSUME Init
             PROVE  IInv
  OBVIOUS
<1>1. TypeInv
  <2>1. waiting \in Seq(EntryType)
    BY EmptySeq DEF Init
  <2>2. run \in [Slots -> SlotType]
    BY DEF Init, SlotType
  <2>3. handler \in BOOLEAN /\ phase \in {"open", "closing", "closed"} /\ adds \in 0 .. MaxAdds
    <3>1. handler \in BOOLEAN /\ phase = "open"
      BY Zenon DEF Init
    <3>2. adds \in 0 .. MaxAdds
      BY AddsAssumption DEF Init
    <3>3. QED
      BY <3>1, <3>2
  <2>4. known = {} /\ timers = {} /\ waiters = {}
    BY DEF Init
  <2>5. QED
    BY <2>1, <2>2, <2>3, <2>4 DEF TypeInv, TypeOK, TimersHaveAttempts
<1>2. HandlingIn(run) = {} /\ Len(waiting) = 0 /\ timers = {} /\ known = {}
  BY EmptySeq DEF Init, HandlingIn, Free, Slot
<1>3. QueueInv
  BY <1>2 DEF QueueInv, HeldIn, IdsIn, Known, QueuedIn, DelayedIn, HandledIn
<1>4. NoIdleSlot /\ ClosedIsEmpty
  BY DEF Init, NoIdleSlot, ClosedIsEmpty
<1>5. QED
  BY <1>1, <1>3, <1>4 DEF IInv

LEMMA IInvStep == IInv /\ [Next]_vars => IInv'
<1> SUFFICES ASSUME IInv, [Next]_vars
             PROVE  IInv'
  OBVIOUS
<1>t. /\ waiting \in Seq(EntryType) /\ timers \in SUBSET EntryType
      /\ run \in [Slots -> SlotType] /\ handler \in BOOLEAN
      /\ known \in SUBSET Ids /\ waiters \in SUBSET Callers /\ adds \in 0 .. MaxAdds
      /\ HeldIn(waiting, run, timers) /\ Known(known, IdsIn(waiting, run, timers))
      /\ TypeOK /\ TimersHaveAttempts /\ NoIdleSlot /\ ClosedIsEmpty
  BY DEF IInv, TypeInv, TypeOK, QueueInv
\* Of a step that pumps only its own changes are left to be looked at.
<1>p. ASSUME NEW h \in BOOLEAN, NEW q \in Seq(EntryType), NEW r \in [Slots -> SlotType],
             Pump(h, q, r), handler' = h, phase' = phase,
             phase # "open" => q = <<>> /\ timers' = {},
             phase = "closed" => FreeSlots(r) = Slots /\ known' = {} /\ waiters' = {},
             timers' \in SUBSET EntryType, HeldIn(q, r, timers'),
             Known(known', IdsIn(q, r, timers')),
             known' \in SUBSET Ids, waiters' \in SUBSET Callers, adds' \in 0 .. MaxAdds,
             TimersHaveAttempts'
      PROVE  IInv'
  <2>1. /\ waiting' \in Seq(EntryType) /\ run' \in [Slots -> SlotType]
        /\ h /\ phase = "open" => waiting' = <<>> \/ FreeSlots(run') = {}
        /\ phase # "open" => waiting' = q /\ run' = r
    BY <1>p, PumpTypes
  <2>2. HeldIn(waiting', run', timers') /\ IdsIn(waiting', run', timers') = IdsIn(q, r, timers')
    BY <1>p, PumpHolds
  <2>3. TypeInv'
    BY <1>p, <1>t, <2>1 DEF TypeInv, TypeOK
  <2>4. QueueInv'
    BY <1>p, <2>2 DEF QueueInv, Known, HeldIn, HandlingIn, IdsIn, QueuedIn, DelayedIn, HandledIn
  <2>5. NoIdleSlot' /\ ClosedIsEmpty'
    BY <1>p, <2>1 DEF NoIdleSlot, ClosedIsEmpty, FreeSlots
  <2>6. QED
    BY <2>3, <2>4, <2>5 DEF IInv
\* A slot that stops handling its job stays taken, and its id is gone from the held ones.
<1>s. ASSUME NEW s \in Slots, run[s].pc = "handling", Settle(s),
             UNCHANGED <<handler, phase, waiting, waiters, adds>>
      PROVE  LET job == run[s].job IN
             /\ job \in EntryType
             /\ HeldIn(waiting, run', timers)
             /\ IdsIn(waiting, run', timers) = IdsIn(waiting, run, timers) \ {job.id}
             /\ phase # "closed"
             /\ (/\ timers' \in SUBSET EntryType /\ TimersHaveAttempts' /\ known' \in SUBSET Ids
                 /\ phase # "open" => timers' = timers
                 /\ HeldIn(waiting, run', timers')
                 /\ Known(known', IdsIn(waiting, run', timers'))) => IInv'
  <2> DEFINE job == run[s].job
  <2>0. s \in HandlingIn(run)
    BY <1>s DEF HandlingIn
  <2>1. /\ run' \in [Slots -> SlotType]
        /\ HeldIn(waiting, run', timers)
        /\ IdsIn(waiting, run', timers) = IdsIn(waiting, run, timers) \ {job.id}
    <3>1. /\ run' \in [Slots -> SlotType] /\ run'[s].pc = "settled"
          /\ \A t \in Slots \ {s} : run'[t] = run[t]
      BY <1>s, <1>t, SettleSlots
    <3>2. QED
      BY <1>t, <2>0, <3>1, SettleHolds
  <2>2. job \in EntryType
    BY <1>s, <1>t DEF SlotType, Free, Slot
  <2>3. FreeSlots(run') = FreeSlots(run) /\ FreeSlots(run) # Slots
    <3>1. \A t \in Slots : run'[t].pc = IF t = s THEN "settled" ELSE run[t].pc
      BY <1>s, <1>t DEF Settle, SlotType, Free, Slot
    <3>2. QED
      BY <1>s, <3>1 DEF FreeSlots
  <2>4. phase # "closed"
    BY <1>t, <2>3 DEF ClosedIsEmpty
  <2>5. ASSUME timers' \in SUBSET EntryType, TimersHaveAttempts', known' \in SUBSET Ids,
               phase # "open" => timers' = timers,
               HeldIn(waiting, run', timers'), Known(known', IdsIn(waiting, run', timers'))
        PROVE  IInv'
    <3>1. TypeInv'
      BY <1>s, <1>t, <2>1, <2>5 DEF TypeInv, TypeOK
    <3>2. QueueInv'
      BY <1>s, <2>5
         DEF QueueInv, Known, HeldIn, HandlingIn, IdsIn, QueuedIn, DelayedIn, HandledIn
    <3>3. NoIdleSlot' /\ ClosedIsEmpty'
      BY <1>s, <1>t, <2>3, <2>4, <2>5 DEF NoIdleSlot, ClosedIsEmpty, FreeSlots
    <3>4. QED
      BY <3>1, <3>2, <3>3 DEF IInv
  <2>6. QED
    BY <2>1, <2>2, <2>4, <2>5
<1>1. CASE Process
  <2>1. /\ Pump(TRUE, waiting, run) /\ handler' = TRUE
        /\ UNCHANGED <<phase, known, timers, waiters, adds>>
    BY <1>1 DEF Process
  <2>2. TimersHaveAttempts'
    BY <1>t, <2>1 DEF TimersHaveAttempts
  <2>3. QED
    BY <1>p, <1>t, <2>1, <2>2 DEF ClosedIsEmpty
<1>2. ASSUME NEW id \in Ids, Add(id)
      PROVE  IInv'
  <2> DEFINE x == Entry(id, 1)
  <2>1. /\ phase = "open" /\ id \notin known /\ adds < MaxAdds
        /\ known' = known \cup {id} /\ adds' = adds + 1
        /\ Pump(handler, Append(waiting, x), run)
        /\ UNCHANGED <<handler, phase, timers, waiters>>
    BY <1>2 DEF Add
  <2>2. x \in EntryType /\ x.id = id
    BY AttemptsAssumption DEF Entry, EntryType
  <2>3. id \notin IdsIn(waiting, run, timers)
    BY <1>t, <2>1 DEF Known
  <2> HIDE DEF x
  <2>4. /\ Append(waiting, x) \in Seq(EntryType)
        /\ HeldIn(Append(waiting, x), run, timers)
        /\ IdsIn(Append(waiting, x), run, timers) = IdsIn(waiting, run, timers) \cup {id}
    BY <1>t, <2>2, <2>3, AppendHolds
  <2>5. Known(known', IdsIn(Append(waiting, x), run, timers))
    BY <1>t, <2>1, <2>4 DEF Known
  <2>6. TimersHaveAttempts' /\ adds' \in 0 .. MaxAdds
    BY <1>t, <2>1, AddsAssumption DEF TimersHaveAttempts
  <2>7. timers' = timers /\ known' \in SUBSET Ids /\ waiters' \in SUBSET Callers
    BY <1>t, <2>1
  <2>8. QED
    BY <1>p, <1>t, <2>1, <2>4, <2>5, <2>6, <2>7
<1>3. ASSUME NEW c \in Callers, OnIdle(c)
      PROVE  IInv'
  <2>1. /\ waiters' = waiters \cup {c} /\ known # {}
        /\ UNCHANGED <<handler, phase, waiting, known, timers, run, adds>>
    BY <1>3 DEF OnIdle
  <2>2. TypeInv'
    BY <1>t, <2>1 DEF TypeInv, TypeOK, TimersHaveAttempts
  <2>3. QueueInv'
    BY <1>t, <2>1 DEF QueueInv, Known, HeldIn, HandlingIn, IdsIn, QueuedIn, DelayedIn, HandledIn
  <2>4. NoIdleSlot' /\ ClosedIsEmpty'
    BY <1>t, <2>1 DEF NoIdleSlot, ClosedIsEmpty, FreeSlots
  <2>5. QED
    BY <2>2, <2>3, <2>4 DEF IInv
<1>4. CASE Close
  <2>1. /\ phase' = "closing" /\ timers' = {} /\ waiting' = <<>>
        /\ UNCHANGED <<handler, known, run, waiters, adds>>
    BY <1>4 DEF Close
  <2>2. TypeInv'
    BY <1>t, <2>1, EmptySeq DEF TypeInv, TypeOK, TimersHaveAttempts
  <2>3. Len(waiting') = 0
    BY <2>1, EmptySeq
  <2>4. QueueInv'
    BY <1>t, <2>1, <2>3
       DEF QueueInv, Known, HeldIn, HandlingIn, IdsIn, QueuedIn, DelayedIn, HandledIn
  <2>5. NoIdleSlot' /\ ClosedIsEmpty'
    BY <2>1 DEF NoIdleSlot, ClosedIsEmpty
  <2>6. QED
    BY <2>2, <2>4, <2>5 DEF IInv
<1>5. CASE CloseDone
  <2>1. /\ phase = "closing" /\ phase' = "closed" /\ FreeSlots(run) = Slots
        /\ known' = {} /\ waiters' = {}
        /\ UNCHANGED <<handler, waiting, timers, run, adds>>
    BY <1>5 DEF CloseDone
  <2>2. TypeInv'
    BY <1>t, <2>1 DEF TypeInv, TypeOK, TimersHaveAttempts
  <2>3. waiting = <<>> /\ timers = {} /\ Len(waiting) = 0 /\ HandlingIn(run) = {}
    BY <1>t, <2>1, EmptySeq DEF ClosedIsEmpty, FreeSlots, HandlingIn
  <2>4. QueueInv'
    BY <1>t, <2>1, <2>3
       DEF QueueInv, Known, HeldIn, HandlingIn, IdsIn, QueuedIn, DelayedIn, HandledIn
  <2>5. NoIdleSlot' /\ ClosedIsEmpty'
    BY <2>1, <2>3 DEF NoIdleSlot, ClosedIsEmpty, FreeSlots
  <2>6. QED
    BY <2>2, <2>4, <2>5 DEF IInv
<1>6. ASSUME NEW s \in Slots, HandlerReturns(s)
      PROVE  IInv'
  <2>1. /\ run[s].pc = "handling" /\ known' = known \ {run[s].job.id} /\ Settle(s)
        /\ UNCHANGED <<handler, phase, waiting, timers, waiters, adds>>
    BY <1>6 DEF HandlerReturns
  <2>2. Known(known', IdsIn(waiting, run', timers'))
    BY <1>s, <1>t, <2>1 DEF Known
  <2>3. TimersHaveAttempts'
    BY <1>t, <2>1 DEF TimersHaveAttempts
  <2>4. QED
    BY <1>s, <1>t, <2>1, <2>2, <2>3
<1>7. ASSUME NEW s \in Slots, NEW retryable \in BOOLEAN, HandlerThrows(s, retryable)
      PROVE  IInv'
  <2> DEFINE job == run[s].job
  <2>1. /\ run[s].pc = "handling" /\ Settle(s)
        /\ UNCHANGED <<handler, phase, waiting, waiters, adds>>
    BY <1>7 DEF HandlerThrows
  <2>2. /\ job \in EntryType /\ HeldIn(waiting, run', timers)
        /\ IdsIn(waiting, run', timers) = IdsIn(waiting, run, timers) \ {job.id}
    BY <1>s, <2>1
  <2>3. run' \in [Slots -> SlotType]
    BY <1>t, <2>1, SettleSlots
  <2>4. CASE phase = "open" /\ retryable /\ job.attempt < MaxAttempts
    <3>1. timers' = timers \cup {job} /\ known' = known
      BY <1>7, <2>4 DEF HandlerThrows
    <3>2. job.id \in IdsIn(waiting, run, timers)
      BY <2>1 DEF IdsIn, HandledIn, HandlingIn
    <3>3. /\ HeldIn(waiting, run', timers')
          /\ IdsIn(waiting, run', timers') = IdsIn(waiting, run', timers) \cup {job.id}
      <4>1. job.id \notin IdsIn(waiting, run', timers)
        BY <2>2
      <4> HIDE DEF job
      <4>2. QED
        BY <1>t, <2>2, <2>3, <3>1, <4>1, DelayHolds
    <3>4. IdsIn(waiting, run', timers') = IdsIn(waiting, run, timers)
      BY <2>2, <3>2, <3>3
    <3>5. Known(known', IdsIn(waiting, run', timers'))
      BY <1>t, <3>1, <3>4 DEF Known
    <3>6. TimersHaveAttempts' /\ timers' \in SUBSET EntryType
      BY <1>t, <2>2, <2>4, <3>1 DEF TimersHaveAttempts
    <3>7. QED
      BY <1>s, <1>t, <2>1, <2>4, <3>1, <3>3, <3>5, <3>6
  <2>5. CASE ~(phase = "open" /\ retryable /\ job.attempt < MaxAttempts)
    <3>1. known' = known \ {job.id} /\ timers' = timers
      BY <1>7, <2>5 DEF HandlerThrows
    <3>2. Known(known', IdsIn(waiting, run', timers'))
      BY <1>t, <2>2, <3>1 DEF Known
    <3>3. TimersHaveAttempts'
      BY <1>t, <3>1 DEF TimersHaveAttempts
    <3>4. QED
      BY <1>s, <1>t, <2>1, <2>2, <3>1, <3>2, <3>3
  <2>6. QED
    BY <2>4, <2>5
<1>8. ASSUME NEW s \in Slots, Finally(s)
      PROVE  IInv'
  <2> DEFINE r == [run EXCEPT ![s] = Free]
  <2>1. /\ run[s].pc = "settled" /\ Pump(handler, waiting, r)
        /\ waiters' = IF known = {} THEN {} ELSE waiters
        /\ UNCHANGED <<handler, phase, known, timers, adds>>
    BY <1>8 DEF Finally
  <2>2. r \in [Slots -> SlotType]
    BY <1>t DEF SlotType
  <2>3. HandlingIn(r) = HandlingIn(run) /\ \A t \in HandlingIn(r) : r[t] = run[t]
    BY <1>t, <2>1 DEF HandlingIn, Free, Slot
  <2>4. phase # "closed"
    BY <1>t, <2>1 DEF ClosedIsEmpty, FreeSlots
  <2> HIDE DEF r
  <2>5. HeldIn(waiting, r, timers) /\ IdsIn(waiting, r, timers) = IdsIn(waiting, run, timers)
    BY <1>t, <2>3 DEF HeldIn, IdsIn, HandledIn
  <2>6. TimersHaveAttempts' /\ waiters' \in SUBSET Callers
    BY <1>t, <2>1 DEF TimersHaveAttempts
  <2>7. phase # "open" => waiting = <<>> /\ timers = {}
    BY <1>t DEF ClosedIsEmpty
  <2>8. QED
    BY <1>p, <1>t, <2>1, <2>2, <2>4, <2>5, <2>6, <2>7
<1>9. ASSUME NEW e \in timers, TimerFires(e)
      PROVE  IInv'
  <2> DEFINE x == Entry(e.id, e.attempt + 1)
  <2>1. /\ timers' = timers \ {e} /\ Pump(handler, Append(waiting, x), run)
        /\ UNCHANGED <<handler, phase, known, waiters, adds>>
    BY <1>9 DEF TimerFires
  <2>2. x \in EntryType /\ x.id = e.id
    BY <1>t, AttemptsAssumption DEF Entry, EntryType, TimersHaveAttempts
  <2>3. phase = "open"
    BY <1>t DEF ClosedIsEmpty
  <2>4. /\ HeldIn(waiting, run, timers')
        /\ IdsIn(waiting, run, timers') = IdsIn(waiting, run, timers) \ {e.id}
        /\ e.id \in IdsIn(waiting, run, timers)
    <3>1. e.id \in IdsIn(waiting, run, timers)
      BY DEF IdsIn, DelayedIn
    <3>2. QED
      BY <1>t, <2>1, <3>1, UndelayHolds
  <2> HIDE DEF x
  <2>5. /\ Append(waiting, x) \in Seq(EntryType)
        /\ HeldIn(Append(waiting, x), run, timers')
        /\ IdsIn(Append(waiting, x), run, timers') = IdsIn(waiting, run, timers') \cup {e.id}
    <3>1. x.id \notin IdsIn(waiting, run, timers') /\ timers' \in SUBSET EntryType
      BY <1>t, <2>1, <2>2, <2>4
    <3>2. QED
      BY <1>t, <2>2, <2>4, <3>1, AppendHolds
  <2>6. Known(known', IdsIn(Append(waiting, x), run, timers'))
    BY <1>t, <2>1, <2>4, <2>5 DEF Known
  <2>7. TimersHaveAttempts' /\ timers' \in SUBSET EntryType
    BY <1>t, <2>1 DEF TimersHaveAttempts
  <2>8. QED
    BY <1>p, <1>t, <2>1, <2>3, <2>5, <2>6, <2>7
<1>10. CASE UNCHANGED vars
  BY <1>t, <1>10
     DEF vars, IInv, TypeInv, TypeOK, TimersHaveAttempts, QueueInv, NoIdleSlot, ClosedIsEmpty,
         Known, HeldIn, HandlingIn, IdsIn, QueuedIn, DelayedIn, HandledIn, FreeSlots
<1>11. QED
  BY <1>1, <1>2, <1>3, <1>4, <1>5, <1>6, <1>7, <1>8, <1>9, <1>10 DEF Next

\* The invariant says what the properties of MemoryQueue say.
LEMMA IInvImplies == IInv => TypeOK /\ HeldOnce /\ NoIdleSlot
<1> SUFFICES ASSUME IInv
             PROVE  HeldOnce
  BY DEF IInv, TypeInv
<1>1. /\ DOMAIN waiting = 1 .. Len(waiting) /\ Handling = HandlingIn(run)
      /\ Queued = QueuedIn(waiting) /\ Delayed = DelayedIn(timers)
      /\ Handled = HandledIn(run)
  BY LenProperties
     DEF IInv, TypeInv, TypeOK, Handling, HandlingIn, Queued, QueuedIn, Delayed, DelayedIn,
         Handled, HandledIn
<1>2. HeldIn(waiting, run, timers) /\ Known(known, IdsIn(waiting, run, timers))
  BY DEF IInv, QueueInv
<1>3. WaitsOnce /\ DelaysOnce /\ RunsOnce
  BY <1>1, <1>2 DEF WaitsOnce, DelaysOnce, RunsOnce, HeldIn
<1>4. OnePlace
  BY <1>1, <1>2 DEF OnePlace, HeldIn, QueuedIn, DelayedIn, HandledIn
<1>5. KnownHeld
  BY <1>1, <1>2 DEF KnownHeld, Known, IdsIn
<1>6. QED
  BY <1>3, <1>4, <1>5 DEF HeldOnce

LEMMA IInvHolds == Spec => []IInv
  BY IInvInit, IInvStep, PTL DEF Spec

\* The variables keep their types: attempts of a job are numbered up to the limit of its
\* queue (execute, memory-queue.ts:113-130).
THEOREM TypeCorrect == Spec => []TypeOK
  BY IInvHolds, IInvImplies, PTL

\* `known` is exactly what is waiting, running or scheduled for a retry, each job once, so
\* that add refuses what is pending and nothing else (memory-queue.ts:36 and 57).
THEOREM HeldOnceHolds == Spec => []HeldOnce
  BY IInvHolds, IInvImplies, PTL

\* No job waits beside a free slot (pump and those who call it, memory-queue.ts:90-100).
THEOREM NoIdleSlotHolds == Spec => []NoIdleSlot
  BY IInvHolds, IInvImplies, PTL

\* Nothing is held when nothing is known.
LEMMA UnknownIsQuiet == IInv /\ known = {} => Quiet
<1> SUFFICES ASSUME IInv, known = {}
             PROVE  Quiet
  OBVIOUS
<1>1. QueuedIn(waiting) = {} /\ DelayedIn(timers) = {} /\ HandledIn(run) = {}
  BY DEF IInv, QueueInv, Known, IdsIn
<1>2. timers = {} /\ Handling = {}
  BY <1>1 DEF DelayedIn, HandledIn, HandlingIn, Handling
<1>3. waiting \in Seq(EntryType)
  BY DEF IInv, TypeInv, TypeOK
<1>4. Len(waiting) = 0
  <2>1. ~(1 \in 1 .. Len(waiting))
    BY <1>1 DEF QueuedIn
  <2>2. QED
    BY <1>3, <2>1, LenProperties
<1>5. QED
  BY <1>2, <1>3, <1>4, EmptySeq DEF Quiet

\* onIdle resolves only when nothing waits, runs or is scheduled (memory-queue.ts:73 and 96).
THEOREM IdleMeansIdleHolds == Spec => IdleMeansIdle
<1>0. (IInv /\ known = {} => Quiet)'
  BY UnknownIsQuiet, PTL
<1>1. IInv /\ IInv' /\ [Next]_vars => [waiters \subseteq waiters' \/ Quiet']_vars
  <2> SUFFICES ASSUME IInv, IInv', Next
               PROVE  waiters \subseteq waiters' \/ Quiet'
    OBVIOUS
  <2>1. known' = {} => Quiet'
    BY <1>0
  <2>2. waiters \subseteq waiters' \/ known' = {}
    BY DEF Next, Process, Add, OnIdle, Close, CloseDone, HandlerReturns, HandlerThrows, Finally,
           TimerFires
  <2>3. QED
    BY <2>1, <2>2
<1>2. QED
  BY <1>1, IInvHolds, PTL DEF Spec, IdleMeansIdle

(***************************************************************************)
(* The queue implements JobQueue.                                          *)
(***************************************************************************)

\* st and tr are the abstract state of the queue q, the slots r and the timers T.
Represents(st, tr, q, r, T) ==
    /\ st \in [Ids -> {"absent", "pending", "running"}]
    /\ tr \in [Ids -> Nat]
    /\ \A i \in 1 .. Len(q) : st[q[i].id] = "pending" /\ tr[q[i].id] = q[i].attempt - 1
    /\ \A e \in T : st[e.id] = "pending" /\ tr[e.id] = e.attempt
    /\ \A s \in HandlingIn(r) : st[r[s].job.id] = "running" /\ tr[r[s].job.id] = r[s].job.attempt
    /\ \A id \in Ids \ IdsIn(q, r, T) : st[id] = "absent" /\ tr[id] = 0

\* A queue in which every job is in one place has one abstract state: the refinement
\* mapping of MemoryQueue.
LEMMA MappingRepresents ==
    ASSUME TypeOK, HeldIn(waiting, run, timers)
    PROVE  Represents(JobState, JobTries, waiting, run, timers)
<1>0. /\ DOMAIN waiting = 1 .. Len(waiting) /\ Handling = HandlingIn(run)
      /\ Queued = QueuedIn(waiting) /\ Delayed = DelayedIn(timers)
      /\ Handled = HandledIn(run)
  BY LenProperties
     DEF TypeOK, Handling, HandlingIn, Queued, QueuedIn, Delayed, DelayedIn, Handled, HandledIn
<1>1. /\ \A i \in 1 .. Len(waiting) : waiting[i] \in EntryType
      /\ \A e \in timers : e \in EntryType
      /\ \A s \in HandlingIn(run) : run[s].job \in EntryType
  BY ElementOfSeq DEF TypeOK, HandlingIn, SlotType, Free, Slot
<1>2. /\ \A id \in Ids : JobState[id] = State(id)
      /\ \A id \in Ids : JobTries[id] = Tries(id)
  BY DEF JobState, JobTries
<1>3. ASSUME NEW i \in 1 .. Len(waiting)
      PROVE  State(waiting[i].id) = "pending" /\ Tries(waiting[i].id) = waiting[i].attempt - 1
  <2>1. waiting[i].id \in Queued /\ waiting[i].id \notin Delayed /\ waiting[i].id \notin Handled
    BY <1>0 DEF QueuedIn, DelayedIn, HandledIn, HeldIn
  <2>2. (CHOOSE k \in DOMAIN waiting : waiting[k].id = waiting[i].id) = i
    BY <1>0 DEF HeldIn
  <2>3. QED
    BY <2>1, <2>2 DEF State, Tries
<1>4. ASSUME NEW e \in timers
      PROVE  State(e.id) = "pending" /\ Tries(e.id) = e.attempt
  <2>1. e.id \in Delayed /\ e.id \notin Handled
    BY <1>0 DEF DelayedIn, HandledIn, HeldIn
  <2>2. (CHOOSE f \in timers : f.id = e.id) = e
    BY DEF HeldIn
  <2>3. QED
    BY <2>1, <2>2 DEF State, Tries
<1>5. ASSUME NEW s \in HandlingIn(run)
      PROVE  State(run[s].job.id) = "running" /\ Tries(run[s].job.id) = run[s].job.attempt
  <2>1. run[s].job.id \in Handled
    BY <1>0 DEF HandledIn
  <2>2. (CHOOSE t \in Handling : run[t].job.id = run[s].job.id) = s
    BY <1>0 DEF HeldIn
  <2>3. QED
    BY <2>1, <2>2 DEF State, Tries
<1>6. ASSUME NEW id \in Ids \ IdsIn(waiting, run, timers)
      PROVE  State(id) = "absent" /\ Tries(id) = 0
  BY <1>0 DEF State, Tries, IdsIn
<1>7. \A id \in Ids : State(id) \in {"absent", "pending", "running"} /\ Tries(id) \in Nat
  <2> TAKE id \in Ids
  <2>1. State(id) \in {"absent", "pending", "running"}
    BY DEF State
  <2>2. CASE id \in IdsIn(waiting, run, timers)
    <3>1. \/ \E i \in 1 .. Len(waiting) : waiting[i].id = id
          \/ \E e \in timers : e.id = id
          \/ \E s \in HandlingIn(run) : run[s].job.id = id
      BY <2>2 DEF IdsIn, QueuedIn, DelayedIn, HandledIn
    <3>2. QED
      BY <1>1, <1>3, <1>4, <1>5, <2>1, <3>1 DEF EntryType
  <2>3. QED
    BY <1>6, <2>1, <2>2
<1>8. QED
  <2>1. JobState \in [Ids -> {"absent", "pending", "running"}] /\ JobTries \in [Ids -> Nat]
    BY <1>7 DEF JobState, JobTries
  <2>2. \A x \in EntryType : x.id \in Ids
    BY DEF EntryType
  <2>3. QED
    BY <1>1, <1>2, <1>3, <1>4, <1>5, <1>6, <2>1, <2>2 DEF Represents

\* The abstract state is determined by the queue.
LEMMA RepresentsUnique ==
    ASSUME NEW q, NEW r, NEW T, NEW st1, NEW tr1, NEW st2, NEW tr2,
           Represents(st1, tr1, q, r, T), Represents(st2, tr2, q, r, T)
    PROVE  st1 = st2 /\ tr1 = tr2
<1>1. ASSUME NEW id \in Ids
      PROVE  st1[id] = st2[id] /\ tr1[id] = tr2[id]
  <2>1. CASE id \in IdsIn(q, r, T)
    <3>1. \/ \E i \in 1 .. Len(q) : q[i].id = id
          \/ \E e \in T : e.id = id
          \/ \E s \in HandlingIn(r) : r[s].job.id = id
      BY <2>1 DEF IdsIn, QueuedIn, DelayedIn, HandledIn
    <3>2. QED
      BY <3>1 DEF Represents
  <2>2. CASE id \notin IdsIn(q, r, T)
    BY <2>2 DEF Represents
  <2>3. QED
    BY <2>1, <2>2
<1>2. /\ st1 \in [Ids -> {"absent", "pending", "running"}] /\ tr1 \in [Ids -> Nat]
      /\ st2 \in [Ids -> {"absent", "pending", "running"}] /\ tr2 \in [Ids -> Nat]
  BY DEF Represents
<1>3. st1 = st2
  BY <1>1, <1>2
<1>4. tr1 = tr2
  BY <1>1, <1>2
<1>5. QED
  BY <1>3, <1>4

\* Every job that runs has a slot of its own.
LEMMA RunningFit ==
    ASSUME NEW q, NEW r, NEW T, NEW st, NEW tr, Represents(st, tr, q, r, T)
    PROVE  Jobs!Fit({id \in Ids : st[id] = "running"})
<1> DEFINE R == {id \in Ids : st[id] = "running"}
           slot == [id \in R |-> CHOOSE s \in HandlingIn(r) : r[s].job.id = id]
<1>1. ASSUME NEW id \in R
      PROVE  \E s \in HandlingIn(r) : r[s].job.id = id
  <2>1. id \in IdsIn(q, r, T)
    BY DEF Represents
  <2>2. id \notin QueuedIn(q) /\ id \notin DelayedIn(T)
    BY DEF Represents, QueuedIn, DelayedIn
  <2>3. QED
    BY <2>1, <2>2 DEF IdsIn, HandledIn
<1>2. \A id \in R : slot[id] \in HandlingIn(r) /\ r[slot[id]].job.id = id
  BY <1>1
<1> HIDE DEF R
<1>3. slot \in [R -> Slots]
  BY <1>2 DEF HandlingIn
<1>4. \A i, j \in R : slot[i] = slot[j] => i = j
  BY <1>2
<1> HIDE DEF slot
<1>5. Jobs!Fit(R)
  BY <1>3, <1>4 DEF Jobs!Fit
<1>6. QED
  BY <1>5 DEF R

\* Where the jobs are after the pump.
LEMMA PumpMoves ==
    ASSUME NEW h \in BOOLEAN, NEW q \in Seq(EntryType), NEW r \in [Slots -> SlotType],
           Pump(h, q, r)
    PROVE  \E n \in 0 .. Len(q) :
             /\ \A i \in 1 .. Len(waiting') : n + i \in 1 .. Len(q) /\ waiting'[i] = q[n + i]
             /\ \A s \in HandlingIn(run') :
                   \/ \E i \in 1 .. n : run'[s].job = q[i]
                   \/ s \in HandlingIn(r) /\ run'[s].job = r[s].job
<1>0. Len(q) \in Nat
  BY LenProperties
<1>1. PICK n \in 0 .. Len(q) : \E f \in [1 .. n -> FreeSlots(r)] : Started(h, q, r, n, f)
  BY PumpStarts
<1>2. PICK f \in [1 .. n -> FreeSlots(r)] : Started(h, q, r, n, f)
  BY <1>1
<1>3. \A i \in 1 .. Len(waiting') : n + i \in 1 .. Len(q) /\ waiting'[i] = q[n + i]
  BY <1>0, <1>2 DEF Started
<1>4. ASSUME NEW s \in HandlingIn(run')
      PROVE  \/ \E i \in 1 .. n : run'[s].job = q[i]
             \/ s \in HandlingIn(r) /\ run'[s].job = r[s].job
  <2>1. CASE \E i \in 1 .. n : f[i] = s
    <3>1. PICK i \in 1 .. n : f[i] = s
      BY <2>1
    <3>2. run'[s] = Slot("handling", q[i])
      BY <1>2, <3>1 DEF Started
    <3>3. QED
      BY <3>2 DEF Slot
  <2>2. CASE ~\E i \in 1 .. n : f[i] = s
    BY <1>2, <2>2 DEF Started, HandlingIn
  <2>3. QED
    BY <2>1, <2>2
<1>5. QED
  BY <1>3, <1>4

\* A pump is a Dispatch of the abstract queue.
LEMMA PumpDispatches ==
    ASSUME NEW h \in BOOLEAN, NEW q \in Seq(EntryType), NEW r \in [Slots -> SlotType],
           NEW T \in SUBSET EntryType, HeldIn(q, r, T), Pump(h, q, r),
           NEW st, NEW tr, Represents(st, tr, q, r, T),
           Represents(JobState', JobTries', waiting', run', T)
    PROVE  Jobs!Dispatch(st, tr)
<1>0. Len(q) \in Nat /\ \A i \in 1 .. Len(q) : q[i] \in EntryType
  BY LenProperties, ElementOfSeq
<1>1. PICK n \in 0 .. Len(q) :
         /\ \A i \in 1 .. Len(waiting') : n + i \in 1 .. Len(q) /\ waiting'[i] = q[n + i]
         /\ \A s \in HandlingIn(run') :
               \/ \E i \in 1 .. n : run'[s].job = q[i]
               \/ s \in HandlingIn(r) /\ run'[s].job = r[s].job
  BY PumpMoves
<1>n. n \in Nat /\ \A i \in 1 .. n : i \in 1 .. Len(q)
  BY <1>0
<1> DEFINE S == {q[i].id : i \in 1 .. n}
           st2 == [id \in Ids |-> IF id \in S THEN "running" ELSE st[id]]
           tr2 == [id \in Ids |-> IF id \in S THEN tr[id] + 1 ELSE tr[id]]
<1>2. \A id \in S : id \in Ids /\ st[id] = "pending" /\ tr[id] < MaxAttempts
  BY <1>0, <1>n, AttemptsAssumption DEF Represents, EntryType
<1>3. IdsIn(waiting', run', T) = IdsIn(q, r, T)
  BY PumpHolds
<1>4. S \subseteq IdsIn(q, r, T)
  BY <1>n DEF IdsIn, QueuedIn
<1>t. /\ st \in [Ids -> {"absent", "pending", "running"}] /\ tr \in [Ids -> Nat]
      /\ \A i \in 1 .. Len(q) : st[q[i].id] = "pending" /\ tr[q[i].id] = q[i].attempt - 1
      /\ \A e \in T : st[e.id] = "pending" /\ tr[e.id] = e.attempt
      /\ \A s \in HandlingIn(r) : st[r[s].job.id] = "running" /\ tr[r[s].job.id] = r[s].job.attempt
      /\ \A id \in Ids \ IdsIn(q, r, T) : st[id] = "absent" /\ tr[id] = 0
  BY DEF Represents
<1>s. \A id \in Ids : /\ st2[id] = IF id \in S THEN "running" ELSE st[id]
                      /\ tr2[id] = IF id \in S THEN tr[id] + 1 ELSE tr[id]
  OBVIOUS
<1>5. Represents(st2, tr2, waiting', run', T)
  <2>1. st2 \in [Ids -> {"absent", "pending", "running"}] /\ tr2 \in [Ids -> Nat]
    BY <1>t
  <2> HIDE DEF st2, tr2
  <2>2. ASSUME NEW i \in 1 .. Len(waiting')
        PROVE  st2[waiting'[i].id] = "pending" /\ tr2[waiting'[i].id] = waiting'[i].attempt - 1
    <3>1. n + i \in 1 .. Len(q) /\ waiting'[i] = q[n + i] /\ q[n + i].id \in Ids
      BY <1>0, <1>1 DEF EntryType
    <3>2. \A k \in 1 .. n : k # n + i
      BY <1>n
    <3>3. q[n + i].id \notin S
      BY <1>n, <3>1, <3>2 DEF HeldIn
    <3>4. QED
      BY <1>s, <1>t, <3>1, <3>3
  <2>3. ASSUME NEW e \in T
        PROVE  st2[e.id] = "pending" /\ tr2[e.id] = e.attempt
    <3>1. e.id \notin S /\ e.id \in Ids
      BY <1>n DEF HeldIn, EntryType
    <3>2. QED
      BY <1>s, <1>t, <3>1
  <2>4. ASSUME NEW s \in HandlingIn(run')
        PROVE  st2[run'[s].job.id] = "running" /\ tr2[run'[s].job.id] = run'[s].job.attempt
    <3>1. CASE \E i \in 1 .. n : run'[s].job = q[i]
      <4>1. PICK i \in 1 .. n : run'[s].job = q[i]
        BY <3>1
      <4>2. q[i].id \in S /\ i \in 1 .. Len(q) /\ q[i] \in EntryType
        BY <1>0, <1>n
      <4>3. tr[q[i].id] + 1 = q[i].attempt
        <5>1. q[i].attempt \in Nat
          BY <4>2, AttemptsAssumption DEF EntryType
        <5>2. tr[q[i].id] = q[i].attempt - 1
          BY <1>t, <4>2
        <5>3. QED
          BY <5>1, <5>2
      <4>4. QED
        BY <1>s, <4>1, <4>2, <4>3 DEF EntryType
    <3>2. CASE s \in HandlingIn(r) /\ run'[s].job = r[s].job
      <4>1. r[s].job.id \notin S
        BY <1>n, <3>2 DEF HeldIn
      <4>2. r[s].job.id \in Ids
        BY <3>2 DEF HandlingIn, SlotType, Free, Slot, EntryType
      <4>3. st[r[s].job.id] = "running" /\ tr[r[s].job.id] = r[s].job.attempt
        BY <1>t, <3>2
      <4> HIDE DEF S
      <4>4. QED
        BY <1>s, <3>2, <4>1, <4>2, <4>3
    <3>3. QED
      BY <1>1, <3>1, <3>2
  <2>5. ASSUME NEW id \in Ids \ IdsIn(waiting', run', T)
        PROVE  st2[id] = "absent" /\ tr2[id] = 0
    BY <1>3, <1>4, <1>s, <1>t
  <2>6. QED
    BY <2>1, <2>2, <2>3, <2>4, <2>5 DEF Represents
<1> HIDE DEF st2, tr2
<1>6. JobState' = st2 /\ JobTries' = tr2
  BY <1>5, RepresentsUnique
<1>7. Jobs!Fit({id \in Ids : JobState'[id] = "running"})
  BY RunningFit
<1>8. S \in SUBSET {id \in Ids : st[id] = "pending" /\ tr[id] < MaxAttempts}
  BY <1>2
<1>9. QED
  BY <1>6, <1>7, <1>8 DEF Jobs!Dispatch, st2, tr2

\* Append puts one more item at the end.
LEMMA AppendItems ==
    ASSUME NEW q \in Seq(EntryType), NEW x \in EntryType
    PROVE  \A i \in 1 .. Len(Append(q, x)) :
              \/ i \in 1 .. Len(q) /\ Append(q, x)[i] = q[i]
              \/ Append(q, x)[i] = x
<1> DEFINE p == Append(q, x)
<1>1. /\ Len(q) \in Nat /\ Len(p) = Len(q) + 1
      /\ \A i \in 1 .. Len(q) : p[i] = q[i]
      /\ p[Len(q) + 1] = x
  BY AppendProperties, LenProperties
<1> HIDE DEF p
<1>2. ASSUME NEW i \in 1 .. Len(p)
      PROVE  \/ i \in 1 .. Len(q) /\ p[i] = q[i]
             \/ p[i] = x
  <2>1. i \in 1 .. Len(q) \/ i = Len(q) + 1
    BY <1>1
  <2>2. QED
    BY <1>1, <2>1
<1>3. QED
  BY <1>2 DEF p

\* The abstract state after a job was added, ended or put off.
LEMMA AppendRepresents ==
    ASSUME NEW q \in Seq(EntryType), NEW r \in [Slots -> SlotType], NEW T \in SUBSET EntryType,
           NEW st, NEW tr, Represents(st, tr, q, r, T),
           NEW x \in EntryType, x.id \notin IdsIn(q, r, T), x.attempt = 1, tr[x.id] = 0,
           IdsIn(Append(q, x), r, T) = IdsIn(q, r, T) \cup {x.id}
    PROVE  Represents([st EXCEPT ![x.id] = "pending"], tr, Append(q, x), r, T)
<1> DEFINE p == Append(q, x)
           st2 == [st EXCEPT ![x.id] = "pending"]
<1>0. st \in [Ids -> {"absent", "pending", "running"}] /\ tr \in [Ids -> Nat] /\ x.id \in Ids
  BY DEF Represents, EntryType
<1>1. st2 \in [Ids -> {"absent", "pending", "running"}] /\ st2[x.id] = "pending"
  BY <1>0
<1>2. \A id \in Ids : id # x.id => st2[id] = st[id]
  BY <1>0
<1>3. \A i \in 1 .. Len(p) : \/ i \in 1 .. Len(q) /\ p[i] = q[i]
                            \/ p[i] = x
  BY AppendItems
<1>4. \A i \in 1 .. Len(q) : q[i].id # x.id /\ q[i].id \in Ids
  <2>1. \A i \in 1 .. Len(q) : q[i] \in EntryType
    BY ElementOfSeq
  <2>2. QED
    BY <2>1 DEF IdsIn, QueuedIn, EntryType
<1>5. \A e \in T : e.id # x.id /\ e.id \in Ids
  BY DEF IdsIn, DelayedIn, EntryType
<1>6. \A s \in HandlingIn(r) : r[s].job.id # x.id /\ r[s].job.id \in Ids
  BY DEF IdsIn, HandledIn, HandlingIn, SlotType, Free, Slot, EntryType
<1> HIDE DEF p, st2
<1>7. \A i \in 1 .. Len(p) : st2[p[i].id] = "pending" /\ tr[p[i].id] = p[i].attempt - 1
  BY <1>1, <1>2, <1>3, <1>4 DEF Represents
<1>8. \A id \in Ids \ IdsIn(p, r, T) : st2[id] = "absent" /\ tr[id] = 0
  BY <1>2 DEF Represents, p
<1>9. Represents(st2, tr, p, r, T)
  BY <1>0, <1>1, <1>2, <1>5, <1>6, <1>7, <1>8 DEF Represents
<1>10. QED
  BY <1>9 DEF p, st2

LEMMA EndRepresents ==
    ASSUME NEW q \in Seq(EntryType), NEW r \in [Slots -> SlotType], NEW T \in SUBSET EntryType,
           HeldIn(q, r, T), NEW st, NEW tr, Represents(st, tr, q, r, T),
           NEW s \in HandlingIn(r), NEW p \in [Slots -> SlotType], p[s].pc = "settled",
           \A t \in Slots \ {s} : p[t] = r[t],
           NEW id, id = r[s].job.id
    PROVE  Represents([st EXCEPT ![id] = "absent"], [tr EXCEPT ![id] = 0], q, p, T)
<1> DEFINE st2 == [st EXCEPT ![id] = "absent"]
           tr2 == [tr EXCEPT ![id] = 0]
<1>0. /\ st \in [Ids -> {"absent", "pending", "running"}] /\ tr \in [Ids -> Nat]
      /\ id \in Ids
  BY DEF Represents, HandlingIn, SlotType, Free, Slot, EntryType
<1>1. /\ st2 \in [Ids -> {"absent", "pending", "running"}] /\ tr2 \in [Ids -> Nat]
      /\ st2[id] = "absent" /\ tr2[id] = 0
      /\ \A k \in Ids : k # id => st2[k] = st[k] /\ tr2[k] = tr[k]
  BY <1>0
<1> HIDE DEF st2, tr2
<1>2. HandlingIn(p) = HandlingIn(r) \ {s} /\ \A t \in HandlingIn(p) : p[t] = r[t]
  BY DEF HandlingIn
<1>3. IdsIn(q, p, T) = IdsIn(q, r, T) \ {id}
  BY SettleHolds
<1>4. \A i \in 1 .. Len(q) : q[i].id # id /\ q[i].id \in Ids
  <2>1. \A i \in 1 .. Len(q) : q[i] \in EntryType
    BY ElementOfSeq
  <2>2. QED
    BY <2>1 DEF HeldIn, EntryType
<1>5. \A e \in T : e.id # id /\ e.id \in Ids
  BY DEF HeldIn, EntryType
<1>6. \A t \in HandlingIn(p) : p[t].job.id # id /\ p[t].job.id \in Ids
  BY <1>2 DEF HeldIn, HandlingIn, SlotType, Free, Slot, EntryType
<1>7. Represents(st2, tr2, q, p, T)
  BY <1>1, <1>2, <1>3, <1>4, <1>5, <1>6 DEF Represents
<1>8. QED
  BY <1>7 DEF st2, tr2

LEMMA RetryRepresents ==
    ASSUME NEW q \in Seq(EntryType), NEW r \in [Slots -> SlotType], NEW T \in SUBSET EntryType,
           HeldIn(q, r, T), NEW st, NEW tr, Represents(st, tr, q, r, T),
           NEW s \in HandlingIn(r), NEW p \in [Slots -> SlotType], p[s].pc = "settled",
           \A t \in Slots \ {s} : p[t] = r[t],
           NEW U, U = T \cup {r[s].job}
    PROVE  Represents([st EXCEPT ![r[s].job.id] = "pending"], tr, q, p, U)
<1> DEFINE id == r[s].job.id
           st2 == [st EXCEPT ![id] = "pending"]
<1>0. /\ st \in [Ids -> {"absent", "pending", "running"}] /\ tr \in [Ids -> Nat]
      /\ id \in Ids /\ tr[id] = r[s].job.attempt
  BY DEF Represents, HandlingIn, SlotType, Free, Slot, EntryType
<1>1. /\ st2 \in [Ids -> {"absent", "pending", "running"}] /\ st2[id] = "pending"
      /\ \A k \in Ids : k # id => st2[k] = st[k]
  BY <1>0
<1> HIDE DEF st2
<1>2. HandlingIn(p) = HandlingIn(r) \ {s} /\ \A t \in HandlingIn(p) : p[t] = r[t]
  BY DEF HandlingIn
<1>3. IdsIn(q, p, T) = IdsIn(q, r, T) \ {id}
  BY SettleHolds
<1>4. \A i \in 1 .. Len(q) : q[i].id # id /\ q[i].id \in Ids
  <2>1. \A i \in 1 .. Len(q) : q[i] \in EntryType
    BY ElementOfSeq
  <2>2. QED
    BY <2>1 DEF HeldIn, EntryType
<1>5. \A e \in T : e.id # id /\ e.id \in Ids
  BY DEF HeldIn, EntryType
<1>6. \A t \in HandlingIn(p) : p[t].job.id # id /\ p[t].job.id \in Ids
  BY <1>2 DEF HeldIn, HandlingIn, SlotType, Free, Slot, EntryType
<1>7. DelayedIn(U) = DelayedIn(T) \cup {id}
  BY DEF DelayedIn
<1>8. IdsIn(q, p, U) = IdsIn(q, p, T) \cup {id}
  BY <1>7 DEF IdsIn
<1>9. \A e \in U : st2[e.id] = "pending" /\ tr[e.id] = e.attempt
  BY <1>0, <1>1, <1>5 DEF Represents
<1>a. \A i \in 1 .. Len(q) : st2[q[i].id] = "pending" /\ tr[q[i].id] = q[i].attempt - 1
  BY <1>1, <1>4 DEF Represents
<1>b. \A t \in HandlingIn(p) : st2[p[t].job.id] = "running" /\ tr[p[t].job.id] = p[t].job.attempt
  BY <1>1, <1>2, <1>6 DEF Represents
<1>c. \A k \in Ids \ IdsIn(q, p, U) : st2[k] = "absent" /\ tr[k] = 0
  <2> TAKE k \in Ids \ IdsIn(q, p, U)
  <2>1. k # id /\ k \notin IdsIn(q, r, T)
    BY <1>3, <1>8
  <2>2. st[k] = "absent" /\ tr[k] = 0
    BY <2>1 DEF Represents
  <2>3. QED
    BY <1>1, <2>1, <2>2
<1>10. Represents(st2, tr, q, p, U)
  BY <1>0, <1>1, <1>9, <1>a, <1>b, <1>c DEF Represents
<1>11. QED
  BY <1>10 DEF st2

LEMMA IInvRepresents == IInv => Represents(JobState, JobTries, waiting, run, timers)
  BY MappingRepresents DEF IInv, TypeInv, QueueInv

LEMMA JobQueueInit == Init => Jobs!Init
<1> SUFFICES ASSUME Init
             PROVE  Jobs!Init
  OBVIOUS
<1>1. (phase = "open") = TRUE
  BY DEF Init
<1>2. Represents(JobState, JobTries, waiting, run, timers)
  BY IInvInit, IInvRepresents
<1>3. IdsIn(waiting, run, timers) = {}
  <2>1. Len(waiting) = 0 /\ timers = {} /\ HandlingIn(run) = {}
    BY EmptySeq DEF Init, HandlingIn, Free, Slot
  <2>2. QED
    BY <2>1 DEF IdsIn, QueuedIn, DelayedIn, HandledIn
<1>4. JobState = [id \in Ids |-> "absent"] /\ JobTries = [id \in Ids |-> 0]
  BY <1>2, <1>3 DEF Represents
<1>5. QED
  BY <1>1, <1>4 DEF Jobs!Init

LEMMA JobQueueStep ==
    ASSUME IInv, [Next]_vars, Represents(JobState', JobTries', waiting', run', timers')
    PROVE  [Jobs!Next]_(Jobs!vars)
<1>t. /\ waiting \in Seq(EntryType) /\ timers \in SUBSET EntryType
      /\ run \in [Slots -> SlotType] /\ handler \in BOOLEAN
      /\ HeldIn(waiting, run, timers) /\ Known(known, IdsIn(waiting, run, timers))
      /\ TimersHaveAttempts /\ ClosedIsEmpty
  BY DEF IInv, TypeInv, TypeOK, QueueInv
<1>r. Represents(JobState, JobTries, waiting, run, timers)
  BY IInvRepresents
\* A step that does not touch what is held is a stutter.
<1>u. ASSUME Represents(JobState, JobTries, waiting', run', timers'),
             (phase' = "open") = (phase = "open")
      PROVE  UNCHANGED Jobs!vars
  <2>1. JobState' = JobState /\ JobTries' = JobTries
    BY <1>u, RepresentsUnique
  <2>2. QED
    BY <1>u, <2>1 DEF Jobs!vars
<1>1. CASE Process
  <2>1. /\ Pump(TRUE, waiting, run) /\ UNCHANGED <<phase, timers>>
    BY <1>1 DEF Process
  <2>2. Jobs!Dispatch(JobState, JobTries)
    BY <1>t, <1>r, <2>1, PumpDispatches
  <2>3. QED
    BY <2>1, <2>2 DEF Jobs!Next, Jobs!Start
<1>2. ASSUME NEW id \in Ids, Add(id)
      PROVE  Jobs!Next
  <2> DEFINE x == Entry(id, 1)
             st == [JobState EXCEPT ![id] = "pending"]
  <2>1. /\ phase = "open" /\ id \notin known /\ Pump(handler, Append(waiting, x), run)
        /\ UNCHANGED <<phase, timers>>
    BY <1>2 DEF Add
  <2>2. x \in EntryType /\ x.id = id /\ x.attempt = 1
    BY AttemptsAssumption DEF Entry, EntryType
  <2>3. id \notin IdsIn(waiting, run, timers)
    BY <1>t, <2>1 DEF Known
  <2>4. JobState[id] = "absent" /\ JobTries[id] = 0
    BY <1>r, <2>3 DEF Represents
  <2> HIDE DEF x
  <2>5. /\ Append(waiting, x) \in Seq(EntryType)
        /\ HeldIn(Append(waiting, x), run, timers)
        /\ IdsIn(Append(waiting, x), run, timers) = IdsIn(waiting, run, timers) \cup {id}
    BY <1>t, <2>2, <2>3, AppendHolds
  <2>6. Represents(st, JobTries, Append(waiting, x), run, timers)
    BY <1>t, <1>r, <2>2, <2>3, <2>4, <2>5, AppendRepresents
  <2>7. Jobs!Dispatch(st, JobTries)
    BY <1>t, <2>1, <2>5, <2>6, PumpDispatches
  <2>8. QED
    BY <2>1, <2>4, <2>7 DEF Jobs!Next, Jobs!Add
<1>3. ASSUME NEW c \in Callers, OnIdle(c)
      PROVE  UNCHANGED Jobs!vars
  BY <1>3, <1>r, <1>u DEF OnIdle
<1>4. CASE Close
  <2>1. phase' = "closing" /\ timers' = {} /\ waiting' = <<>> /\ run' = run
    BY <1>4 DEF Close
  <2>2. Len(waiting') = 0
    BY <2>1, EmptySeq
  <2>3. ASSUME NEW id \in Ids
        PROVE  /\ JobState'[id] = IF JobState[id] = "pending" THEN "absent" ELSE JobState[id]
               /\ JobTries'[id] = IF JobState[id] = "pending" THEN 0 ELSE JobTries[id]
    <3>1. CASE id \in HandledIn(run)
      BY <1>r, <2>1, <3>1 DEF Represents, HandledIn
    <3>2. CASE id \notin HandledIn(run)
      <4>1. JobState'[id] = "absent" /\ JobTries'[id] = 0
        BY <2>1, <2>2, <3>2 DEF Represents, IdsIn, QueuedIn, DelayedIn
      <4>2. id \in QueuedIn(waiting) \cup DelayedIn(timers) => JobState[id] = "pending"
        BY <1>r DEF Represents, QueuedIn, DelayedIn
      <4>3. id \notin QueuedIn(waiting) \cup DelayedIn(timers) =>
               JobState[id] = "absent" /\ JobTries[id] = 0
        BY <1>r, <3>2 DEF Represents, IdsIn
      <4>4. QED
        BY <4>1, <4>2, <4>3
    <3>3. QED
      BY <3>1, <3>2
  <2>4. /\ JobState' \in [Ids -> {"absent", "pending", "running"}]
        /\ JobTries' \in [Ids -> Nat]
    BY DEF Represents
  <2>5. JobState' = [id \in Ids |-> IF JobState[id] = "pending" THEN "absent" ELSE JobState[id]]
    BY <2>3, <2>4
  <2>6. JobTries' = [id \in Ids |-> IF JobState[id] = "pending" THEN 0 ELSE JobTries[id]]
    BY <2>3, <2>4
  <2>7. (phase' = "open") = FALSE
    BY <2>1
  <2>8. QED
    BY <2>5, <2>6, <2>7 DEF Jobs!Next, Jobs!Close
<1>5. CASE CloseDone
  BY <1>5, <1>r, <1>u DEF CloseDone
\* A job that ends.
<1>e. ASSUME NEW s \in Slots, run[s].pc = "handling", Settle(s),
             UNCHANGED <<phase, waiting, timers>>
      PROVE  Jobs!Next
  <2> DEFINE id == run[s].job.id
             st == [JobState EXCEPT ![id] = "absent"]
             tr == [JobTries EXCEPT ![id] = 0]
  <2>1. s \in HandlingIn(run) /\ id \in Ids
    BY <1>e, <1>t DEF HandlingIn, SlotType, Free, Slot, EntryType
  <2>2. /\ run' \in [Slots -> SlotType] /\ run'[s].pc = "settled"
        /\ \A t \in Slots \ {s} : run'[t] = run[t]
    BY <1>e, <1>t, SettleSlots
  <2>3. IdsIn(waiting, run', timers) = IdsIn(waiting, run, timers) \ {id}
    BY <1>t, <2>1, <2>2, SettleHolds
  <2>4. HandlingIn(run') = HandlingIn(run) \ {s}
    BY <2>2 DEF HandlingIn
  <2>5. Represents(st, tr, waiting, run', timers)
    BY <1>t, <1>r, <2>1, <2>2, <2>3, <2>4, EndRepresents
  <2>6. JobState' = st /\ JobTries' = tr
    BY <1>e, <2>5, RepresentsUnique
  <2>7. JobState[id] = "running"
    BY <1>r, <2>1 DEF Represents
  <2>8. QED
    BY <1>e, <2>1, <2>6, <2>7 DEF Jobs!Next, Jobs!End
<1>6. ASSUME NEW s \in Slots, HandlerReturns(s)
      PROVE  Jobs!Next
  BY <1>6, <1>e DEF HandlerReturns
<1>7. ASSUME NEW s \in Slots, NEW retryable \in BOOLEAN, HandlerThrows(s, retryable)
      PROVE  Jobs!Next
  <2> DEFINE job == run[s].job
             st == [JobState EXCEPT ![job.id] = "pending"]
  <2>1. run[s].pc = "handling" /\ Settle(s) /\ UNCHANGED <<phase, waiting>>
    BY <1>7 DEF HandlerThrows
  <2>2. CASE phase = "open" /\ retryable /\ job.attempt < MaxAttempts
    <3>1. timers' = timers \cup {job}
      BY <1>7, <2>2 DEF HandlerThrows
    <3>2. s \in HandlingIn(run) /\ job \in EntryType
      BY <1>t, <2>1 DEF HandlingIn, SlotType, Free, Slot
    <3>3. /\ run' \in [Slots -> SlotType] /\ run'[s].pc = "settled"
          /\ \A t \in Slots \ {s} : run'[t] = run[t]
      BY <1>t, <2>1, SettleSlots
    <3>4. Represents(st, JobTries, waiting, run', timers')
      BY <1>t, <1>r, <3>1, <3>2, <3>3, RetryRepresents
    <3>5. JobState' = st /\ JobTries' = JobTries
      BY <2>1, <3>4, RepresentsUnique
    <3>6. JobState[job.id] = "running" /\ JobTries[job.id] = job.attempt /\ job.id \in Ids
      BY <1>r, <3>2 DEF Represents, EntryType
    <3>7. QED
      BY <2>1, <2>2, <3>5, <3>6 DEF Jobs!Next, Jobs!Retry
  <2>3. CASE ~(phase = "open" /\ retryable /\ job.attempt < MaxAttempts)
    BY <1>7, <1>e, <2>1, <2>3 DEF HandlerThrows
  <2>4. QED
    BY <2>2, <2>3
<1>8. ASSUME NEW s \in Slots, Finally(s)
      PROVE  Jobs!Next
  <2> DEFINE r == [run EXCEPT ![s] = Free]
  <2>1. /\ run[s].pc = "settled" /\ Pump(handler, waiting, r)
        /\ UNCHANGED <<phase, timers>>
    BY <1>8 DEF Finally
  <2>2. r \in [Slots -> SlotType]
    BY <1>t DEF SlotType
  <2>3. HandlingIn(r) = HandlingIn(run) /\ \A t \in HandlingIn(r) : r[t] = run[t]
    BY <1>t, <2>1 DEF HandlingIn, Free, Slot
  <2> HIDE DEF r
  <2>4. HeldIn(waiting, r, timers)
    BY <1>t, <2>3 DEF HeldIn
  <2>5. Represents(JobState, JobTries, waiting, r, timers)
    <3>1. IdsIn(waiting, r, timers) = IdsIn(waiting, run, timers)
      BY <2>3 DEF IdsIn, HandledIn
    <3>2. QED
      BY <1>r, <2>3, <3>1 DEF Represents
  <2>6. Jobs!Dispatch(JobState, JobTries)
    BY <1>t, <2>1, <2>2, <2>4, <2>5, PumpDispatches
  <2>7. QED
    BY <2>1, <2>6 DEF Jobs!Next, Jobs!Start
<1>9. ASSUME NEW e \in timers, TimerFires(e)
      PROVE  Jobs!Next
  <2> DEFINE x == Entry(e.id, e.attempt + 1)
  <2>1. /\ timers' = timers \ {e} /\ Pump(handler, Append(waiting, x), run)
        /\ phase' = phase
    BY <1>9 DEF TimerFires
  <2>2. x \in EntryType /\ x.id = e.id /\ x.attempt = e.attempt + 1 /\ e.attempt \in Nat
    BY <1>t, AttemptsAssumption DEF Entry, EntryType, TimersHaveAttempts
  <2>3. /\ HeldIn(waiting, run, timers')
        /\ IdsIn(waiting, run, timers') = IdsIn(waiting, run, timers) \ {e.id}
    BY <1>t, <2>1, UndelayHolds
  <2> HIDE DEF x
  <2>4. timers' \in SUBSET EntryType /\ x.id \notin IdsIn(waiting, run, timers')
    BY <1>t, <2>1, <2>2, <2>3
  <2>5. /\ Append(waiting, x) \in Seq(EntryType)
        /\ HeldIn(Append(waiting, x), run, timers')
        /\ IdsIn(Append(waiting, x), run, timers') = IdsIn(waiting, run, timers') \cup {x.id}
    BY <1>t, <2>2, <2>3, <2>4, AppendHolds
  <2>6. Represents(JobState, JobTries, Append(waiting, x), run, timers')
    <3>1. JobState[x.id] = "pending" /\ JobTries[x.id] = x.attempt - 1
      BY <1>r, <2>2 DEF Represents
    <3>2. IdsIn(Append(waiting, x), run, timers') = IdsIn(waiting, run, timers)
      BY <2>2, <2>3, <2>5 DEF IdsIn, DelayedIn
    <3>3. \A i \in 1 .. Len(Append(waiting, x)) :
             \/ i \in 1 .. Len(waiting) /\ Append(waiting, x)[i] = waiting[i]
             \/ Append(waiting, x)[i] = x
      BY <1>t, <2>2, AppendItems
    <3>4. QED
      BY <1>r, <2>1, <3>1, <3>2, <3>3 DEF Represents
  <2>7. Jobs!Dispatch(JobState, JobTries)
    BY <1>t, <2>1, <2>4, <2>5, <2>6, PumpDispatches
  <2>8. QED
    BY <2>1, <2>7 DEF Jobs!Next, Jobs!Start
<1>10. CASE UNCHANGED vars
  BY <1>10, <1>r, <1>u DEF vars
<1>11. QED
  BY <1>1, <1>2, <1>3, <1>4, <1>5, <1>6, <1>7, <1>8, <1>9, <1>10 DEF Next

\* MemoryQueue implements JobQueue: each job held once, no more run than there are slots,
\* none tried more often than its limit, none after the queue is closed
\* (MemoryQueue, memory-queue.ts:33-134).
THEOREM QueueImplementsJobQueue == Spec => ImplementsJobQueue
<1>0. (IInv => Represents(JobState, JobTries, waiting, run, timers))'
  BY IInvRepresents, PTL
<1>1. IInv /\ IInv' /\ [Next]_vars => [Jobs!Next]_(Jobs!vars)
  <2> SUFFICES ASSUME IInv, IInv', [Next]_vars
               PROVE  [Jobs!Next]_(Jobs!vars)
    OBVIOUS
  <2>1. Represents(JobState', JobTries', waiting', run', timers')
    BY <1>0
       DEF Represents, HandlingIn, IdsIn, QueuedIn, DelayedIn, HandledIn
  <2>2. QED
    BY <2>1, JobQueueStep
<1>2. QED
  BY <1>1, JobQueueInit, IInvHolds, PTL DEF Spec, ImplementsJobQueue, Jobs!Spec

============================================================================
