-------------------------- MODULE HookMemoryProofs --------------------------
(***************************************************************************)
(* What holds of HookMemory for every set of calls and items: the types,   *)
(* and what the two files of decisions say (LogsAgree, LastDecisionShown,  *)
(* DecidedOnce), with crashes and any interleaving.  That rests on         *)
(* the order of the lock's queue: updated_at is taken when a call enters   *)
(* it, so the snapshots are appended in the order of their times.  Of the  *)
(* memory file, which no lock guards: what was written stays (MemoryKept), *)
(* however many update it, but for what is written while another update is *)
(* between its reading and its writing, and for what a cut file hides.     *)
(***************************************************************************)
EXTENDS HookMemory, SequenceTheorems, TLAPS

\* A call between its two appends holds the lock.
SnappedHolds == \A c \in Calls : pc[c] = "snapped" => Holds(c)

Waiting == {"queued", "snapped", "creating"}

\* The queue holds each waiting call once, in the order of their stamps.
QueueSorted ==
    /\ \A k \in 1..Len(queue) : pc[queue[k]] \in Waiting
    /\ \A j, k \in 1..Len(queue) : j < k =>
         queue[j] # queue[k] /\ stamp[queue[j]] <= stamp[queue[k]]

\* No snapshot is newer than one that is still to be appended.
Monotone ==
    /\ \A i \in Items : at[i] <= clock
    /\ \A c \in Calls : stamp[c] <= clock
    /\ \A i \in Items : \A k \in 1..Len(queue) : at[i] <= stamp[queue[k]]

\* An item that is being created is known to its creator alone.
Unborn ==
    /\ \A i \in Items : shown[i] = "none" => resolved[i] = <<>>
    /\ \A c \in Calls : pc[c] = "creating" => shown[item[c]] = "none"
    /\ \A c, d \in Calls :
         pc[c] = "creating" /\ pc[d] = "creating" /\ item[c] = item[d] => c = d
    /\ \A c \in Calls : pc[c] \in {"looked", "queued"} => shown[item[c]] # "none"

\* The audit file is behind by the call between its two appends.
Behind ==
    /\ \A c \in Calls : pc[c] = "snapped" /\ item[c] \notin torn =>
         resolved[item[c]] = Append(recorded[item[c]], c)
    /\ \A i \in Items \ torn :
         resolved[i] = recorded[i] \/ \E c \in Calls : pc[c] = "snapped" /\ item[c] = i

\* Of an item not found pending twice one call decides at most, and before any
\* other has.
Alone == \A i \in Items \ doubled :
    /\ \A c, d \in Calls : Deciding(i, c) /\ Deciding(i, d) => c = d
    /\ \A c \in Calls : Deciding(i, c) => resolved[i] = <<>>

IInv ==
    /\ TypeOK /\ SnappedHolds /\ QueueSorted /\ Monotone /\ Unborn
    /\ Behind /\ LastDecisionShown /\ Alone /\ DecidedOnce

-----------------------------------------------------------------------------
(* Types *)

\* Announcing an event keeps the batches a sequence of numbers.
LEMMA AnnouncedType ==
  ASSUME NEW batches \in Seq(Nat), NEW event
  PROVE  Announced(event, batches) \in Seq(Nat)
  BY BoundAssumption DEF Announced

\* So does taking an action off the innermost batch that has one.
LEMMA OneLessType ==
  ASSUME NEW batches \in Seq(Nat), batches # <<>>, batches[Len(batches)] > 0
  PROVE  OneLess(batches) \in Seq(Nat)
<1>1. Len(batches) \in 1..Len(batches)
  OBVIOUS
<1>2. batches[Len(batches)] - 1 \in Nat
  BY <1>1
<1>. QED BY <1>1, <1>2, ExceptSeq DEF OneLess

\* So does leaving the innermost batch.
LEMMA FrontType ==
  ASSUME NEW batches \in Seq(Nat)
  PROVE  Front(batches) \in Seq(Nat)
<1>1. Len(batches) \in Nat /\ \A i \in 1..Len(batches) - 1 : batches[i] \in Nat
  OBVIOUS
<1>2. SubSeq(batches, 1, Len(batches) - 1) \in Seq(Nat)
  BY <1>1, SubSeqProperties
<1>. QED BY <1>2 DEF Front

\* The empty sequence of batches.
LEMMA NoBatches == <<>> \in Seq(Nat)
  OBVIOUS

\* The first state is well typed.
LEMMA InitTypes == Init => TypeOK
<1> SUFFICES ASSUME Init PROVE TypeOK
  OBVIOUS
<1>1. pc \in [Calls -> Phases] /\ Placed
  BY DEF Init, Placed, Phases
<1>2. op \in [Calls -> Ops]
  BY DEF Init, Ops
<1>3. <<>> \in Seq(Calls)
  OBVIOUS
<1>4. resolved \in [Items -> Seq(Calls)] /\ recorded \in [Items -> Seq(Calls)] /\ queue \in Seq(Calls)
  BY <1>3 DEF Init
<1>. QED
  BY <1>1, <1>2, <1>4, NoBatches DEF Init, TypeOK

\* The steps of a call on an item keep the types.
LEMMA LockTypes ==
  ASSUME TypeOK, NEW c \in Calls,
         Fail(c) \/ Create(c) \/ Decide(c) \/ Snapshot(c) \/ Record(c)
         \/ \E i \in Items : Look(c, i)
  PROVE  TypeOK'
<1> USE KindAssumption, NoneAssumption, BoundAssumption
<1>1. CASE Fail(c)
  <2>1. PICK i \in Items : item' = [item EXCEPT ![c] = i]
    BY <1>1 DEF Fail, NewItem, Fresh
  <2>2. /\ pc' = [pc EXCEPT ![c] = "creating"] /\ queue' = Append(queue, c)
        /\ stamp' = [stamp EXCEPT ![c] = clock]
    BY <1>1 DEF Fail, Enter, Goto
  <2>3. pc' \in [Calls -> Phases] /\ item' \in [Calls -> Items \cup {None}] /\ Placed'
    BY <2>1, <2>2 DEF TypeOK, Placed, Phases
  <2>4. left' \in [Calls -> Seq(Nat)]
    BY <1>1, AnnouncedType, NoBatches DEF Fail, TypeOK
  <2>5. queue' \in Seq(Calls) /\ stamp' \in [Calls -> Nat]
    BY <2>2 DEF TypeOK
  <2>. QED
    BY <1>1, <2>3, <2>4, <2>5 DEF Fail, TypeOK, log, file, bounds, history
<1>2. CASE Create(c)
  <2>1. /\ pc[c] = "creating" /\ item[c] \in Items /\ queue # <<>>
    BY <1>2 DEF Create, Holds, TypeOK, Placed
  <2>2. Tail(queue) \in Seq(Calls)
    BY <2>1 DEF TypeOK
  <2>3. pc' \in [Calls -> Phases] /\ Placed'
    BY <1>2 DEF Create, Goto, TypeOK, Placed, Phases, Over
  <2>. QED
    BY <1>2, <2>1, <2>2, <2>3 DEF Create, TypeOK, file, bounds, history
<1>3. CASE Decide(c)
  BY <1>3 DEF Decide, Enter, Goto, TypeOK, Placed, Phases, Over, log, file, bounds, history
<1>4. CASE Snapshot(c)
  <2>1. pc[c] = "queued" /\ item[c] \in Items
    BY <1>4 DEF Snapshot, TypeOK, Placed
  <2>2. resolved' \in [Items -> Seq(Calls)]
    BY <1>4, <2>1 DEF Snapshot, TypeOK
  <2>3. shown' \in [Items -> {"none", "pending"} \cup Resolved] /\ at' \in [Items -> Nat]
    BY <1>4, <2>1 DEF Snapshot, TypeOK, Resolved
  <2>4. pc' \in [Calls -> Phases] /\ Placed'
    BY <1>4 DEF Snapshot, Goto, TypeOK, Placed, Phases, Over, mine
  <2>. QED
    BY <1>4, <2>2, <2>3, <2>4 DEF Snapshot, TypeOK, file, mine, bounds, history
<1>5. CASE Record(c)
  <2>1. pc[c] = "snapped" /\ item[c] \in Items /\ queue # <<>>
    BY <1>5 DEF Record, Holds, TypeOK, Placed
  <2>2. Tail(queue) \in Seq(Calls)
    BY <2>1 DEF TypeOK
  <2>3. recorded' \in [Items -> Seq(Calls)]
    BY <1>5, <2>1 DEF Record, TypeOK
  <2>4. pc' \in [Calls -> Phases] /\ Placed'
    BY <1>5 DEF Record, Goto, TypeOK, Placed, Phases, Over
  <2>5. left' \in [Calls -> Seq(Nat)]
    BY <1>5, AnnouncedType, NoBatches DEF Record, TypeOK
  <2>6. op' \in [Calls -> Ops] /\ stamp' \in [Calls -> Nat]
    BY <1>5 DEF Record, TypeOK, Ops
  <2>. QED
    BY <1>5, <2>2, <2>3, <2>4, <2>5, <2>6 DEF Record, TypeOK, file, bounds, history
<1>6. ASSUME NEW i \in Items, Look(c, i) PROVE TypeOK'
  <2>1. pc' \in [Calls -> Phases] /\ Placed' /\ item' \in [Calls -> Items \cup {None}]
    BY <1>6 DEF Look, Goto, TypeOK, Placed, Phases, Over
  <2>. QED
    BY <1>6, <2>1 DEF Look, TypeOK, log, file, bounds
<1>. QED BY <1>1, <1>2, <1>3, <1>4, <1>5, <1>6

\* The steps of a call on the memory file keep the types.
LEMMA MemoryTypes ==
  ASSUME TypeOK, NEW c \in Calls,
         \/ Read(c) \/ Truncate(c) \/ Fill(c) \/ Distil(c) \/ Maintain(c) \/ Asked(c)
         \/ ScriptAsks(c) \/ ScriptWrites(c) \/ ScriptEnds(c) \/ ScriptRaises(c)
  PROVE  TypeOK'
<1> USE KindAssumption, BoundAssumption
<1>0. Entry(c) \in Entries
  BY DEF Entry, Section, Entries, Sections, Ops, TypeOK
<1>1. CASE Read(c)
  <2>1. view' \in [Calls -> SUBSET Entries]
    BY <1>1 DEF Read, Preferences, TypeOK
  <2>2. pc' \in [Calls -> Phases] /\ Placed'
    BY <1>1 DEF Read, Goto, TypeOK, Placed, Phases, Over
  <2>3. exposed' \in SUBSET Entries
    BY <1>1 DEF Read, TypeOK
  <2>. QED BY <1>1, <2>1, <2>2, <2>3 DEF Read, TypeOK, log, file, bounds
<1>2. CASE Truncate(c)
  BY <1>2 DEF Truncate, Goto, TypeOK, Placed, Phases, Over, log, mine, bounds, history
<1>3. CASE Fill(c)
  <2>1. memory' \in SUBSET Entries /\ owed' \in SUBSET Entries /\ view' \in [Calls -> SUBSET Entries]
    BY <1>0, <1>3 DEF Fill, TypeOK
  <2>2. pc' \in [Calls -> Phases] /\ Placed'
    BY <1>3 DEF Fill, Goto, TypeOK, Placed, Phases, Over
  <2>3. op' \in [Calls -> Ops]
    BY <1>3 DEF Fill, TypeOK, Ops
  <2>4. left' \in [Calls -> Seq(Nat)]
    <3>1. left[c] \in Seq(Nat) /\ left \in [Calls -> Seq(Nat)]
      BY DEF TypeOK
    <3>2. Announced("memory.confirmed", left[c]) \in Seq(Nat)
      BY <3>1, AnnouncedType
    <3>. QED BY <1>3, <3>1, <3>2, NoBatches DEF Fill
  <2>5. exposed' \in SUBSET Entries
    BY <1>0, <1>3 DEF Fill, TypeOK
  <2>. QED BY <1>3, <2>1, <2>2, <2>3, <2>4, <2>5 DEF Fill, TypeOK, log, bounds
<1>4. CASE Distil(c)
  <2>1. pc' \in [Calls -> Phases] /\ Placed' /\ op' \in [Calls -> Ops]
    BY <1>4 DEF Distil, Goto, TypeOK, Placed, Phases, Over, Ops
  <2>. QED BY <1>4, <2>1 DEF Distil, TypeOK, log, file, bounds, history
<1>5. CASE Maintain(c)
  <2>1. pc' \in [Calls -> Phases] /\ Placed' /\ exposed' \in SUBSET Entries
    BY <1>5 DEF Maintain, Goto, TypeOK, Placed, Phases, Over
  <2>. QED BY <1>5, <2>1 DEF Maintain, TypeOK, log, file, bounds
<1>6. CASE Asked(c)
  <2>1. pc' \in [Calls -> Phases] /\ Placed' /\ op' \in [Calls -> Ops]
    BY <1>6 DEF Asked, Goto, TypeOK, Placed, Phases, Over, Ops
  <2>. QED BY <1>6, <2>1 DEF Asked, TypeOK, log, file, bounds, history
<1>7. CASE ScriptAsks(c)
  <2>1. PICK i \in Items : item' = [item EXCEPT ![c] = i]
    BY <1>7 DEF ScriptAsks, NewItem, Fresh
  <2>2. /\ pc' = [pc EXCEPT ![c] = "creating"] /\ queue' = Append(queue, c)
        /\ stamp' = [stamp EXCEPT ![c] = clock]
    BY <1>7 DEF ScriptAsks, Enter, Goto
  <2>3. pc' \in [Calls -> Phases] /\ item' \in [Calls -> Items \cup {None}] /\ Placed'
    BY <2>1, <2>2 DEF TypeOK, Placed, Phases
  <2>4. left' \in [Calls -> Seq(Nat)]
    <3>1. left[c] \in Seq(Nat) /\ left \in [Calls -> Seq(Nat)]
      BY DEF TypeOK
    <3>2. OneLess(left[c]) \in Seq(Nat)
      BY <1>7, <3>1, OneLessType DEF ScriptAsks, HasAction
    <3>. QED BY <1>7, <3>1, <3>2 DEF ScriptAsks
  <2>5. queue' \in Seq(Calls) /\ stamp' \in [Calls -> Nat]
    BY <2>2 DEF TypeOK
  <2>. QED
    BY <1>7, <2>3, <2>4, <2>5 DEF ScriptAsks, TypeOK, log, file, bounds, history
<1>8. CASE ScriptWrites(c)
  <2>1. pc' \in [Calls -> Phases] /\ Placed' /\ op' \in [Calls -> Ops]
    BY <1>8 DEF ScriptWrites, Goto, TypeOK, Placed, Phases, Over, Ops
  <2>2. left[c] \in Seq(Nat) /\ left \in [Calls -> Seq(Nat)]
    BY DEF TypeOK
  <2>3. OneLess(left[c]) \in Seq(Nat)
    BY <1>8, <2>2, OneLessType DEF ScriptWrites, HasAction
  <2>4. left' \in [Calls -> Seq(Nat)]
    BY <1>8, <2>2, <2>3 DEF ScriptWrites
  <2>. QED BY <1>8, <2>1, <2>4 DEF ScriptWrites, TypeOK, log, file, bounds, history
<1>9. CASE ScriptEnds(c)
  <2>1. pc' \in [Calls -> Phases] /\ Placed'
    BY <1>9 DEF ScriptEnds, Goto, TypeOK, Placed, Phases, Over
  <2>2. left[c] \in Seq(Nat) /\ left \in [Calls -> Seq(Nat)]
    BY DEF TypeOK
  <2>3. left' \in [Calls -> Seq(Nat)]
    BY <1>9, <2>2, FrontType DEF ScriptEnds
  <2>. QED BY <1>9, <2>1, <2>3 DEF ScriptEnds, TypeOK, log, file, bounds, history
<1>10. CASE ScriptRaises(c)
  <2>1. pc' \in [Calls -> Phases] /\ Placed'
    BY <1>10 DEF ScriptRaises, Goto, TypeOK, Placed, Phases, Over
  <2>2. left' \in [Calls -> Seq(Nat)]
    BY <1>10, NoBatches DEF ScriptRaises, TypeOK
  <2>. QED BY <1>10, <2>1, <2>2 DEF ScriptRaises, TypeOK, log, file, bounds, history
<1>. QED BY <1>1, <1>2, <1>3, <1>4, <1>5, <1>6, <1>7, <1>8, <1>9, <1>10

\* The clock and a crash keep the types.
LEMMA WorldTypes == TypeOK /\ (Tick \/ Crash \/ UNCHANGED vars) => TypeOK'
<1> SUFFICES ASSUME TypeOK, Tick \/ Crash \/ UNCHANGED vars PROVE TypeOK'
  OBVIOUS
<1>1. CASE Tick
  BY <1>1 DEF Tick, TypeOK, Placed, log, file, mine, history
<1>2. CASE Crash
  <2>1. pc' \in [Calls -> Phases] /\ Placed'
    BY <1>2 DEF Crash, TypeOK, Placed, Phases, Over
  <2>2. torn' \in SUBSET Items
    BY <1>2 DEF Crash, TypeOK, Placed
  <2>3. view' \in [Calls -> SUBSET Entries] /\ stamp' \in [Calls -> Nat] /\ queue' \in Seq(Calls)
    BY <1>2 DEF Crash, TypeOK
  <2>4. exposed' \in SUBSET Entries /\ left' \in [Calls -> Seq(Nat)]
    BY <1>2, NoBatches DEF Crash, TypeOK
  <2>. QED BY <1>2, <2>1, <2>2, <2>3, <2>4 DEF Crash, TypeOK, log, file
<1>3. CASE UNCHANGED vars
  BY <1>3 DEF vars, TypeOK, Placed, log, file, mine, bounds, history
<1>. QED BY <1>1, <1>2, <1>3

\* Every step keeps the types.
LEMMA NextTypes == TypeOK /\ [Next]_vars => TypeOK'
  BY LockTypes, MemoryTypes, WorldTypes DEF Next, Begin, Step

\* Types: every item has one of the four statuses, a call that decides or
\* creates has an item, and the lock's queue holds calls.
THEOREM TypeCorrect == Spec => []TypeOK
  BY InitTypes, NextTypes, PTL DEF Spec
-----------------------------------------------------------------------------
(* The files of decisions *)

Core ==
    /\ SnappedHolds /\ QueueSorted /\ Monotone /\ Unborn
    /\ Behind /\ LastDecisionShown /\ Alone /\ DecidedOnce

Filing == {"looked", "queued", "snapped", "creating"}

\* A step that keeps the files and the lock, and whose call is at work on
\* neither before it nor after it.
LEMMA Elsewhere ==
  ASSUME IInv, NEW c \in Calls, NEW p \in Phases \ Filing, pc[c] \notin Filing,
         pc' = [pc EXCEPT ![c] = p],
         UNCHANGED <<shown, at, resolved, recorded, queue, item, stamp, clock, doubled, torn>>
  PROVE  Core'
<1>1. \A d \in Calls : \A q \in Filing : pc'[d] = q <=> pc[d] = q
  BY DEF IInv, TypeOK
<1>2. SnappedHolds'
  BY <1>1 DEF IInv, SnappedHolds, Holds, Filing
<1>3. QueueSorted'
  <2>1. \A k \in 1..Len(queue) : queue[k] \in Calls /\ pc[queue[k]] \in Waiting
    BY DEF IInv, TypeOK, QueueSorted
  <2>. QED BY <1>1, <2>1 DEF IInv, QueueSorted, Waiting, Filing
<1>4. Monotone'
  BY DEF IInv, Monotone
<1>5. Unborn'
  BY <1>1 DEF IInv, Unborn, Filing
<1>6. Behind'
  BY <1>1 DEF IInv, Behind, Filing
<1>7. LastDecisionShown' /\ DecidedOnce'
  BY DEF IInv, LastDecisionShown, DecidedOnce
<1>8. Alone'
  <2>1. \A i \in Items, d \in Calls : Deciding(i, d)' <=> Deciding(i, d)
    BY <1>1 DEF Deciding, Filing
  <2>. QED BY <2>1 DEF IInv, Alone
<1>. QED BY <1>2, <1>3, <1>4, <1>5, <1>6, <1>7, <1>8 DEF Core

\* Work on the memory file keeps Core.
LEMMA MemoryKeeps ==
  ASSUME IInv, NEW c \in Calls,
         \/ Read(c) \/ Truncate(c) \/ Fill(c) \/ Distil(c) \/ Maintain(c) \/ Asked(c)
         \/ ScriptWrites(c) \/ ScriptEnds(c) \/ ScriptRaises(c)
  PROVE  Core'
<1>1. /\ UNCHANGED <<shown, at, resolved, recorded, queue, item, stamp, clock, doubled, torn>>
      /\ pc[c] \notin Filing
  BY DEF Read, Truncate, Fill, Distil, Maintain, Asked, ScriptWrites, ScriptEnds,
         ScriptRaises, Filing, log, mine, bounds, history
<1>2. \E p \in Phases \ Filing : pc' = [pc EXCEPT ![c] = p]
  BY DEF Read, Truncate, Fill, Distil, Maintain, Asked, ScriptWrites, ScriptEnds,
         ScriptRaises, Goto, Filing, Phases, Over
<1>. QED BY <1>1, <1>2, Elsewhere

\* A call joins the queue with the present time.
LEMMA Joins ==
  ASSUME IInv, NEW c \in Calls, NEW p \in Waiting, Enter(c, p),
         pc[c] \notin Waiting, UNCHANGED <<at, clock>>
  PROVE  /\ QueueSorted' /\ Monotone'
         /\ \A d \in Calls : Holds(d) => Holds(d)'
<1>1. /\ queue \in Seq(Calls) /\ queue' = Append(queue, c)
      /\ stamp' = [stamp EXCEPT ![c] = clock] /\ pc' = [pc EXCEPT ![c] = p]
      /\ clock \in Nat /\ stamp \in [Calls -> Nat] /\ pc \in [Calls -> Phases]
      /\ at \in [Items -> Nat]
  BY DEF IInv, TypeOK, Enter, Goto
<1>2. \A k \in 1..Len(queue) : /\ queue[k] \in Calls /\ queue[k] # c
                               /\ queue'[k] = queue[k]
                               /\ stamp'[queue[k]] = stamp[queue[k]]
                               /\ pc'[queue[k]] = pc[queue[k]]
  BY <1>1 DEF IInv, QueueSorted
<1>3. /\ Len(queue') = Len(queue) + 1 /\ queue'[Len(queue) + 1] = c
      /\ Len(queue) \in Nat
  BY <1>1
<1>4. \A d \in Calls : stamp[d] <= clock
  BY DEF IInv, Monotone
<1>5. QueueSorted'
  <2>1. \A k \in 1..Len(queue') : pc'[queue'[k]] \in Waiting
    BY <1>1, <1>2, <1>3 DEF IInv, QueueSorted
  <2>2. ASSUME NEW j \in 1..Len(queue'), NEW k \in 1..Len(queue'), j < k
        PROVE  queue'[j] # queue'[k] /\ stamp'[queue'[j]] <= stamp'[queue'[k]]
    <3>1. CASE k = Len(queue) + 1
      <4>1. j \in 1..Len(queue)
        BY <1>3, <2>2, <3>1
      <4>2. stamp'[c] = clock
        BY <1>1
      <4>. QED BY <1>2, <1>3, <1>4, <3>1, <4>1, <4>2
    <3>2. CASE k # Len(queue) + 1
      <4>1. j \in 1..Len(queue) /\ k \in 1..Len(queue)
        BY <1>3, <2>2, <3>2
      <4>. QED BY <1>2, <2>2, <4>1 DEF IInv, QueueSorted
    <3>. QED BY <3>1, <3>2
  <2>. QED BY <2>1, <2>2 DEF QueueSorted
<1>6. Monotone'
  <2>1. \A d \in Calls : stamp'[d] <= clock'
    BY <1>1, <1>4
  <2>2. ASSUME NEW i \in Items, NEW k \in 1..Len(queue') PROVE at'[i] <= stamp'[queue'[k]]
    <3>1. CASE k = Len(queue) + 1
      BY <1>1, <1>3, <3>1 DEF IInv, Monotone
    <3>2. CASE k # Len(queue) + 1
      <4>1. k \in 1..Len(queue)
        BY <1>3, <3>2
      <4>. QED BY <1>2, <4>1 DEF IInv, Monotone
    <3>. QED BY <3>1, <3>2
  <2>. QED BY <2>1, <2>2 DEF IInv, Monotone
<1>7. \A d \in Calls : Holds(d) => Holds(d)'
  BY <1>1 DEF Holds
<1>. QED BY <1>5, <1>6, <1>7

\* The holder leaves the queue.
LEMMA Leaves ==
  ASSUME IInv, NEW c \in Calls, Holds(c), NEW p \in Phases, queue' = Tail(queue),
         pc' = [pc EXCEPT ![c] = p], stamp' = [stamp EXCEPT ![c] = 0], UNCHANGED clock,
         \A i \in Items : at'[i] <= stamp[c] \/ at'[i] = at[i],
         at' \in [Items -> Nat]
  PROVE  QueueSorted' /\ Monotone'
<1>1. /\ queue \in Seq(Calls) /\ queue # <<>> /\ queue[1] = c
      /\ clock \in Nat /\ stamp \in [Calls -> Nat] /\ pc \in [Calls -> Phases]
      /\ at \in [Items -> Nat]
  BY DEF IInv, TypeOK, Holds
<1>2. /\ Len(queue') = Len(queue) - 1 /\ Len(queue) \in Nat \ {0}
      /\ \A k \in 1..Len(queue') : queue'[k] = queue[k + 1] /\ k + 1 \in 2..Len(queue)
  BY <1>1
<1>3. \A k \in 2..Len(queue) : /\ queue[k] # c /\ queue[k] \in Calls
                               /\ stamp[c] <= stamp[queue[k]]
  <2>1. SUFFICES ASSUME NEW k \in 2..Len(queue)
                 PROVE  queue[k] # c /\ queue[k] \in Calls /\ stamp[c] <= stamp[queue[k]]
    OBVIOUS
  <2>2. 1 \in 1..Len(queue) /\ k \in 1..Len(queue) /\ 1 < k
    BY <1>1
  <2>3. queue[1] # queue[k] /\ stamp[queue[1]] <= stamp[queue[k]]
    BY <2>2 DEF IInv, QueueSorted
  <2>. QED BY <1>1, <2>2, <2>3
<1>4. \A k \in 2..Len(queue) : stamp'[queue[k]] = stamp[queue[k]] /\ pc'[queue[k]] = pc[queue[k]]
  BY <1>1, <1>3
<1>5. QueueSorted'
  <2>1. \A k \in 1..Len(queue') : pc'[queue'[k]] \in Waiting
    BY <1>2, <1>4 DEF IInv, QueueSorted
  <2>2. ASSUME NEW j \in 1..Len(queue'), NEW k \in 1..Len(queue'), j < k
        PROVE  queue'[j] # queue'[k] /\ stamp'[queue'[j]] <= stamp'[queue'[k]]
    <3>1. j + 1 \in 2..Len(queue) /\ k + 1 \in 2..Len(queue) /\ j + 1 < k + 1
      BY <1>2, <2>2
    <3>. QED BY <1>2, <1>4, <3>1 DEF IInv, QueueSorted
  <2>. QED BY <2>1, <2>2 DEF QueueSorted
<1>6. Monotone'
  <2>1. \A d \in Calls : stamp'[d] <= clock'
    BY <1>1 DEF IInv, Monotone
  <2>2. \A i \in Items : at'[i] <= clock'
    BY <1>1 DEF IInv, Monotone
  <2>3. ASSUME NEW i \in Items, NEW k \in 1..Len(queue') PROVE at'[i] <= stamp'[queue'[k]]
    <3>1. k + 1 \in 2..Len(queue) /\ queue'[k] = queue[k + 1]
      BY <1>2
    <3>2. at[i] <= stamp[queue[k + 1]] /\ stamp[queue[k + 1]] \in Nat
      BY <1>1, <1>3, <3>1 DEF IInv, Monotone
    <3>3. stamp[c] <= stamp[queue[k + 1]] /\ stamp'[queue'[k]] = stamp[queue[k + 1]]
      BY <1>3, <1>4, <3>1
    <3>4. at'[i] \in Nat /\ stamp[c] \in Nat /\ (at'[i] <= stamp[c] \/ at'[i] = at[i])
      BY <1>1
    <3>. QED BY <3>2, <3>3, <3>4
  <2>. QED BY <2>1, <2>2, <2>3 DEF Monotone
<1>. QED BY <1>5, <1>6

\* A new pending item is asked for, by an event or by a script.
LEMMA AskKeeps ==
  ASSUME IInv, NEW c \in Calls, Fail(c) \/ ScriptAsks(c)
  PROVE  Core'
<1>1. /\ Enter(c, "creating") /\ pc[c] \notin Filing
      /\ \E i \in Fresh : item' = [item EXCEPT ![c] = i]
      /\ UNCHANGED <<shown, at, resolved, recorded, clock, doubled, torn>>
  BY DEF Fail, ScriptAsks, NewItem, Filing, log, bounds, history
<1>2. PICK i \in Fresh : item' = [item EXCEPT ![c] = i]
  BY <1>1
<1>3. /\ i \in Items /\ shown[i] = "none" /\ \A d \in Calls : item[d] # i
  BY DEF Fresh
<1>4. /\ pc' = [pc EXCEPT ![c] = "creating"]
      /\ pc \in [Calls -> Phases] /\ item \in [Calls -> Items \cup {None}] /\ Placed
  BY <1>1 DEF Enter, Goto, IInv, TypeOK
<1>5. \A d \in Calls \ {c} : pc'[d] = pc[d] /\ item'[d] = item[d]
  BY <1>2, <1>4
<1>6. pc'[c] = "creating" /\ item'[c] = i
  BY <1>2, <1>4
<1>7. QueueSorted' /\ Monotone' /\ \A d \in Calls : Holds(d) => Holds(d)'
  BY <1>1, Joins DEF Waiting, Filing
<1>8. SnappedHolds'
  BY <1>5, <1>6, <1>7 DEF IInv, SnappedHolds
<1>9. Unborn'
  BY <1>1, <1>3, <1>5, <1>6 DEF IInv, Unborn
<1>10. Behind'
  BY <1>1, <1>5, <1>6 DEF IInv, Behind, Filing
<1>11. LastDecisionShown' /\ DecidedOnce'
  BY <1>1 DEF IInv, LastDecisionShown, DecidedOnce
<1>12. Alone'
  <2>1. \A j \in Items, d \in Calls : Deciding(j, d)' => Deciding(j, d)
    BY <1>5, <1>6 DEF Deciding
  <2>. QED BY <1>1, <2>1 DEF IInv, Alone
<1>. QED BY <1>7, <1>8, <1>9, <1>10, <1>11, <1>12 DEF Core

\* Creating an item keeps Core.
LEMMA CreateKeeps ==
  ASSUME IInv, NEW c \in Calls, Create(c)
  PROVE  Core'
<1>1. /\ pc[c] = "creating" /\ item[c] \in Items /\ Holds(c)
      /\ pc' = [pc EXCEPT ![c] = "script"] /\ pc \in [Calls -> Phases]
      /\ queue' = Tail(queue) /\ stamp' = [stamp EXCEPT ![c] = 0]
      /\ shown' = [shown EXCEPT ![item[c]] = "pending"]
      /\ at' = [at EXCEPT ![item[c]] = stamp[c]]
      /\ UNCHANGED <<resolved, recorded, item, clock, doubled, torn>>
  BY DEF Create, Goto, IInv, TypeOK, Placed, bounds, history
<1>2. \A d \in Calls \ {c} : pc'[d] = pc[d]
  BY <1>1
<1>3. pc'[c] = "script"
  BY <1>1
<1>4. shown[item[c]] = "none" /\ resolved[item[c]] = <<>>
  BY <1>1 DEF IInv, Unborn
<1>5. \A d \in Calls : pc[d] # "snapped"
  BY <1>1 DEF IInv, SnappedHolds, Holds
<1>6. SnappedHolds'
  BY <1>2, <1>3, <1>5 DEF SnappedHolds
<1>7. QueueSorted' /\ Monotone'
  <2>1. at \in [Items -> Nat] /\ stamp \in [Calls -> Nat] /\ "script" \in Phases
    BY DEF IInv, TypeOK, Phases
  <2>2. at' \in [Items -> Nat] /\ \A i \in Items : at'[i] <= stamp[c] \/ at'[i] = at[i]
    BY <1>1, <2>1
  <2>. QED BY <1>1, <2>1, <2>2, Leaves
<1>8. /\ shown'[item[c]] = "pending"
      /\ \A i \in Items \ {item[c]} : shown'[i] = shown[i]
  BY <1>1 DEF IInv, TypeOK
<1>9. Unborn'
  <2>1. \A i \in Items : shown'[i] = "none" => resolved'[i] = <<>>
    BY <1>1, <1>8 DEF IInv, Unborn
  <2>2. \A d \in Calls : pc'[d] = "creating" => shown'[item'[d]] = "none"
    <3>1. SUFFICES ASSUME NEW d \in Calls, pc'[d] = "creating" PROVE shown'[item[d]] = "none"
      BY <1>1
    <3>2. d # c /\ pc[d] = "creating"
      BY <1>2, <1>3, <3>1
    <3>3. item[d] # item[c] /\ shown[item[d]] = "none"
      BY <1>1, <3>2 DEF IInv, Unborn
    <3>4. item[d] \in Items
      BY <3>2 DEF IInv, TypeOK, Placed
    <3>. QED BY <1>8, <3>3, <3>4
  <2>3. \A d, e \in Calls :
          pc'[d] = "creating" /\ pc'[e] = "creating" /\ item'[d] = item'[e] => d = e
    BY <1>1, <1>2, <1>3 DEF IInv, Unborn
  <2>4. \A d \in Calls : pc'[d] \in {"looked", "queued"} => shown'[item'[d]] # "none"
    <3>1. SUFFICES ASSUME NEW d \in Calls, pc'[d] \in {"looked", "queued"}
                   PROVE  shown'[item[d]] # "none"
      BY <1>1
    <3>2. pc[d] \in {"looked", "queued"}
      BY <1>2, <1>3, <3>1
    <3>3. item[d] \in Items /\ shown[item[d]] # "none"
      BY <3>2 DEF IInv, TypeOK, Placed, Unborn
    <3>. QED BY <1>8, <3>3
  <2>. QED BY <2>1, <2>2, <2>3, <2>4 DEF Unborn
<1>10. Behind'
  BY <1>1, <1>2, <1>3, <1>5 DEF IInv, Behind
<1>11. LastDecisionShown' /\ DecidedOnce'
  BY <1>1, <1>4, <1>8 DEF IInv, LastDecisionShown, DecidedOnce
<1>12. Alone'
  <2>1. \A j \in Items, d \in Calls : Deciding(j, d)' => Deciding(j, d)
    BY <1>1, <1>2, <1>3 DEF Deciding
  <2>. QED BY <1>1, <2>1 DEF IInv, Alone
<1>. QED BY <1>6, <1>7, <1>9, <1>10, <1>11, <1>12 DEF Core

\* Looking at an item keeps Core.
LEMMA LookKeeps ==
  ASSUME IInv, NEW c \in Calls, NEW i \in Items, Look(c, i)
  PROVE  Core'
<1>1. /\ pc[c] = "idle" /\ shown[i] # "none"
      /\ item' = [item EXCEPT ![c] = i] /\ item \in [Calls -> Items \cup {None}]
      /\ pc \in [Calls -> Phases]
      /\ UNCHANGED <<shown, at, resolved, recorded, queue, stamp, clock, torn>>
      /\ doubled \subseteq doubled'
  BY DEF Look, IInv, TypeOK, log, bounds
<1>2. /\ pc' = [pc EXCEPT ![c] = IF shown[i] = "pending" THEN "looked" ELSE "refused"]
      /\ shown[i] = "pending" /\ (\E d \in Calls : Deciding(i, d)) => i \in doubled'
  BY DEF Look, Goto
<1>3. \A d \in Calls \ {c} : pc'[d] = pc[d] /\ item'[d] = item[d]
  BY <1>1, <1>2
<1>4. /\ pc'[c] \in {"looked", "refused"} /\ item'[c] = i
      /\ pc'[c] = "looked" => shown[i] = "pending"
  BY <1>1, <1>2
<1>5. SnappedHolds'
  BY <1>1, <1>3, <1>4 DEF IInv, SnappedHolds, Holds
<1>6. QueueSorted' /\ Monotone'
  <2>1. \A k \in 1..Len(queue) : queue[k] \in Calls /\ pc[queue[k]] \in Waiting
    BY DEF IInv, TypeOK, QueueSorted
  <2>2. \A k \in 1..Len(queue) : pc'[queue[k]] = pc[queue[k]]
    BY <1>1, <1>3, <2>1 DEF Waiting
  <2>. QED BY <1>1, <2>2 DEF IInv, QueueSorted, Monotone
<1>7. Unborn'
  BY <1>1, <1>3, <1>4 DEF IInv, Unborn
<1>8. Behind'
  BY <1>1, <1>3, <1>4 DEF IInv, Behind
<1>9. LastDecisionShown' /\ DecidedOnce'
  BY <1>1 DEF IInv, LastDecisionShown, DecidedOnce
<1>10. Alone'
  <2>1. SUFFICES ASSUME NEW j \in Items, j \notin doubled'
                 PROVE  /\ \A d, e \in Calls : Deciding(j, d)' /\ Deciding(j, e)' => d = e
                        /\ \A d \in Calls : Deciding(j, d)' => resolved'[j] = <<>>
    BY DEF Alone
  <2>2. j \notin doubled
    BY <1>1, <2>1
  <2>3. \A d \in Calls \ {c} : Deciding(j, d)' <=> Deciding(j, d)
    BY <1>3 DEF Deciding
  <2>4. CASE Deciding(j, c)'
    <3>1. j = i /\ shown[i] = "pending"
      BY <1>4, <2>4 DEF Deciding
    <3>2. \A d \in Calls : ~Deciding(j, d)
      BY <1>2, <2>1, <3>1
    <3>3. resolved[i] = <<>>
      BY <3>1 DEF IInv, LastDecisionShown
    <3>. QED BY <1>1, <2>3, <3>1, <3>2, <3>3
  <2>5. CASE ~Deciding(j, c)'
    BY <1>1, <2>2, <2>3, <2>5 DEF IInv, Alone
  <2>. QED BY <2>4, <2>5
<1>. QED BY <1>5, <1>6, <1>7, <1>8, <1>9, <1>10 DEF Core

\* Taking the stamp and entering the queue of the lock keeps Core.
LEMMA DecideKeeps ==
  ASSUME IInv, NEW c \in Calls, Decide(c)
  PROVE  Core'
<1>1. /\ Enter(c, "queued") /\ pc[c] = "looked" /\ pc \in [Calls -> Phases]
      /\ pc' = [pc EXCEPT ![c] = "queued"]
      /\ UNCHANGED <<shown, at, resolved, recorded, item, clock, doubled, torn>>
  BY DEF Decide, Enter, Goto, IInv, TypeOK, log, bounds, history
<1>2. \A d \in Calls \ {c} : pc'[d] = pc[d]
  BY <1>1
<1>3. pc'[c] = "queued"
  BY <1>1
<1>4. QueueSorted' /\ Monotone' /\ \A d \in Calls : Holds(d) => Holds(d)'
  BY <1>1, Joins DEF Waiting
<1>5. SnappedHolds'
  BY <1>2, <1>3, <1>4 DEF IInv, SnappedHolds
<1>6. Unborn'
  BY <1>1, <1>2, <1>3 DEF IInv, Unborn
<1>7. Behind'
  BY <1>1, <1>2, <1>3 DEF IInv, Behind
<1>8. LastDecisionShown' /\ DecidedOnce'
  BY <1>1 DEF IInv, LastDecisionShown, DecidedOnce
<1>9. Alone'
  <2>1. \A j \in Items, d \in Calls : Deciding(j, d)' <=> Deciding(j, d)
    BY <1>1, <1>2, <1>3 DEF Deciding
  <2>. QED BY <1>1, <2>1 DEF IInv, Alone
<1>. QED BY <1>4, <1>5, <1>6, <1>7, <1>8, <1>9 DEF Core

\* Appending a snapshot keeps Core: it is not older than those before it.
LEMMA SnapshotKeeps ==
  ASSUME IInv, NEW c \in Calls, Snapshot(c)
  PROVE  Core'
<1> DEFINE i == item[c]
<1>1. /\ pc[c] = "queued" /\ i \in Items /\ Holds(c)
      /\ pc' = [pc EXCEPT ![c] = "snapped"] /\ pc \in [Calls -> Phases]
      /\ resolved' = [resolved EXCEPT ![i] = Append(@, c)]
      /\ resolved \in [Items -> Seq(Calls)]
      /\ at \in [Items -> Nat] /\ stamp \in [Calls -> Nat] /\ queue \in Seq(Calls)
      /\ UNCHANGED <<recorded, queue, item, stamp, clock, doubled, torn>>
  BY DEF Snapshot, Goto, IInv, TypeOK, Placed, mine, bounds, history
<1>2. \A d \in Calls \ {c} : pc'[d] = pc[d]
  BY <1>1
<1>3. pc'[c] = "snapped"
  BY <1>1
<1>4. /\ resolved'[i] = Append(resolved[i], c)
      /\ \A j \in Items \ {i} : resolved'[j] = resolved[j]
  BY <1>1
<1>5. \A d \in Calls : pc[d] # "snapped"
  BY <1>1 DEF IInv, SnappedHolds, Holds
<1>6. Newer(i, c)
  <2>1. queue # <<>> /\ queue[1] = c /\ 1 \in 1..Len(queue)
    BY <1>1 DEF Holds
  <2>. QED BY <1>1, <2>1 DEF IInv, Monotone, Newer
<1>7. /\ shown' = [shown EXCEPT ![i] = IF Kind[c] = "confirm" THEN "confirmed" ELSE "rejected"]
      /\ at' = [at EXCEPT ![i] = stamp[c]]
  BY <1>6 DEF Snapshot
<1>8. /\ shown'[i] = IF Kind[c] = "confirm" THEN "confirmed" ELSE "rejected"
      /\ \A j \in Items \ {i} : shown'[j] = shown[j]
  BY <1>1, <1>7 DEF IInv, TypeOK
<1>9. SnappedHolds'
  BY <1>1, <1>2, <1>5 DEF SnappedHolds, Holds
<1>10. QueueSorted'
  <2>1. \A k \in 1..Len(queue) : queue[k] \in Calls /\ pc[queue[k]] \in Waiting
    BY <1>1 DEF IInv, QueueSorted
  <2>2. \A k \in 1..Len(queue) : pc'[queue[k]] \in Waiting
    BY <1>2, <1>3, <2>1 DEF Waiting
  <2>. QED BY <1>1, <2>2 DEF IInv, QueueSorted
<1>11. Monotone'
  <2>1. \A j \in Items : at'[j] <= clock'
    BY <1>1, <1>7 DEF IInv, Monotone
  <2>2. ASSUME NEW j \in Items, NEW k \in 1..Len(queue) PROVE at'[j] <= stamp[queue[k]]
    <3>1. stamp[c] <= stamp[queue[k]]
      <4>1. queue[1] = c /\ 1 \in 1..Len(queue) /\ (k = 1 \/ 1 < k) /\ queue[k] \in Calls
        BY <1>1 DEF Holds
      <4>. QED BY <1>1, <4>1 DEF IInv, QueueSorted
    <3>2. at[j] <= stamp[queue[k]]
      BY DEF IInv, Monotone
    <3>. QED BY <1>1, <1>7, <3>1, <3>2
  <2>3. \A d \in Calls : stamp'[d] <= clock'
    BY <1>1 DEF IInv, Monotone
  <2>. QED BY <1>1, <2>1, <2>2, <2>3 DEF Monotone
<1>12. Unborn'
  <2>1. shown[i] # "none"
    BY <1>1 DEF IInv, Unborn
  <2>2. shown'[i] # "none"
    BY <1>8
  <2>3. \A j \in Items : shown'[j] = "none" => resolved'[j] = <<>>
    BY <1>4, <1>8, <2>2 DEF IInv, Unborn
  <2>4. \A j \in Items : shown'[j] = "none" <=> shown[j] = "none"
    BY <1>8, <2>1, <2>2
  <2>5. \A d \in Calls : pc[d] \in {"creating", "looked", "queued"} => item[d] \in Items
    BY DEF IInv, TypeOK, Placed
  <2>6. \A d \in Calls : \A p \in {"creating", "looked", "queued"} : pc'[d] = p => pc[d] = p
    BY <1>2, <1>3
  <2>7. \A d \in Calls : pc'[d] = "creating" => shown'[item'[d]] = "none"
    BY <1>1, <2>4, <2>5, <2>6 DEF IInv, Unborn
  <2>8. \A d \in Calls : pc'[d] \in {"looked", "queued"} => shown'[item'[d]] # "none"
    BY <1>1, <2>4, <2>5, <2>6 DEF IInv, Unborn
  <2>9. \A d, e \in Calls :
          pc'[d] = "creating" /\ pc'[e] = "creating" /\ item'[d] = item'[e] => d = e
    BY <1>1, <2>6 DEF IInv, Unborn
  <2>. QED BY <2>3, <2>7, <2>8, <2>9 DEF Unborn
<1>13. Behind'
  <2>1. \A j \in Items \ torn : resolved[j] = recorded[j]
    BY <1>5 DEF IInv, Behind
  <2>2. \A d \in Calls : pc'[d] = "snapped" => d = c
    BY <1>2, <1>5
  <2>3. \A d \in Calls : pc'[d] = "snapped" /\ item'[d] \notin torn' =>
          resolved'[item'[d]] = Append(recorded'[item'[d]], d)
    BY <1>1, <1>4, <2>1, <2>2
  <2>4. \A j \in Items \ torn' :
          resolved'[j] = recorded'[j] \/ \E d \in Calls : pc'[d] = "snapped" /\ item'[d] = j
    BY <1>1, <1>3, <1>4, <2>1
  <2>. QED BY <2>3, <2>4 DEF Behind
<1>14. LastDecisionShown'
  <2>1. resolved'[i][Len(resolved'[i])] = c
    BY <1>1, <1>4
  <2>2. \A j \in Items : resolved'[j] # <<>> =>
          shown'[j] = IF Kind[resolved'[j][Len(resolved'[j])]] = "confirm"
                      THEN "confirmed" ELSE "rejected"
    BY <1>4, <1>8, <2>1 DEF IInv, LastDecisionShown
  <2>. QED BY <2>2 DEF LastDecisionShown
<1>15. Alone' /\ DecidedOnce'
  <2>1. \A j \in Items, d \in Calls : Deciding(j, d)' => d # c /\ Deciding(j, d)
    BY <1>1, <1>2, <1>3 DEF Deciding
  <2>2. Deciding(i, c)
    BY <1>1 DEF Deciding
  <2>3. i \notin doubled => resolved[i] = <<>> /\ \A d \in Calls : ~Deciding(i, d)'
    BY <1>1, <2>1, <2>2 DEF IInv, Alone
  <2>4. i \notin doubled => Len(resolved'[i]) = 1
    BY <1>1, <1>4, <2>3
  <2>5. Alone'
    BY <1>1, <1>4, <2>1, <2>3 DEF IInv, Alone
  <2>6. \A j \in Items \ doubled : Len(resolved'[j]) <= 1
    BY <1>4, <2>4 DEF IInv, DecidedOnce
  <2>. QED BY <1>1, <2>5, <2>6 DEF DecidedOnce
<1>. QED BY <1>9, <1>10, <1>11, <1>12, <1>13, <1>14, <1>15 DEF Core

\* Appending the decision keeps Core.
LEMMA RecordKeeps ==
  ASSUME IInv, NEW c \in Calls, Record(c)
  PROVE  Core'
<1> DEFINE i == item[c]
<1>1. /\ pc[c] = "snapped" /\ i \in Items /\ Holds(c)
      /\ pc \in [Calls -> Phases] /\ recorded \in [Items -> Seq(Calls)]
      /\ recorded' = [recorded EXCEPT ![i] = Append(@, c)]
      /\ queue' = Tail(queue) /\ stamp' = [stamp EXCEPT ![c] = 0]
      /\ UNCHANGED <<shown, at, resolved, item, clock, doubled, torn>>
  BY DEF Record, IInv, TypeOK, Placed, bounds, history
<1>2. PICK p \in {"read", "script"} : pc' = [pc EXCEPT ![c] = p]
  BY DEF Record, Goto
<1>3. /\ \A d \in Calls \ {c} : pc'[d] = pc[d]
      /\ pc'[c] \in {"read", "script"}
  BY <1>1, <1>2
<1>4. \A d \in Calls : pc[d] = "snapped" => d = c
  BY <1>1 DEF IInv, SnappedHolds, Holds
<1>5. SnappedHolds'
  BY <1>3, <1>4 DEF SnappedHolds
<1>6. QueueSorted' /\ Monotone'
  <2>1. p \in Phases /\ at' \in [Items -> Nat]
    BY <1>1 DEF IInv, TypeOK, Phases
  <2>. QED BY <1>1, <1>2, <2>1, Leaves
<1>7. Unborn'
  BY <1>1, <1>3 DEF IInv, Unborn
<1>8. Behind'
  <2>1. \A d \in Calls : pc'[d] # "snapped"
    BY <1>3, <1>4
  <2>2. i \notin torn => resolved[i] = Append(recorded[i], c)
    BY <1>1 DEF IInv, Behind
  <2>3. \A j \in Items \ torn : j # i => resolved[j] = recorded[j]
    BY <1>4 DEF IInv, Behind
  <2>. QED BY <1>1, <2>1, <2>2, <2>3 DEF Behind
<1>9. LastDecisionShown' /\ DecidedOnce'
  BY <1>1 DEF IInv, LastDecisionShown, DecidedOnce
<1>10. Alone'
  <2>1. \A j \in Items, d \in Calls : Deciding(j, d)' <=> Deciding(j, d)
    BY <1>1, <1>3 DEF Deciding
  <2>. QED BY <1>1, <2>1 DEF IInv, Alone
<1>. QED BY <1>5, <1>6, <1>7, <1>8, <1>9, <1>10 DEF Core

\* The clock and a crash keep Core.
LEMMA WorldKeeps ==
  ASSUME IInv, Tick \/ Crash \/ UNCHANGED vars
  PROVE  Core'
<1>1. CASE Tick
  <2>1. /\ clock' = clock + 1 /\ clock \in Nat
        /\ at \in [Items -> Nat] /\ stamp \in [Calls -> Nat]
        /\ UNCHANGED <<shown, at, resolved, recorded, queue, pc, item, stamp, doubled, torn>>
    BY <1>1 DEF Tick, IInv, TypeOK, log, mine, history
  <2>2. Monotone'
    BY <2>1 DEF IInv, Monotone
  <2>3. SnappedHolds' /\ QueueSorted' /\ Unborn' /\ Behind'
    BY <2>1 DEF IInv, SnappedHolds, Holds, QueueSorted, Unborn, Behind
  <2>4. LastDecisionShown' /\ Alone' /\ DecidedOnce'
    BY <2>1 DEF IInv, LastDecisionShown, Alone, DecidedOnce, Deciding
  <2>. QED BY <2>2, <2>3, <2>4 DEF Core
<1>2. CASE Crash
  <2>1. /\ queue' = <<>> /\ stamp' = [c \in Calls |-> 0] /\ clock \in Nat
        /\ torn' = torn \cup {item[c] : c \in {d \in Calls : pc[d] = "snapped"}}
        /\ UNCHANGED <<shown, at, resolved, recorded, item, clock, doubled>>
    BY <1>2 DEF Crash, IInv, TypeOK, log
  <2>2. \A c \in Calls : pc'[c] \in Over \cup {"idle"}
    BY <1>2 DEF Crash, Over
  <2>3. \A c \in Calls : pc'[c] \notin Filing
    BY <2>2 DEF Over, Filing
  <2>4. SnappedHolds' /\ QueueSorted' /\ Unborn'
    BY <2>1, <2>3 DEF IInv, SnappedHolds, QueueSorted, Unborn, Filing
  <2>5. Monotone'
    BY <2>1 DEF IInv, Monotone
  <2>6. Behind'
    BY <2>1, <2>3 DEF IInv, Behind, Filing
  <2>7. LastDecisionShown' /\ DecidedOnce'
    BY <2>1 DEF IInv, LastDecisionShown, DecidedOnce
  <2>8. Alone'
    BY <2>3 DEF Alone, Deciding, Filing
  <2>. QED BY <2>4, <2>5, <2>6, <2>7, <2>8 DEF Core
<1>3. CASE UNCHANGED vars
  <2>1. UNCHANGED <<shown, at, resolved, recorded, queue, pc, item, stamp, clock, doubled, torn>>
    BY <1>3 DEF vars, log, mine, bounds, history
  <2>2. SnappedHolds' /\ QueueSorted' /\ Unborn' /\ Behind' /\ Monotone'
    BY <2>1 DEF IInv, SnappedHolds, Holds, QueueSorted, Unborn, Behind, Monotone
  <2>3. LastDecisionShown' /\ Alone' /\ DecidedOnce'
    BY <2>1 DEF IInv, LastDecisionShown, Alone, DecidedOnce, Deciding
  <2>. QED BY <2>2, <2>3 DEF Core
<1>. QED BY <1>1, <1>2, <1>3

-----------------------------------------------------------------------------

\* IInv holds at first.
LEMMA InitKeeps == Init => IInv
<1> SUFFICES ASSUME Init PROVE IInv
  OBVIOUS
<1>1. SnappedHolds /\ QueueSorted /\ Monotone /\ Unborn
  BY DEF Init, SnappedHolds, QueueSorted, Monotone, Unborn
<1>2. Behind /\ LastDecisionShown /\ Alone /\ DecidedOnce
  BY DEF Init, Behind, LastDecisionShown, Alone, DecidedOnce, Deciding
<1>. QED BY <1>1, <1>2, InitTypes DEF IInv

\* Every step keeps IInv.
LEMMA NextKeeps == IInv /\ [Next]_vars => IInv'
<1> SUFFICES ASSUME IInv, [Next]_vars PROVE IInv'
  OBVIOUS
<1>1. TypeOK'
  BY NextTypes DEF IInv
<1>2. Core'
  BY AskKeeps, CreateKeeps, LookKeeps, DecideKeeps, SnapshotKeeps, RecordKeeps,
     MemoryKeeps, WorldKeeps DEF Next, Begin, Step
<1>. QED BY <1>1, <1>2 DEF IInv, Core

\* IInv holds in every state.
LEMMA Invariance == Spec => []IInv
  BY InitKeeps, NextKeeps, PTL DEF Spec

\* What a list of pending items shows is the decision appended last, for any
\* number of resolvers, whatever ticks their stamps fall in, across crashes.
THEOREM LastDecisionIsShown == Spec => []LastDecisionShown
  <1>1. IInv => LastDecisionShown
    BY DEF IInv
  <1>. QED BY Invariance, <1>1, PTL

\* The audit file and the item file agree, but for the call between its two
\* appends and the items a crash cut off there.
THEOREM FilesAgree == Spec => []LogsAgree
  <1>1. IInv => LogsAgree
    BY DEF IInv, Behind, LogsAgree
  <1>. QED BY Invariance, <1>1, PTL

\* An item that no two calls found pending together is decided once.
THEOREM OneDecision == Spec => []DecidedOnce
  <1>1. IInv => DecidedOnce
    BY DEF IInv
  <1>. QED BY Invariance, <1>1, PTL
-----------------------------------------------------------------------------
(* The memory file *)

\* What no overlap of two updates and no cut file has put at risk.
Safe == owed \ exposed

\* Whoever is about to write the file has read all of it ...
SeenAll == \A c \in Calls : pc[c] \in {"truncate", "fill"} => Safe \subseteq view[c]

\* ... and whoever is about to replace the preferences has read those.
SeenPreferences == \A c \in Calls : Updating(c) => Preferences(Safe) \subseteq view[c]

Undisturbed == SeenAll /\ SeenPreferences /\ MemoryKept

MemoryInv == TypeOK /\ Undisturbed

\* A step of a call that is in no update before it or after it changes
\* nothing that the invariant speaks of.
LEMMA OutsideUpdates ==
  ASSUME MemoryInv, NEW c \in Calls, ~Updating(c), NEW p \in Phases,
         p \notin {"asking", "truncate", "fill"}, pc' = [pc EXCEPT ![c] = p],
         p = "read" => op'[c] # "replace",
         \A d \in Calls \ {c} : op'[d] = op[d],
         UNCHANGED <<view, memory, owed, exposed>>
  PROVE  Undisturbed'
<1>1. pc \in [Calls -> Phases] /\ SeenAll /\ SeenPreferences /\ MemoryKept
  BY DEF MemoryInv, TypeOK, Undisturbed
<1>2. (\A d \in Calls \ {c} : pc'[d] = pc[d]) /\ pc'[c] = p
  BY <1>1
<1>3. \A d \in Calls : Updating(d)' => Updating(d)
  BY <1>2 DEF Updating
<1>4. \A d \in Calls : pc'[d] \in {"truncate", "fill"} => pc[d] = pc'[d]
  BY <1>2
<1>5. Safe' = Safe /\ Preferences(Safe)' = Preferences(Safe)
  BY DEF Safe, Preferences
<1>6. SeenAll' /\ SeenPreferences'
  BY <1>1, <1>3, <1>4, <1>5 DEF SeenAll, SeenPreferences
<1>7. (\A d \in Calls : pc'[d] # "fill") => \A d \in Calls : pc[d] # "fill"
  BY <1>2 DEF Updating
<1>8. MemoryKept'
  BY <1>1, <1>7 DEF MemoryKept
<1>. QED BY <1>6, <1>8 DEF Undisturbed

\* Deciding, creating, recording and the script do not touch the file.
LEMMA FilingUndisturbed ==
  ASSUME MemoryInv, NEW c \in Calls,
         \/ Fail(c) \/ Create(c) \/ Decide(c) \/ Snapshot(c) \/ Record(c) \/ Distil(c)
         \/ ScriptAsks(c) \/ ScriptWrites(c) \/ ScriptEnds(c) \/ ScriptRaises(c)
         \/ \E i \in Items : Look(c, i)
  PROVE  Undisturbed'
<1>1. /\ ~Updating(c)
      /\ UNCHANGED <<view, memory, owed, exposed>>
  BY DEF Fail, Create, Decide, Snapshot, Record, Distil, ScriptAsks, ScriptWrites,
         ScriptEnds, ScriptRaises, Look, Updating, file, mine, history
<1>2. op \in [Calls -> Ops]
  BY DEF MemoryInv, TypeOK
<1>3. \A d \in Calls \ {c} : op'[d] = op[d]
  BY <1>2 DEF Fail, Create, Decide, Snapshot, Record, Distil, ScriptAsks, ScriptWrites,
         ScriptEnds, ScriptRaises, Look, mine
<1>4. PICK p \in Phases : pc' = [pc EXCEPT ![c] = p] /\ p \notin {"asking", "truncate", "fill"}
                          /\ (p = "read" => op'[c] # "replace")
  <2>1. CASE Fail(c) \/ Create(c) \/ Decide(c) \/ Snapshot(c) \/ ScriptAsks(c)
    BY <2>1 DEF Fail, Create, Decide, Snapshot, ScriptAsks, Enter, Goto, Phases, Over
  <2>2. CASE \E i \in Items : Look(c, i)
    BY <2>2 DEF Look, Goto, Phases, Over
  <2>3. CASE Record(c)
    BY <1>2, <2>3 DEF Record, Goto, Phases, Over
  <2>4. CASE ScriptWrites(c)
    BY <1>2, <2>4 DEF ScriptWrites, Goto, Phases, Over
  <2>5. CASE Distil(c)
    BY <1>2, <2>5 DEF Distil, Goto, Phases, Over
  <2>6. CASE ScriptEnds(c) \/ ScriptRaises(c)
    BY <2>6 DEF ScriptEnds, ScriptRaises, Goto, Phases, Over
  <2>. QED BY <2>1, <2>2, <2>3, <2>4, <2>5, <2>6
<1>. QED BY <1>1, <1>3, <1>4, OutsideUpdates

\* A file nobody has cut holds all that is safe, for whoever reads it.
LEMMA ReadsAll ==
  ASSUME MemoryInv, NEW c \in Calls, pc[c] # "fill", UNCHANGED owed,
         exposed' = IF Cut(c) THEN owed ELSE exposed
  PROVE  Safe' \subseteq memory /\ Safe' \subseteq Safe
<1>1. CASE Cut(c)
  BY <1>1 DEF Safe
<1>2. CASE ~Cut(c)
  <2>1. \A d \in Calls : pc[d] # "fill"
    BY <1>2 DEF Cut
  <2>2. Safe' = Safe
    BY <1>2 DEF Safe
  <2>. QED BY <2>1, <2>2 DEF MemoryInv, Undisturbed, MemoryKept, Safe
<1>. QED BY <1>1, <1>2

\* Before the model is asked the file is read.
LEMMA MaintainUndisturbed ==
  ASSUME MemoryInv, NEW c \in Calls, Maintain(c)
  PROVE  Undisturbed'
<1>1. /\ pc[c] = "distilled" /\ view' = [view EXCEPT ![c] = memory]
      /\ pc' = [pc EXCEPT ![c] = "asking"]
      /\ exposed' = IF Cut(c) THEN owed ELSE exposed
      /\ UNCHANGED <<memory, owed, op>>
  BY DEF Maintain, Goto, file
<1>2. /\ pc \in [Calls -> Phases] /\ view \in [Calls -> SUBSET Entries]
      /\ SeenAll /\ SeenPreferences /\ MemoryKept
  BY DEF MemoryInv, TypeOK, Undisturbed
<1>3. Safe' \subseteq memory /\ Safe' \subseteq Safe
  BY <1>1, ReadsAll
<1>4. \A d \in Calls \ {c} : pc'[d] = pc[d] /\ view'[d] = view[d]
  BY <1>1, <1>2
<1>5. pc'[c] = "asking" /\ view'[c] = memory
  BY <1>1, <1>2
<1>6. SeenAll'
  BY <1>2, <1>3, <1>4, <1>5 DEF SeenAll
<1>7. Preferences(Safe)' \subseteq memory /\ Preferences(Safe)' \subseteq Preferences(Safe)
  BY <1>3 DEF Preferences
<1>8. SeenPreferences'
  BY <1>1, <1>2, <1>4, <1>5, <1>7 DEF SeenPreferences, Updating
<1>9. MemoryKept'
  BY <1>1, <1>3 DEF MemoryKept, Safe
<1>. QED BY <1>6, <1>8, <1>9 DEF Undisturbed

\* Answered or not, the call has seen what it saw.
LEMMA AskedUndisturbed ==
  ASSUME MemoryInv, NEW c \in Calls, Asked(c)
  PROVE  Undisturbed'
<1>1. pc[c] = "asking" /\ UNCHANGED <<memory, owed, exposed, view>>
  BY DEF Asked, file, history
<1>2. /\ pc \in [Calls -> Phases] /\ op \in [Calls -> Ops]
      /\ SeenAll /\ SeenPreferences /\ MemoryKept
  BY DEF MemoryInv, TypeOK, Undisturbed
<1>3. \A d \in Calls \ {c} : pc'[d] = pc[d] /\ op'[d] = op[d]
  BY <1>2 DEF Asked, Goto
<1>4. pc'[c] \in {"read", "done"} /\ Updating(c)
  BY <1>1, <1>2 DEF Asked, Goto, Updating
<1>5. \A d \in Calls : Updating(d)' => Updating(d)
  BY <1>3, <1>4 DEF Updating
<1>6. \A d \in Calls : pc'[d] \in {"truncate", "fill"} => pc[d] = pc'[d]
  BY <1>3, <1>4
<1>7. Safe' = Safe /\ Preferences(Safe)' = Preferences(Safe)
  BY <1>1 DEF Safe, Preferences
<1>8. SeenAll' /\ SeenPreferences'
  BY <1>1, <1>2, <1>5, <1>6, <1>7 DEF SeenAll, SeenPreferences
<1>9. \A d \in Calls : pc'[d] # "fill" => pc[d] # "fill"
  BY <1>1, <1>3
<1>10. MemoryKept'
  BY <1>1, <1>2, <1>9 DEF MemoryKept
<1>. QED BY <1>8, <1>10 DEF Undisturbed

\* What is read is all that is safe: the file as it is, or the preferences
\* seen before the model was asked and the rest of the file as it is.
LEMMA ReadUndisturbed ==
  ASSUME MemoryInv, NEW c \in Calls, Read(c)
  PROVE  Undisturbed'
<1>1. /\ pc[c] = "read" /\ pc' = [pc EXCEPT ![c] = "truncate"]
      /\ exposed' = IF Cut(c) THEN owed ELSE exposed
      /\ UNCHANGED <<memory, owed, op>>
  BY DEF Read, Goto, file
<1>2. /\ pc \in [Calls -> Phases] /\ view \in [Calls -> SUBSET Entries]
      /\ SeenAll /\ SeenPreferences /\ MemoryKept
  BY DEF MemoryInv, TypeOK, Undisturbed
<1>3. Safe' \subseteq memory /\ Safe' \subseteq Safe
  BY <1>1, ReadsAll
<1>4. \A d \in Calls \ {c} : pc'[d] = pc[d] /\ view'[d] = view[d]
  BY <1>1, <1>2 DEF Read
<1>5. pc'[c] = "truncate"
  BY <1>1, <1>2
<1>6. Preferences(Safe)' \subseteq Safe' /\ Preferences(Safe)' \subseteq Preferences(Safe)
  BY <1>3 DEF Preferences
<1>7. Safe' \subseteq view'[c]
  <2>1. CASE op[c] = "replace"
    <3>1. view'[c] = Preferences(view[c]) \cup (memory \ Preferences(memory))
      BY <1>2, <2>1 DEF Read
    <3>2. Preferences(Safe) \subseteq view[c]
      BY <1>1, <1>2, <2>1 DEF SeenPreferences, Updating
    <3>. QED BY <1>3, <3>1, <3>2 DEF Preferences
  <2>2. CASE op[c] # "replace"
    BY <1>2, <1>3, <2>2 DEF Read
  <2>. QED BY <2>1, <2>2
<1>8. SeenAll'
  BY <1>2, <1>3, <1>4, <1>7 DEF SeenAll
<1>9. SeenPreferences'
  BY <1>1, <1>2, <1>4, <1>6, <1>7 DEF SeenPreferences, Updating
<1>10. MemoryKept'
  BY <1>1, <1>3 DEF MemoryKept, Safe
<1>. QED BY <1>8, <1>9, <1>10 DEF Undisturbed

\* The file is empty for a moment, and the call that will fill it has all.
LEMMA TruncateUndisturbed ==
  ASSUME MemoryInv, NEW c \in Calls, Truncate(c)
  PROVE  Undisturbed'
<1>1. /\ pc[c] = "truncate" /\ pc' = [pc EXCEPT ![c] = "fill"]
      /\ UNCHANGED <<owed, exposed, view, op>>
  BY DEF Truncate, Goto, mine, history
<1>2. pc \in [Calls -> Phases] /\ SeenAll /\ SeenPreferences
  BY DEF MemoryInv, TypeOK, Undisturbed
<1>3. \A d \in Calls \ {c} : pc'[d] = pc[d]
  BY <1>1, <1>2
<1>4. pc'[c] = "fill"
  BY <1>1, <1>2
<1>5. Safe' = Safe /\ Preferences(Safe)' = Preferences(Safe)
  BY <1>1 DEF Safe, Preferences
<1>6. \A d \in Calls : Updating(d)' => Updating(d)
  BY <1>1, <1>3 DEF Updating
<1>7. SeenAll'
  BY <1>1, <1>2, <1>3, <1>5 DEF SeenAll
<1>8. SeenPreferences'
  BY <1>1, <1>2, <1>5, <1>6 DEF SeenPreferences
<1>9. MemoryKept'
  BY <1>4 DEF MemoryKept
<1>. QED BY <1>7, <1>8, <1>9 DEF Undisturbed

\* Filling ends the update with all that was safe and one entry more, which is
\* at risk if somebody else is to write the file without it.
LEMMA FillUndisturbed ==
  ASSUME MemoryInv, NEW c \in Calls, Fill(c)
  PROVE  Undisturbed'
<1> DEFINE e == Entry(c)
<1>1. /\ pc[c] = "fill" /\ owed' = owed \cup {e}
      /\ exposed' = IF Overlooked(c, e) THEN exposed \cup {e} ELSE exposed
      /\ view' = [view EXCEPT ![c] = {}]
      /\ view[c] \cup {e} \subseteq memory'
  BY DEF Fill
<1>2. /\ pc \in [Calls -> Phases] /\ op \in [Calls -> Ops] /\ view \in [Calls -> SUBSET Entries]
      /\ SeenAll /\ SeenPreferences
  BY DEF MemoryInv, TypeOK, Undisturbed
<1>3. \A d \in Calls \ {c} : pc'[d] = pc[d] /\ op'[d] = op[d] /\ view'[d] = view[d]
  BY <1>1, <1>2 DEF Fill, Goto
<1>4. pc'[c] \notin {"truncate", "fill"} /\ ~Updating(c)'
  BY <1>2 DEF Fill, Goto, Updating
<1>5. Safe' \subseteq Safe \cup {e} /\ (Overlooked(c, e) => Safe' \subseteq Safe)
  BY <1>1 DEF Safe
<1>6. Safe \subseteq view[c]
  BY <1>1, <1>2 DEF SeenAll
<1>7. SeenAll'
  <2>1. SUFFICES ASSUME NEW d \in Calls \ {c}, pc[d] \in {"truncate", "fill"}
                 PROVE  Safe' \subseteq view[d]
    BY <1>3, <1>4 DEF SeenAll
  <2>2. Overlooked(c, e)
    BY <2>1 DEF Overlooked
  <2>. QED BY <1>2, <1>5, <2>1, <2>2 DEF SeenAll
<1>8. SeenPreferences'
  <2>1. SUFFICES ASSUME NEW d \in Calls \ {c}, Updating(d)
                 PROVE  Preferences(Safe)' \subseteq view[d]
    BY <1>3, <1>4 DEF SeenPreferences, Updating
  <2>2. Preferences(Safe) \subseteq view[d]
    BY <1>2, <2>1 DEF SeenPreferences
  <2>3. CASE e[1] = "preferences"
    <3>1. Overlooked(c, e)
      BY <2>1, <2>3 DEF Overlooked
    <3>. QED BY <1>5, <2>2, <3>1 DEF Preferences
  <2>4. CASE e[1] # "preferences"
    BY <1>5, <2>2, <2>4 DEF Preferences
  <2>. QED BY <2>3, <2>4
<1>9. MemoryKept'
  BY <1>1, <1>5, <1>6 DEF MemoryKept, Safe
<1>. QED BY <1>7, <1>8, <1>9 DEF Undisturbed

\* The clock and a crash keep MemoryInv.
LEMMA WorldUndisturbed ==
  ASSUME MemoryInv, Tick \/ Crash \/ UNCHANGED vars
  PROVE  Undisturbed'
<1>1. CASE Tick \/ UNCHANGED vars
  <2>1. UNCHANGED <<pc, op, view, memory, owed, exposed>>
    BY <1>1 DEF Tick, vars, file, mine, history
  <2>. QED BY <2>1 DEF MemoryInv, Undisturbed, SeenAll, SeenPreferences, MemoryKept,
                       Updating, Safe, Preferences
<1>2. CASE Crash
  <2>1. UNCHANGED <<memory, owed>>
    BY <1>2 DEF Crash, file
  <2>2. \A c \in Calls : pc'[c] \in Over \cup {"idle"}
    BY <1>2 DEF Crash, Over
  <2>3. \A c \in Calls : ~Updating(c)' /\ pc'[c] \notin {"truncate", "fill"}
    BY <2>2 DEF Updating, Over
  <2>4. SeenAll' /\ SeenPreferences'
    BY <2>3 DEF SeenAll, SeenPreferences
  <2>5. CASE \E c \in Calls : pc[c] = "fill"
    BY <1>2, <2>1, <2>4, <2>5 DEF Crash, Undisturbed, MemoryKept
  <2>6. CASE \A c \in Calls : pc[c] # "fill"
    <3>1. exposed' = exposed
      BY <1>2, <2>6 DEF Crash
    <3>. QED BY <2>1, <2>4, <2>6, <3>1 DEF MemoryInv, Undisturbed, MemoryKept
  <2>. QED BY <2>5, <2>6
<1>. QED BY <1>1, <1>2

\* MemoryInv holds at first.
LEMMA InitUndisturbed == Init => MemoryInv
<1> SUFFICES ASSUME Init PROVE MemoryInv
  OBVIOUS
<1>1. SeenAll /\ SeenPreferences /\ MemoryKept
  BY DEF Init, SeenAll, SeenPreferences, MemoryKept, Updating
<1>. QED BY <1>1, InitTypes DEF MemoryInv, Undisturbed

\* Every step keeps MemoryInv.
LEMMA NextUndisturbed == MemoryInv /\ [Next]_vars => MemoryInv'
<1> SUFFICES ASSUME MemoryInv, [Next]_vars PROVE MemoryInv'
  OBVIOUS
<1>1. TypeOK'
  BY NextTypes DEF MemoryInv
<1>2. Undisturbed'
  BY FilingUndisturbed, MaintainUndisturbed, AskedUndisturbed, ReadUndisturbed,
     TruncateUndisturbed, FillUndisturbed, WorldUndisturbed DEF Next, Begin, Step
<1>. QED BY <1>1, <1>2 DEF MemoryInv

\* Whatever a confirmed item, a script or a distillation has written stays in
\* the memory file, with any number of writers at any points of their updates,
\* scripts that answer their own events among them, unless it was written while
\* another update was between its reading and its writing, or the file was read,
\* or a crash came, while it was cut.
THEOREM MemoryIsKept == Spec => []MemoryKept
  <1>1. MemoryInv => MemoryKept
    BY DEF MemoryInv, Undisturbed
  <1>. QED BY InitUndisturbed, NextUndisturbed, <1>1, PTL DEF Spec
=============================================================================
