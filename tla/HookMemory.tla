----------------------------- MODULE HookMemory -----------------------------
(***************************************************************************)
(* Pending items of one hook module and user, and the user's MEMORY.md.    *)
(* An event of a run leaves a pending item (hooks/runtime_builtin.py); a   *)
(* client confirms or rejects it (api/routes_hooks.py); the decision is    *)
(* kept in two append-only files under one lock (hooks/runtime_store.py),  *)
(* a confirmed item is written to the memory file (hooks/runtime_sinks.py) *)
(* and the decision is announced to the hooks, among them a script that    *)
(* may ask for more of the same (hooks/runtime.py).  The background task   *)
(* of a finished turn distils the user's preferences into the same file    *)
(* (memory/auto_write.py).                                                 *)
(*                                                                         *)
(* Every request builds a MemoryManager of its own (request_orchestrator,  *)
(* runtime_sinks), and with it a lock of its own: nothing keeps two of     *)
(* them from reading and rewriting the file at the same time, so there is  *)
(* no memory lock in this module.                                          *)
(*                                                                         *)
(* Abstracted: the event and context files, which no decision reads; the   *)
(* text of an entry; the several lines one distillation may give, which    *)
(* are one; a maintainer that drops a preference by its own judgement.     *)
(***************************************************************************)
EXTENDS Naturals, SequencesExt, FiniteSets

CONSTANTS
    Calls,       \* requests, events and background tasks
    Items,       \* ids of pending items
    None,        \* no item
    Kind,        \* what a call is
    Hears,       \* the events the script is registered for
    MaxActions,  \* actions a script returns to one event
    MaxDepth,    \* events announced within each other: the recursion limit
    MaxClock,    \* bound: ticks of the wall clock
    MaxCrashes   \* bound: crashes of the process

Kinds == {"event", "confirm", "reject", "turn"}
Events == {"run.failed", "memory.confirmed", "memory.rejected"}
Resolvers == {"confirm", "reject"}

ASSUME KindAssumption == Kind \in [Calls -> Kinds]
ASSUME NoneAssumption == None \notin Items
ASSUME BoundAssumption ==
    /\ MaxActions \in Nat /\ MaxDepth \in Nat \ {0}
    /\ MaxClock \in Nat /\ MaxCrashes \in Nat
ASSUME HearsAssumption == Hears \in SUBSET Events

VARIABLES
    shown,     \* pending.jsonl as _load_pending_index reads it: the status
    at,        \* ... and the updated_at of an item's latest snapshot
    resolved,  \* pending.jsonl: the calls whose resolved snapshots it holds
    recorded,  \* decisions.jsonl: the calls whose records it holds
    queue,     \* the lock of the module and user: its holder and the waiters
    memory,    \* the entries in MEMORY.md
    made,      \* MEMORY.md exists
    pc, item,
    stamp,     \* updated_at of the snapshot a call is to append
    op,        \* what a call is to write to the memory file
    view,      \* the entries a call has read from the memory file
    left,      \* actions the script has still to see done, per event that it
               \* hears within another, the innermost last
    clock, crashes,
    owed,      \* history: entries whose write has ended
    doubled,   \* history: items two calls found pending together
    torn,      \* history: items whose record a crash cut off
    exposed    \* history: entries that another update did not know of, or
               \* that were not in the file while it was read or cut

log == <<shown, at, resolved, recorded>>
file == <<memory, made>>
mine == <<item, stamp, op, view, left>>
bounds == <<clock, crashes>>
history == <<owed, doubled, torn, exposed>>
vars == <<log, queue, file, pc, mine, bounds, history>>

Sections == {"hook", "preferences", "usage"}
Entries == Sections \X Calls
Ops == {"hook", "append", "replace", "usage"}
Resolved == {"confirmed", "rejected"}
Over == {"done", "refused", "raised", "gone"}
Phases == Over \cup
    {"idle", "looked", "queued", "snapped", "creating", "script",
     "distilled", "asking", "read", "truncate", "fill"}

\* A call that works on the two files works on an item.
Placed == \A c \in Calls :
    pc[c] \in {"looked", "queued", "snapped", "creating"} => item[c] \in Items

TypeOK ==
    /\ shown \in [Items -> {"none", "pending"} \cup Resolved]
    /\ at \in [Items -> Nat]
    /\ resolved \in [Items -> Seq(Calls)]
    /\ recorded \in [Items -> Seq(Calls)]
    /\ queue \in Seq(Calls)
    /\ memory \in SUBSET Entries
    /\ made \in BOOLEAN
    /\ pc \in [Calls -> Phases]
    /\ item \in [Calls -> Items \cup {None}]
    /\ stamp \in [Calls -> Nat]
    /\ op \in [Calls -> Ops]
    /\ view \in [Calls -> SUBSET Entries]
    /\ left \in [Calls -> Seq(Nat)]
    /\ clock \in Nat /\ crashes \in Nat
    /\ owed \in SUBSET Entries
    /\ doubled \in SUBSET Items
    /\ torn \in SUBSET Items
    /\ exposed \in SUBSET Entries
    /\ Placed

Init ==
    /\ shown = [i \in Items |-> "none"]
    /\ at = [i \in Items |-> 0]
    /\ resolved = [i \in Items |-> <<>>]
    /\ recorded = [i \in Items |-> <<>>]
    /\ queue = <<>>
    /\ memory = {} /\ made = FALSE
    /\ pc = [c \in Calls |-> "idle"]
    /\ item = [c \in Calls |-> None]
    /\ stamp = [c \in Calls |-> 0]
    /\ op = [c \in Calls |-> "hook"]
    /\ view = [c \in Calls |-> {}]
    /\ left = [c \in Calls |-> <<>>]
    /\ clock = 0 /\ crashes = 0
    /\ owed = {} /\ doubled = {} /\ torn = {} /\ exposed = {}

Goto(c, phase) == pc' = [pc EXCEPT ![c] = phase]

\* emit: a script that is registered for the event hears it, inside whatever it
\* is doing already, up to the interpreter's recursion limit.
Announced(event, batches) ==
    IF event \in Hears /\ Len(batches) < MaxDepth THEN Append(batches, MaxActions) ELSE batches

-----------------------------------------------------------------------------
(* Pending items *)

Holds(c) == queue # <<>> /\ Head(queue) = c

\* The id of a new item is one nobody has, and any is as good as another.
Fresh == {i \in Items : shown[i] = "none" /\ \A c \in Calls : item[c] # i}

NewItem(c) ==
    /\ Fresh # {}
    /\ item' = [item EXCEPT ![c] = CHOOSE i \in Fresh : TRUE]

\* Mutant of Newer: a snapshot with the time of the one before is not newer.
NewerStrictly(i, c) == at[i] < stamp[c]

\* A snapshot replaces what the index shows of its item unless that is newer.
Newer(i, c) == at[i] <= stamp[c]

\* updated_at is taken and the lock asked for without a pause in between.
Enter(c, phase) ==
    /\ stamp' = [stamp EXCEPT ![c] = clock]
    /\ queue' = Append(queue, c)
    /\ Goto(c, phase)

\* runtime_audit_handler for an event that leaves a pending item.
Fail(c) ==
    /\ Kind[c] = "event"
    /\ pc[c] = "idle"
    /\ NewItem(c)
    /\ left' = [left EXCEPT ![c] = Announced("run.failed", <<>>)]
    /\ Enter(c, "creating")
    /\ UNCHANGED <<log, file, op, view, bounds, history>>

\* append_pending.
Create(c) ==
    /\ pc[c] = "creating"
    /\ Holds(c)
    /\ shown' = [shown EXCEPT ![item[c]] = "pending"]
    /\ at' = [at EXCEPT ![item[c]] = stamp[c]]
    /\ queue' = Tail(queue)
    /\ stamp' = [stamp EXCEPT ![c] = 0]
    /\ Goto(c, "script")
    /\ UNCHANGED <<resolved, recorded, file, item, op, view, left, bounds, history>>

Deciding(i, c) == item[c] = i /\ pc[c] \in {"looked", "queued"}

\* resolve_pending reads the index without the lock and refuses an item that
\* is resolved already (an unknown id is refused in the same way).
Look(c, i) ==
    /\ Kind[c] \in Resolvers
    /\ pc[c] = "idle"
    /\ shown[i] # "none"
    /\ item' = [item EXCEPT ![c] = i]
    /\ Goto(c, IF shown[i] = "pending" THEN "looked" ELSE "refused")
    /\ doubled' = IF shown[i] = "pending" /\ \E d \in Calls : Deciding(i, d)
                  THEN doubled \cup {i} ELSE doubled
    /\ UNCHANGED <<log, queue, file, stamp, op, view, left, bounds, owed, torn, exposed>>

Decide(c) ==
    /\ pc[c] = "looked"
    /\ Enter(c, "queued")
    /\ UNCHANGED <<log, file, item, op, view, left, bounds, history>>

\* Mutant of Snapshot: each of the two appends takes the lock for itself.
SnapshotRequeued(c) ==
    /\ pc[c] = "queued"
    /\ Holds(c)
    /\ resolved' = [resolved EXCEPT ![item[c]] = Append(@, c)]
    /\ shown' = [shown EXCEPT ![item[c]] =
         IF Kind[c] = "confirm" THEN "confirmed" ELSE "rejected"]
    /\ queue' = Append(Tail(queue), c)
    /\ Goto(c, "snapped")
    /\ UNCHANGED <<at, recorded, file, mine, bounds, history>>

\* The resolved snapshot.
Snapshot(c) ==
    /\ pc[c] = "queued"
    /\ Holds(c)
    /\ LET i == item[c] IN
         /\ resolved' = [resolved EXCEPT ![i] = Append(@, c)]
         /\ shown' = IF Newer(i, c)
              THEN [shown EXCEPT ![i] = IF Kind[c] = "confirm" THEN "confirmed" ELSE "rejected"]
              ELSE shown
         /\ at' = IF Newer(i, c) THEN [at EXCEPT ![i] = stamp[c]] ELSE at
    /\ Goto(c, "snapped")
    /\ UNCHANGED <<recorded, queue, file, mine, bounds, history>>

\* Mutant of Record: the lock is not given back.
RecordHolding(c) ==
    /\ pc[c] = "snapped"
    /\ Holds(c)
    /\ recorded' = [recorded EXCEPT ![item[c]] = Append(@, c)]
    /\ left' = [left EXCEPT ![c] =
         IF Kind[c] = "confirm" THEN <<>> ELSE Announced("memory.rejected", <<>>)]
    /\ op' = [op EXCEPT ![c] = "hook"]
    /\ stamp' = [stamp EXCEPT ![c] = 0]
    /\ Goto(c, IF Kind[c] = "confirm" THEN "read" ELSE "script")
    /\ UNCHANGED <<shown, at, resolved, queue, file, item, view, bounds, history>>

\* The decision record ends the critical section.  A confirmed item goes on to
\* the memory file, a rejected one is announced at once.
Record(c) ==
    /\ pc[c] = "snapped"
    /\ Holds(c)
    /\ recorded' = [recorded EXCEPT ![item[c]] = Append(@, c)]
    /\ queue' = Tail(queue)
    /\ left' = [left EXCEPT ![c] =
         IF Kind[c] = "confirm" THEN <<>> ELSE Announced("memory.rejected", <<>>)]
    /\ op' = [op EXCEPT ![c] = "hook"]
    /\ stamp' = [stamp EXCEPT ![c] = 0]
    /\ Goto(c, IF Kind[c] = "confirm" THEN "read" ELSE "script")
    /\ UNCHANGED <<shown, at, resolved, file, item, view, bounds, history>>

-----------------------------------------------------------------------------
(* The memory file *)

Section == [hook |-> "hook", append |-> "preferences",
            replace |-> "preferences", usage |-> "usage"]

Entry(c) == <<Section[op[c]], c>>

Preferences(entries) == {e \in entries : e[1] = "preferences"}

\* A call is in the middle of an update: what it is to write depends on what
\* it has read.
Updating(c) == pc[c] \in {"asking", "truncate", "fill"} \/ (pc[c] = "read" /\ op[c] = "replace")

\* Some other update has cut the file and not written it yet.
Cut(c) == \E d \in Calls \ {c} : pc[d] = "fill"

\* Some other update will write without entry e, which it has not read: a
\* replacement that is not yet at the file writes the preferences only.
Overlooked(c, e) == \E d \in Calls \ {c} :
    pc[d] \in {"truncate", "fill"} \/ (Updating(d) /\ e[1] = "preferences")

\* Mutant of Read: the file is not read again after the maintainer's answer.
ReadOnce(c) ==
    /\ pc[c] = "read"
    /\ view' = [view EXCEPT ![c] = IF op[c] = "replace" THEN @ ELSE memory]
    /\ exposed' = IF Cut(c) THEN owed ELSE exposed
    /\ Goto(c, "truncate")
    /\ UNCHANGED <<log, queue, file, item, stamp, op, left, bounds, owed, doubled, torn>>

\* The maintainer's answer stands in for the preferences it was shown, and
\* replace_long_term_section keeps the other sections of the file as it is now.
Read(c) ==
    /\ pc[c] = "read"
    /\ view' = [view EXCEPT ![c] =
         IF op[c] = "replace" THEN Preferences(@) \cup (memory \ Preferences(memory))
         ELSE memory]
    /\ exposed' = IF Cut(c) THEN owed ELSE exposed
    /\ Goto(c, "truncate")
    /\ UNCHANGED <<log, queue, file, item, stamp, op, left, bounds, owed, doubled, torn>>

\* The file is opened for writing ...
Truncate(c) ==
    /\ pc[c] = "truncate"
    /\ memory' = {} /\ made' = TRUE
    /\ Goto(c, "fill")
    /\ UNCHANGED <<log, queue, mine, bounds, history>>

\* Mutant of Fill: the event is left to a task of its own instead of awaited, so
\* nothing limits how often the script answers itself.
FillDetached(c) ==
    /\ pc[c] = "fill"
    /\ memory' = view[c] \cup {Entry(c)}
    /\ owed' = owed \cup {Entry(c)}
    /\ view' = [view EXCEPT ![c] = {}]
    /\ left' = [left EXCEPT ![c] = Announced("memory.confirmed", <<>>)]
    /\ Goto(c, IF op[c] = "hook" THEN "script" ELSE "done")
    /\ UNCHANGED <<log, queue, made, item, stamp, op, bounds, doubled, torn, exposed>>

\* ... and written from its beginning: of a longer text that another call has
\* put there meanwhile the end stays.  A hook's entry is announced; where the
\* stack is full that raises, or is logged if it raised in starting the script.
Fill(c) ==
    /\ pc[c] = "fill"
    /\ \E tail \in SUBSET memory : memory' = view[c] \cup {Entry(c)} \cup tail
    /\ owed' = owed \cup {Entry(c)}
    /\ exposed' = IF Overlooked(c, Entry(c)) THEN exposed \cup {Entry(c)} ELSE exposed
    /\ view' = [view EXCEPT ![c] = {}]
    /\ \/ /\ op[c] = "hook"
          /\ left' = [left EXCEPT ![c] = Announced("memory.confirmed", @)]
          /\ Goto(c, "script")
          /\ UNCHANGED op
       \/ /\ op[c] = "hook" /\ "memory.confirmed" \in Hears /\ Len(left[c]) >= MaxDepth
          /\ left' = [left EXCEPT ![c] = <<>>]
          /\ Goto(c, "raised")
          /\ UNCHANGED op
       \/ /\ op[c] \in {"append", "replace"}
          /\ op' = [op EXCEPT ![c] = "usage"]
          /\ Goto(c, "read")
          /\ UNCHANGED left
       \/ /\ op[c] # "hook"
          /\ Goto(c, "done")
          /\ UNCHANGED <<op, left>>
    /\ UNCHANGED <<log, queue, made, item, stamp, bounds, doubled, torn>>

-----------------------------------------------------------------------------
(* The background task of a turn *)

\* write_after_success: the distiller finds a preference or nothing.
Distil(c) ==
    /\ Kind[c] = "turn"
    /\ pc[c] = "idle"
    /\ \/ op' = [op EXCEPT ![c] = "append"] /\ Goto(c, IF made THEN "distilled" ELSE "read")
       \/ op' = [op EXCEPT ![c] = "usage"] /\ Goto(c, "read")
       \/ UNCHANGED op /\ Goto(c, "done")
    /\ UNCHANGED <<log, queue, file, item, stamp, view, left, bounds, history>>

\* _maintain_memory_with_model reads the file and asks the model.
Maintain(c) ==
    /\ pc[c] = "distilled"
    /\ view' = [view EXCEPT ![c] = memory]
    /\ exposed' = IF Cut(c) THEN owed ELSE exposed
    /\ Goto(c, "asking")
    /\ UNCHANGED <<log, queue, file, item, stamp, op, left, bounds, owed, doubled, torn>>

\* The model's list, or no list (timeout, error, nothing parsed): then the
\* preferences stay as they are.
Asked(c) ==
    /\ pc[c] = "asking"
    /\ \/ op' = [op EXCEPT ![c] = "replace"] /\ Goto(c, "read")
       \/ op' = [op EXCEPT ![c] = "usage"] /\ Goto(c, "read")
       \/ UNCHANGED op /\ Goto(c, "done")
    /\ UNCHANGED <<log, queue, file, item, stamp, view, left, bounds, history>>

-----------------------------------------------------------------------------
(* The script that hears the event, and the actions it returns *)

\* The innermost batch has one action less.
OneLess(batches) == [batches EXCEPT ![Len(batches)] = @ - 1]

HasAction(c) == left[c] # <<>> /\ left[c][Len(left[c])] > 0

ScriptAsks(c) ==
    /\ pc[c] = "script" /\ HasAction(c)
    /\ NewItem(c)
    /\ left' = [left EXCEPT ![c] = OneLess(@)]
    /\ Enter(c, "creating")
    /\ UNCHANGED <<log, file, op, view, bounds, history>>

\* Mutant of ScriptWrites: the batch of actions is not left when it is over.
ScriptWritesOn(c) ==
    /\ pc[c] = "script" /\ left[c] # <<>>
    /\ left' = [left EXCEPT ![c] = OneLess(@)]
    /\ op' = [op EXCEPT ![c] = "hook"]
    /\ Goto(c, "read")
    /\ UNCHANGED <<log, queue, file, item, stamp, view, bounds, history>>

ScriptWrites(c) ==
    /\ pc[c] = "script" /\ HasAction(c)
    /\ left' = [left EXCEPT ![c] = OneLess(@)]
    /\ op' = [op EXCEPT ![c] = "hook"]
    /\ Goto(c, "read")
    /\ UNCHANGED <<log, queue, file, item, stamp, view, bounds, history>>

\* The innermost batch is over, or failed and was logged, and what announced
\* the event goes on.
ScriptEnds(c) ==
    /\ pc[c] = "script"
    /\ left' = [left EXCEPT ![c] = IF @ = <<>> THEN @ ELSE Front(@)]
    /\ Goto(c, IF Len(left[c]) > 1 THEN "script" ELSE "done")
    /\ UNCHANGED <<log, queue, file, item, stamp, op, view, bounds, history>>

\* An action raises: a missing summary or body is no HookScriptExecutionError
\* and goes up through every batch to the caller of emit.
ScriptRaises(c) ==
    /\ pc[c] = "script" /\ HasAction(c)
    /\ left' = [left EXCEPT ![c] = <<>>]
    /\ Goto(c, "raised")
    /\ UNCHANGED <<log, queue, file, item, stamp, op, view, bounds, history>>

-----------------------------------------------------------------------------

Tick ==
    /\ clock < MaxClock
    /\ clock' = clock + 1
    /\ UNCHANGED <<log, queue, file, pc, mine, crashes, history>>

\* The files stay as they are; locks, requests and tasks are gone.
Crash ==
    /\ crashes < MaxCrashes
    /\ \E c \in Calls : pc[c] \notin Over \cup {"idle"}
    /\ crashes' = crashes + 1
    /\ pc' = [c \in Calls |-> IF pc[c] \in Over \cup {"idle"} THEN pc[c] ELSE "gone"]
    /\ queue' = <<>>
    /\ torn' = torn \cup {item[c] : c \in {d \in Calls : pc[d] = "snapped"}}
    /\ exposed' = IF \E c \in Calls : pc[c] = "fill" THEN owed ELSE exposed
    /\ stamp' = [c \in Calls |-> 0]
    /\ view' = [c \in Calls |-> {}]
    /\ left' = [c \in Calls |-> <<>>]
    /\ UNCHANGED <<log, file, item, op, clock, owed, doubled>>

Step(c) ==
    \/ Create(c) \/ Decide(c) \/ Snapshot(c) \/ Record(c)
    \/ Read(c) \/ Truncate(c) \/ Fill(c) \/ Maintain(c) \/ Asked(c)
    \/ ScriptAsks(c) \/ ScriptWrites(c) \/ ScriptEnds(c) \/ ScriptRaises(c)

Begin(c) == Fail(c) \/ Distil(c) \/ \E i \in Items : Look(c, i)

Next == (\E c \in Calls : Begin(c) \/ Step(c)) \/ Tick \/ Crash

\* The event loop runs every task that can go on; file operations, the model
\* (timeout_ms) and a script (timeout_seconds) come back.
Fairness == \A c \in Calls : WF_vars(Step(c))

Spec == Init /\ [][Next]_vars
LiveSpec == Spec /\ Fairness

-----------------------------------------------------------------------------
(* Properties *)

\* Whatever two resolvers do, and with a clock that may stand still but not go
\* back, what the module's list shows of an item is the decision appended last,
\* not a snapshot before it with the same time: a resolved item is never offered
\* for a decision again.
LastDecisionShown == \A i \in Items : resolved[i] # <<>> =>
    shown[i] = IF Kind[resolved[i][Len(resolved[i])]] = "confirm"
               THEN "confirmed" ELSE "rejected"

\* The audit file tells the decisions of an item in the order in which its
\* snapshots were appended, all of them but the one being recorded, unless a
\* crash fell between the two appends.
LogsAgree == \A i \in Items \ torn :
    \/ resolved[i] = recorded[i]
    \/ \E c \in Calls : /\ pc[c] = "snapped" /\ item[c] = i
                        /\ resolved[i] = Append(recorded[i], c)

\* An item is decided once, unless two calls found it pending before either
\* had appended its snapshot (HookMemoryProofs, OneDecision).
DecidedOnce == \A i \in Items \ doubled : Len(resolved[i]) <= 1

\* Whatever was written stays in the memory file, through rewrites of its own
\* and of other sections.  Where updates overlap, only an entry that is written
\* while another update is between its reading and its writing may be lost; all
\* the others only to a reader that finds the file cut, or to a crash there.
MemoryKept ==
    (\A c \in Calls : pc[c] # "fill") => owed \ exposed \subseteq memory

\* Every call comes to an end: the lock is always given back, and a script that
\* is registered for the event its own write_memory announces answers itself
\* only as deep as the interpreter's stack.
CallsEnd == <>[](\A c \in Calls : pc[c] \in Over \cup {"idle"})

=============================================================================
