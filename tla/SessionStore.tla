----------------------------- MODULE SessionStore -----------------------------
(***************************************************************************)
(* The sessions of one user: session/manager.py, the API routes and the    *)
(* agent runs that call it, and the files it keeps under                   *)
(* users/<user_id>/sessions: the index sessions.json, one transcript per   *)
(* session, and the archive.                                               *)
(*                                                                         *)
(* A step is what a coroutine does between two awaits that suspend; file   *)
(* operations run in a thread, so each may complete at any time, and a     *)
(* crash may come between any two.  A transcript is the set of the calls   *)
(* that wrote to it; its mtime and size are a version number that every    *)
(* write renews.  A session is its session_id.                             *)
(***************************************************************************)
EXTENDS Naturals

CONSTANTS
  Keys,        \* session keys of the user
  Calls,       \* calls of the manager; each runs one operation
  None,        \* no call, no index file
  Ops,         \* the operations the calls choose from
  Overlap,     \* "none", "readers" (one writer at a time), or "all"
  Expiry,      \* may the reset policy find a session expired?
  Crashes,     \* bound of the model: crashes of the process
  TornRewrite  \* may a crash find a transcript truncated for a rewrite?

\* "run" is an agent run: it loads the history, then persists it with its turn.
\* "update" is update_title, update_extra, update_token_stats, mark_compacted;
\* "discard" is a reset that does not archive.
Operations == {"create", "append", "update", "run", "history", "reset",
               "discard", "delete"}

ASSUME SessionAssumption ==
  /\ None \notin Calls \cup [Keys -> Nat]
  /\ Ops \subseteq Operations
  /\ Overlap \in {"none", "readers", "all"}
  /\ Expiry \in BOOLEAN
  /\ Crashes \in Nat
  /\ TornRewrite \in BOOLEAN

VARIABLES
  loaded,    \* _loaded
  cached,    \* _metadata_cache: per key its session, or NoId
  kept,      \* _transcript_cache: per key [stat, has], or NoView
  lock,      \* _locks: per key the call that holds it, or None
  index,     \* sessions.json: per key its session, or NoId; None if no file
  file,      \* the transcripts: [stat, has, cut] by session
  moved,     \* sessions whose transcript went to the archive
  archived,  \* entries in the archive
  pc, op, key, sid,  \* per call: where it is, its operation, key and session
  snap,      \* per call: the index it has read, or the one it is saving
  view,      \* per call: the transcript [stat, has] it is reading or has read
  clock, lastId,     \* the last version of a transcript, the last session_id
  owed,      \* entries whose call has returned, unless deleted since
  crashes

memory == <<loaded, cached, kept, lock>>
disk == <<index, file, moved, archived>>
callVars == <<pc, op, key, sid, snap, view>>
counters == <<clock, lastId, owed, crashes>>
vars == <<memory, disk, callVars, counters>>

NoId == 0
NoSessions == [k \in Keys |-> NoId]
NoView == [stat |-> 0, has |-> {}]
Places == {"idle", "opening", "reading", "entering", "saving", "viewing",
           "fetching", "fetched", "working", "writing", "truncated", "written",
           "resaving", "done", "dead"}

Busy == {c \in Calls : pc[c] \notin {"idle", "done", "dead"}}
Exists(id) == id \in DOMAIN file
Without(id) == [i \in DOMAIN file \ {id} |-> file[i]]

\* A new version of a transcript.
Write(id, has, cut) ==
  /\ clock' = clock + 1
  /\ file' = [i \in DOMAIN file \cup {id} |->
       IF i = id THEN [stat |-> clock + 1, has |-> has, cut |-> cut] ELSE file[i]]

Init ==
  /\ loaded = FALSE
  /\ cached = NoSessions
  /\ kept = [k \in Keys |-> NoView]
  /\ lock = [k \in Keys |-> None]
  /\ index = None
  /\ file = [i \in {} |-> NoView]
  /\ moved = {}
  /\ archived = {}
  /\ pc = [c \in Calls |-> "idle"]
  /\ op \in [Calls -> {"create"}]
  /\ key \in [Calls -> Keys]
  /\ sid = [c \in Calls |-> NoId]
  /\ snap = [c \in Calls |-> NoSessions]
  /\ view = [c \in Calls |-> NoView]
  /\ clock = 0
  /\ lastId = NoId
  /\ owed = {}
  /\ crashes = 0

Goto(c, place) == pc' = [pc EXCEPT ![c] = place]

(***************************************************************************)
(* A call starts: _load_metadata                                           *)
(***************************************************************************)

\* Which calls may overlap: the model's, not the code's, which admits any.
Admitted(o) ==
  \/ Overlap = "all"
  \/ Busy = {}
  \/ /\ Overlap = "readers"
     /\ loaded
     /\ o = "history" \/ \A d \in Busy : op[d] = "history"

Start(c, o) ==
  /\ pc[c] = "idle"
  /\ Admitted(o)
  /\ op' = [op EXCEPT ![c] = o]
  /\ IF loaded \/ index = None
     THEN loaded' = TRUE /\ Goto(c, "entering")
     ELSE loaded' = loaded /\ Goto(c, "opening")
  /\ UNCHANGED <<cached, kept, lock, disk, key, sid, snap, view, counters>>

ReadIndex(c) ==
  /\ pc[c] = "opening"
  /\ Goto(c, "reading")
  /\ snap' = [snap EXCEPT ![c] = index]
  /\ UNCHANGED <<memory, disk, op, key, sid, view, counters>>

\* Also when another call has loaded the index, and changed it, meanwhile.
Merge(c) ==
  /\ pc[c] = "reading"
  /\ Goto(c, "entering")
  /\ loaded' = TRUE
  /\ cached' = [k \in Keys |-> IF snap[c][k] = NoId THEN cached[k] ELSE snap[c][k]]
  /\ UNCHANGED <<kept, lock, disk, op, key, sid, snap, view, counters>>

(***************************************************************************)
(* Under the lock of the session                                           *)
(***************************************************************************)

\* From inside the lock to the await of _save_metadata, which has taken its
\* snapshot of the whole cache.
SaveLocked(c, sessions) ==
  /\ cached' = sessions
  /\ lock' = [lock EXCEPT ![key[c]] = c]
  /\ snap' = [snap EXCEPT ![c] = sessions]
  /\ Goto(c, "saving")

Hold(c) == pc[c] = "entering" /\ lock[key[c]] = None

\* _archive_session moves the transcript of the session the key has, if any.
Archive(k) ==
  LET id == cached[k] IN
  IF Exists(id)
  THEN /\ file' = Without(id)
       /\ moved' = moved \cup {id}
       /\ archived' = archived \cup file[id].has
  ELSE UNCHANGED <<file, moved, archived>>

\* The key gets a session with a new session_id.
Renew(c) ==
  /\ lastId' = lastId + 1
  /\ sid' = [sid EXCEPT ![c] = lastId + 1]
  /\ SaveLocked(c, [cached EXCEPT ![key[c]] = lastId + 1])

GetOrCreate(c) ==
  /\ Hold(c)
  /\ op[c] \in {"create", "append", "update", "run", "persist"}
  /\ \/ /\ cached[key[c]] # NoId
        /\ sid' = [sid EXCEPT ![c] = cached[key[c]]]
        /\ SaveLocked(c, cached)
        /\ UNCHANGED <<kept, file, moved, archived, lastId>>
     \/ /\ cached[key[c]] # NoId
        /\ Expiry
        /\ Archive(key[c])
        /\ kept' = IF Exists(cached[key[c]]) THEN [kept EXCEPT ![key[c]] = NoView] ELSE kept
        /\ Renew(c)
     \/ /\ cached[key[c]] = NoId
        /\ Renew(c)
        /\ UNCHANGED <<kept, file, moved, archived>>
  /\ UNCHANGED <<loaded, index, op, key, view, clock, owed, crashes>>

\* reset_session.
Reset(c) ==
  /\ Hold(c)
  /\ op[c] = "reset"
  /\ Archive(key[c])
  /\ kept' = [kept EXCEPT ![key[c]] = NoView]
  /\ Renew(c)
  /\ UNCHANGED <<loaded, index, op, key, view, clock, owed, crashes>>

\* reset_session(archive=False): the transcript stays where nobody finds it.
Discard(c) ==
  /\ Hold(c)
  /\ op[c] = "discard"
  /\ kept' = [kept EXCEPT ![key[c]] = NoView]
  /\ owed' = IF Exists(cached[key[c]]) THEN owed \ file[cached[key[c]]].has ELSE owed
  /\ Renew(c)
  /\ UNCHANGED <<loaded, disk, op, key, view, clock, crashes>>

\* Mutant of Delete: the index is saved before the entry is removed.
DeleteAfterSave(c) ==
  /\ Hold(c)
  /\ op[c] = "delete"
  /\ LET id == cached[key[c]] IN
     /\ id # NoId
     /\ file' = Without(id)
     /\ owed' = IF Exists(id) THEN owed \ file[id].has ELSE owed
  /\ kept' = [kept EXCEPT ![key[c]] = NoView]
  /\ cached' = [cached EXCEPT ![key[c]] = NoId]
  /\ lock' = [lock EXCEPT ![key[c]] = c]
  /\ snap' = [snap EXCEPT ![c] = cached]
  /\ Goto(c, "saving")
  /\ UNCHANGED <<loaded, index, moved, archived, op, key, sid, view, clock, lastId, crashes>>

\* delete_session of a session there is.
Delete(c) ==
  /\ Hold(c)
  /\ op[c] = "delete"
  /\ LET id == cached[key[c]] IN
     /\ id # NoId
     /\ file' = Without(id)
     /\ owed' = IF Exists(id) THEN owed \ file[id].has ELSE owed
  /\ kept' = [kept EXCEPT ![key[c]] = NoView]
  /\ SaveLocked(c, [cached EXCEPT ![key[c]] = NoId])
  /\ UNCHANGED <<loaded, index, moved, archived, op, key, sid, view, clock, lastId, crashes>>

DeleteNothing(c) ==
  /\ Hold(c)
  /\ op[c] = "delete"
  /\ cached[key[c]] = NoId
  /\ Goto(c, "done")
  /\ UNCHANGED <<memory, disk, op, key, sid, snap, view, counters>>

\* Mutant of Saved: the lock is not released.
SavedHolding(c) ==
  /\ pc[c] = "saving"
  /\ index' = snap[c]
  /\ lock' = lock
  /\ Goto(c, CASE op[c] = "run" -> "viewing"
               [] op[c] \in {"append", "persist"} -> "writing"
               [] op[c] = "update" -> "resaving"
               [] OTHER -> "done")
  /\ snap' = [snap EXCEPT ![c] = cached]
  /\ UNCHANGED <<loaded, cached, kept, file, moved, archived, op, key, sid, view, counters>>

\* The temporary file replaces the index, the lock is released, and the caller
\* goes on: an update changes the session and takes its own snapshot at once.
Saved(c) ==
  /\ pc[c] = "saving"
  /\ index' = snap[c]
  /\ lock' = [lock EXCEPT ![key[c]] = None]
  /\ Goto(c, CASE op[c] = "run" -> "viewing"
               [] op[c] \in {"append", "persist"} -> "writing"
               [] op[c] = "update" -> "resaving"
               [] OTHER -> "done")
  /\ snap' = [snap EXCEPT ![c] = cached]
  /\ UNCHANGED <<loaded, cached, kept, file, moved, archived, op, key, sid, view, counters>>

(***************************************************************************)
(* load_transcript                                                         *)
(***************************************************************************)

Viewed(c) == Goto(c, IF op[c] = "run" THEN "working" ELSE "done")

\* Up to the read of the file, if there is anything to read.
View(c) ==
  LET k == key[c]
      id == cached[k]
  IN
  /\ pc[c] = "viewing" \/ (pc[c] = "entering" /\ op[c] = "history")
  /\ \/ /\ id = NoId
        /\ view' = [view EXCEPT ![c] = NoView]
        /\ Viewed(c)
        /\ UNCHANGED <<kept, sid>>
     \/ /\ id # NoId /\ ~Exists(id)
        /\ kept' = [kept EXCEPT ![k] = NoView]
        /\ view' = [view EXCEPT ![c] = NoView]
        /\ Viewed(c)
        /\ UNCHANGED sid
     \/ /\ Exists(id)
        /\ kept[k].stat = file[id].stat
        /\ view' = [view EXCEPT ![c] = kept[k]]
        /\ Viewed(c)
        /\ UNCHANGED <<kept, sid>>
     \/ /\ Exists(id)
        /\ kept[k].stat # file[id].stat
        /\ view' = [view EXCEPT ![c] = [stat |-> file[id].stat, has |-> {}]]
        /\ sid' = [sid EXCEPT ![c] = id]
        /\ Goto(c, "fetching")
        /\ UNCHANGED kept
  /\ UNCHANGED <<loaded, cached, lock, disk, op, key, snap, counters>>

\* The file may have changed since its stat; if it is gone there is no history.
Fetch(c) ==
  /\ pc[c] = "fetching"
  /\ IF Exists(sid[c])
     THEN view' = [view EXCEPT ![c].has = file[sid[c]].has] /\ Goto(c, "fetched")
     ELSE view' = [view EXCEPT ![c] = NoView] /\ Viewed(c)
  /\ UNCHANGED <<memory, disk, op, key, sid, snap, counters>>

\* Mutant of Keep: the stat is taken when the entry is stored.
KeepLateStat(c) ==
  /\ pc[c] = "fetched"
  /\ kept' = [kept EXCEPT ![key[c]] =
       IF Exists(sid[c]) THEN [view[c] EXCEPT !.stat = file[sid[c]].stat] ELSE view[c]]
  /\ Viewed(c)
  /\ UNCHANGED <<loaded, cached, lock, disk, op, key, sid, snap, view, counters>>

Keep(c) ==
  /\ pc[c] = "fetched"
  /\ kept' = [kept EXCEPT ![key[c]] = view[c]]
  /\ Viewed(c)
  /\ UNCHANGED <<loaded, cached, lock, disk, op, key, sid, snap, view, counters>>

\* The agent has answered; persist_transcript begins as get_or_create does.
Answer(c) ==
  /\ pc[c] = "working"
  /\ op' = [op EXCEPT ![c] = "persist"]
  /\ Goto(c, "entering")
  /\ UNCHANGED <<memory, disk, key, sid, snap, view, counters>>

(***************************************************************************)
(* append_transcript and persist_transcript, outside the lock              *)
(***************************************************************************)

\* Mutant of AppendEntry: the file is opened for writing, not for appending.
AppendFresh(c) ==
  /\ pc[c] = "writing"
  /\ op[c] = "append"
  /\ Write(sid[c], {c}, FALSE)
  /\ Goto(c, "written")
  /\ UNCHANGED <<memory, index, moved, archived, op, key, sid, snap, view, lastId, owed, crashes>>

\* The open and the only write are one step: what comes between them would find
\* at most an empty transcript where there was none.
AppendEntry(c) ==
  /\ pc[c] = "writing"
  /\ op[c] = "append"
  /\ IF Exists(sid[c])
     THEN Write(sid[c], file[sid[c]].has \cup {c}, file[sid[c]].cut)
     ELSE Write(sid[c], {c}, FALSE)
  /\ Goto(c, "written")
  /\ UNCHANGED <<memory, index, moved, archived, op, key, sid, snap, view, lastId, owed, crashes>>

Truncate(c) ==
  /\ pc[c] = "writing"
  /\ op[c] = "persist"
  /\ Write(sid[c], {}, TRUE)
  /\ Goto(c, "truncated")
  /\ UNCHANGED <<memory, index, moved, archived, op, key, sid, snap, view, lastId, owed, crashes>>

\* What is written follows the open file to the archive, or is lost with it.
Rewrite(c) ==
  LET entries == view[c].has \cup {c} IN
  /\ pc[c] = "truncated"
  /\ IF Exists(sid[c])
     THEN Write(sid[c], entries, FALSE) /\ UNCHANGED archived
     ELSE /\ archived' = IF sid[c] \in moved THEN archived \cup entries ELSE archived
          /\ UNCHANGED <<file, clock>>
  /\ Goto(c, "written")
  /\ UNCHANGED <<memory, index, moved, op, key, sid, snap, view, lastId, owed, crashes>>

\* The file is closed: the cache entry is dropped and the metadata saved again.
Touch(c) ==
  /\ pc[c] = "written"
  /\ kept' = [kept EXCEPT ![key[c]] = NoView]
  /\ snap' = [snap EXCEPT ![c] = cached]
  /\ Goto(c, "resaving")
  /\ UNCHANGED <<loaded, cached, lock, disk, op, key, sid, view, counters>>

Resaved(c) ==
  /\ pc[c] = "resaving"
  /\ index' = snap[c]
  /\ owed' = IF op[c] = "update" THEN owed ELSE owed \cup {c}
  /\ Goto(c, "done")
  /\ UNCHANGED <<memory, file, moved, archived, op, key, sid, snap, view, clock, lastId, crashes>>

\* The process dies and is started again: the memory and the calls are gone.
Crash ==
  /\ crashes < Crashes
  /\ TornRewrite \/ \A c \in Calls : pc[c] # "truncated"
  /\ crashes' = crashes + 1
  /\ loaded' = FALSE
  /\ cached' = NoSessions
  /\ kept' = [k \in Keys |-> NoView]
  /\ lock' = [k \in Keys |-> None]
  /\ pc' = [c \in Calls |-> IF c \in Busy THEN "dead" ELSE pc[c]]
  /\ UNCHANGED <<disk, op, key, sid, snap, view, clock, lastId, owed>>

Step(c) ==
  \/ \E o \in Ops : Start(c, o)
  \/ ReadIndex(c) \/ Merge(c)
  \/ GetOrCreate(c) \/ Reset(c) \/ Discard(c) \/ Delete(c) \/ DeleteNothing(c) \/ Saved(c)
  \/ View(c) \/ Fetch(c) \/ Keep(c) \/ Answer(c)
  \/ AppendEntry(c) \/ Truncate(c) \/ Rewrite(c) \/ Touch(c) \/ Resaved(c)

Next == Crash \/ \E c \in Calls : Step(c)

Spec == Init /\ [][Next]_vars

(***************************************************************************)
(* Properties                                                              *)
(***************************************************************************)

Sessions == 0..lastId
Views == [stat : 0..clock, has : SUBSET Calls]

\* Every variable has its type, and a lock is held by a call that is saving.
TypeOK ==
  /\ loaded \in BOOLEAN
  /\ cached \in [Keys -> Sessions]
  /\ kept \in [Keys -> Views]
  /\ lock \in [Keys -> Calls \cup {None}]
  /\ \A k \in Keys : lock[k] # None => pc[lock[k]] = "saving" /\ key[lock[k]] = k
  /\ index = None \/ index \in [Keys -> Sessions]
  /\ DOMAIN file \subseteq Sessions
  /\ \A id \in DOMAIN file : file[id] \in [stat : 0..clock, has : SUBSET Calls, cut : BOOLEAN]
  /\ moved \subseteq Sessions
  /\ archived \subseteq Calls
  /\ pc \in [Calls -> Places]
  /\ op \in [Calls -> Operations \cup {"persist"}]
  /\ key \in [Calls -> Keys]
  /\ sid \in [Calls -> Sessions]
  /\ snap \in [Calls -> [Keys -> Sessions]]
  /\ view \in [Calls -> Views]
  /\ clock \in Nat /\ lastId \in Nat
  /\ owed \subseteq Calls
  /\ crashes \in 0..Crashes

\* A cached transcript that would be served (same mtime and size as the file) is
\* what the file holds, whatever was written while it was being read.
CacheHonest ==
  \A k \in Keys : Exists(cached[k]) /\ kept[k].stat = file[cached[k]].stat =>
    kept[k].has = file[cached[k]].has

\* When no call is at work, a restart would load the sessions the process has:
\* nothing that was answered is undone by it.
DiskCurrent ==
  Busy \subseteq {c \in Calls : op[c] = "history"} /\ loaded =>
    cached = IF index = None THEN NoSessions ELSE index

Current(k) == IF loaded THEN cached[k] ELSE IF index = None THEN NoId ELSE index[k]

\* An entry that was stored is in the transcript of its key's session or in the
\* archive until it is deleted, crashes included.
AnsweredKept ==
  \A e \in owed :
    \/ e \in archived
    \/ /\ Exists(Current(key[e]))
       /\ \/ e \in file[Current(key[e])].has
          \/ \E c \in Calls : pc[c] = "truncated" /\ sid[c] = Current(key[e])
================================================================================
