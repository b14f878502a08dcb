---------------------------- MODULE ChannelManager ----------------------------
(***************************************************************************)
(* The lifecycle of one channel connection in one AtlasClaw process:       *)
(* channels/manager.py, with the API routes, the start-up task and the     *)
(* heartbeat that call it, and the handler it drives.  Every table of the  *)
(* manager is keyed by the connection and no operation reads two entries,  *)
(* so one connection shows every interleaving.                             *)
(*                                                                         *)
(* All of it runs on one asyncio event loop.  A step of the model is what  *)
(* a coroutine does between two awaits that really suspend; a coroutine    *)
(* that is ready may stay ready for any time, so a database answer is      *)
(* taken in one step (Select...) and acted on in a later one.              *)
(*                                                                         *)
(* A coroutine that initialises the connection is a runner: the background *)
(* task a request scheduled carries the request's name (a request          *)
(* schedules at most one), and Boot is the start-up coroutine, which calls *)
(* initialize_connection itself.  An attempt makes a new handler object,   *)
(* named by its runner: nobody else holds it before it is published.       *)
(***************************************************************************)
EXTENDS Naturals

CONSTANTS
  Requests,   \* API requests for the connection; each runs one operation
  Boot,       \* the coroutine of main.start_enabled_connections
  None,       \* no task, no handler
  Attempts,   \* len(retry_delays_seconds): 3 in the code
  Kind,       \* "process": Feishu and DingTalk stream; "socket": WeCom
  Ops,        \* the operations the requests choose from
  Overlap,    \* may requests for the connection overlap?
  WithBoot,   \* does the process start with this connection enabled?
  WithHeartbeat  \* is the heartbeat runtime configured?

Runners == Requests \cup {Boot}

\* "patchOn", "patchOff" and "patchConfig" are a PATCH that sets enabled to
\* true, to false, or changes the configuration only.
Operations == {"create", "enable", "disable", "patchOn", "patchOff",
               "patchConfig", "delete"}

ASSUME ChannelAssumption ==
  /\ Boot \notin Requests
  /\ None \notin Runners
  /\ Attempts \in Nat \ {0}
  /\ Kind \in {"process", "socket"}
  /\ Ops \subseteq Operations
  /\ Overlap \in BOOLEAN
  /\ WithBoot \in BOOLEAN
  /\ WithHeartbeat \in BOOLEAN

VARIABLES
  row,            \* the connection's database row, as committed
  runtimeStatus,  \* _runtime_status_by_connection_id
  initTask,       \* _initialization_tasks
  active,         \* _active_connections
  instance,       \* ChannelRegistry._instances
  tpc, attempt, tsaw,   \* per runner: where it is, its attempt, the row it read
  cancelled, callback,  \* per runner: cancel() was called; done-callback queued
  hstat,          \* per handler: handler._status
  link,           \* per handler: its SDK subprocess or client
  rpc, op, rsaw, held,  \* per request: where it is, what it does, what it holds
  lostRef,        \* per request: the handler it disconnects got a new client
  hpc, hheld      \* the heartbeat: where it is, the handler it reconnects

tables    == <<runtimeStatus, initTask, active, instance>>
taskVars  == <<tpc, attempt, tsaw, cancelled, callback>>
handlerVars == <<hstat, link>>
requestVars == <<rpc, op, rsaw, held, lostRef>>
heartbeatVars == <<hpc, hheld>>
vars == <<row, tables, taskVars, handlerVars, requestVars, heartbeatVars>>

RowStates  == {"none", "inactive", "active", "deleted"}
Absent     == {"none", "deleted"}
Statuses   == {"disconnected", "connecting", "connected", "error"}
\* Where a runner is.  "fetched1" and "fetched2" are the two database reads of
\* initialize_connection answered but not acted on, "rejected" the exit of the
\* session block after one of them said no.
TaskPCs == {"unused", "new", "sleep", "read1", "fetched1", "read2", "fetched2",
            "rejected", "verify", "wait", "done"}
RequestPCs == {"idle", "create", "read", "check", "commit", "stop", "await",
               "dropping", "unset", "unsetCommit", "erase", "schedule", "done"}

Init ==
  /\ row \in IF WithBoot THEN {"active"} ELSE {"none", "inactive"}
  /\ runtimeStatus = "disconnected"
  /\ initTask = None /\ active = None /\ instance = None
  /\ tpc = [t \in Runners |-> IF t = Boot /\ WithBoot THEN "new" ELSE "unused"]
  /\ attempt = [t \in Runners |-> 1]
  /\ tsaw = [t \in Runners |-> "none"]
  /\ cancelled = [t \in Runners |-> FALSE]
  /\ callback = [t \in Runners |-> FALSE]
  /\ hstat = [t \in Runners |-> "disconnected"]
  /\ link = [t \in Runners |-> "none"]
  /\ rpc = [r \in Requests |-> "idle"]
  /\ op = [r \in Requests |-> "enable"]
  /\ rsaw = [r \in Requests |-> "none"]
  /\ held = [r \in Requests |-> None]
  /\ lostRef = [r \in Requests |-> FALSE]
  /\ hpc = "idle" /\ hheld = None

-----------------------------------------------------------------------------
(* initialize_connection, inside _background_initialize for every runner   *)
(* but Boot.                                                               *)

\* Mutant of AttemptOver: one retry too many.
AttemptOverOneMore(t, st) ==
  LET again == t # Boot /\ attempt[t] <= Attempts
  IN /\ tpc' = [tpc EXCEPT ![t] = IF again THEN "sleep" ELSE "done"]
     /\ attempt' = [attempt EXCEPT ![t] = IF again THEN @ + 1 ELSE @]
     /\ callback' = [callback EXCEPT ![t] = t # Boot /\ ~again]
     /\ runtimeStatus' = IF again THEN "connecting" ELSE st

\* Mutant of AttemptOver: the last failure announces one more retry.
AttemptOverAnnounced(t, st) ==
  LET again == t # Boot /\ attempt[t] < Attempts
  IN /\ tpc' = [tpc EXCEPT ![t] = IF again THEN "sleep" ELSE "done"]
     /\ attempt' = [attempt EXCEPT ![t] = IF again THEN @ + 1 ELSE @]
     /\ callback' = [callback EXCEPT ![t] = t # Boot /\ ~again]
     /\ runtimeStatus' = IF t # Boot THEN "connecting" ELSE st

\* An attempt of t ended without a connection and left the status st: the
\* background task sleeps and tries again while attempts are left.
AttemptOver(t, st) ==
  LET again == t # Boot /\ attempt[t] < Attempts
  IN /\ tpc' = [tpc EXCEPT ![t] = IF again THEN "sleep" ELSE "done"]
     /\ attempt' = [attempt EXCEPT ![t] = IF again THEN @ + 1 ELSE @]
     /\ callback' = [callback EXCEPT ![t] = t # Boot /\ ~again]
     /\ runtimeStatus' = IF again THEN "connecting" ELSE st

\* The attempt begins; it suspends in the first read of the row.
BeginAttempt(t) ==
  /\ tpc[t] \in {"new", "sleep"} /\ ~cancelled[t]
  /\ runtimeStatus' = "connecting"
  /\ tpc' = [tpc EXCEPT ![t] = "read1"]
  /\ UNCHANGED <<row, initTask, active, instance, attempt, tsaw, cancelled,
                 callback, handlerVars, requestVars, heartbeatVars>>

\* The database answers a read; the coroutine resumes later.
SelectRow(t) ==
  /\ tpc[t] \in {"read1", "read2"} /\ ~cancelled[t]
  /\ tsaw' = [tsaw EXCEPT ![t] = row]
  /\ tpc' = [tpc EXCEPT ![t] = IF @ = "read1" THEN "fetched1" ELSE "fetched2"]
  /\ UNCHANGED <<row, tables, attempt, cancelled, callback, handlerVars,
                 requestVars, heartbeatVars>>

\* A read raises: the generic exception handler ends the attempt.
ReadFails(t) ==
  /\ tpc[t] \in {"read1", "read2"} /\ ~cancelled[t]
  /\ instance' = None
  /\ AttemptOver(t, "error")
  /\ UNCHANGED <<row, initTask, active, tsaw, cancelled, handlerVars,
                 requestVars, heartbeatVars>>

\* The row is missing (an error) or inactive: nothing is created.
RejectFirst(t) ==
  /\ tpc[t] = "fetched1" /\ tsaw[t] # "active" /\ ~cancelled[t]
  /\ runtimeStatus' = IF tsaw[t] \in Absent THEN "error" ELSE "disconnected"
  /\ tpc' = [tpc EXCEPT ![t] = "rejected"]
  /\ UNCHANGED <<row, initTask, active, instance, attempt, tsaw, cancelled,
                 callback, handlerVars, requestVars, heartbeatVars>>

\* A new handler replaces the registered one and is set up.
CreateHandler(t) ==
  /\ tpc[t] = "fetched1" /\ tsaw[t] = "active" /\ ~cancelled[t]
  /\ hstat' = [hstat EXCEPT ![t] = "disconnected"]
  /\ instance' = t
  /\ tpc' = [tpc EXCEPT ![t] = "read2"]
  /\ UNCHANGED <<row, runtimeStatus, initTask, active, attempt, tsaw, cancelled,
                 callback, link, requestVars, heartbeatVars>>

\* setup() refuses the configuration.
SetupFails(t) ==
  /\ tpc[t] = "fetched1" /\ tsaw[t] = "active" /\ ~cancelled[t]
  /\ hstat' = [hstat EXCEPT ![t] = "disconnected"]
  /\ instance' = None
  /\ AttemptOver(t, "error")
  /\ UNCHANGED <<row, initTask, active, tsaw, cancelled, link, requestVars,
                 heartbeatVars>>

\* The recheck after setup() finds the row gone or inactive.
RejectRecheck(t) ==
  /\ tpc[t] = "fetched2" /\ tsaw[t] # "active" /\ ~cancelled[t]
  /\ instance' = None
  /\ runtimeStatus' = "disconnected"
  /\ tpc' = [tpc EXCEPT ![t] = "rejected"]
  /\ UNCHANGED <<row, initTask, active, attempt, tsaw, cancelled, callback,
                 handlerVars, requestVars, heartbeatVars>>

\* The session block has been left: the attempt returns False.
LeaveRejected(t) ==
  /\ tpc[t] = "rejected" /\ ~cancelled[t]
  /\ AttemptOver(t, runtimeStatus)
  /\ UNCHANGED <<row, initTask, active, instance, tsaw, cancelled, handlerVars,
                 requestVars, heartbeatVars>>

\* start(), then connect(): Feishu and DingTalk first verify the credentials,
\* WeCom opens its client at once.
StartHandler(t) ==
  /\ tpc[t] = "fetched2" /\ tsaw[t] = "active" /\ ~cancelled[t]
  /\ hstat' = [hstat EXCEPT ![t] = "connecting"]
  /\ tpc' = [tpc EXCEPT ![t] = IF Kind = "process" THEN "verify" ELSE "wait"]
  /\ link' = [link EXCEPT ![t] = IF Kind = "process" THEN @ ELSE "up"]
  /\ UNCHANGED <<row, tables, attempt, tsaw, cancelled, callback, requestVars,
                 heartbeatVars>>

\* The credentials are good: the SDK subprocess starts.
SpawnProcess(t) ==
  /\ tpc[t] = "verify" /\ ~cancelled[t]
  /\ link' = [link EXCEPT ![t] = "up"]
  /\ tpc' = [tpc EXCEPT ![t] = "wait"]
  /\ UNCHANGED <<row, tables, attempt, tsaw, cancelled, callback, hstat,
                 requestVars, heartbeatVars>>

\* connect() returns False: bad credentials, an error signal or the timeout.
ConnectFails(t) ==
  /\ tpc[t] \in {"verify", "wait"} /\ ~cancelled[t]
  /\ link' = [link EXCEPT ![t] = "none"]
  /\ hstat' = [hstat EXCEPT ![t] = "disconnected"]
  /\ instance' = None
  /\ AttemptOver(t, "error")
  /\ UNCHANGED <<row, initTask, active, tsaw, cancelled, requestVars,
                 heartbeatVars>>

\* connect() returns True: the handler becomes the active connection.
Publish(t) ==
  /\ tpc[t] = "wait" /\ ~cancelled[t]
  /\ hstat' = [hstat EXCEPT ![t] = "connected"]
  /\ active' = t
  /\ runtimeStatus' = "connected"
  /\ tpc' = [tpc EXCEPT ![t] = "done"]
  /\ callback' = [callback EXCEPT ![t] = t # Boot]
  /\ UNCHANGED <<row, initTask, instance, attempt, tsaw, cancelled, link,
                 requestVars, heartbeatVars>>

\* Mutant of CancelTask: the handler of a cancelled attempt is not stopped.
CancelTaskOnly(t) ==
  /\ cancelled[t] /\ tpc[t] # "done"
  /\ tpc' = [tpc EXCEPT ![t] = "done"]
  /\ callback' = [callback EXCEPT ![t] = TRUE]
  /\ runtimeStatus' = "disconnected"
  /\ instance' = None
  /\ UNCHANGED <<row, initTask, active, attempt, tsaw, cancelled, handlerVars,
                 requestVars, heartbeatVars>>

\* CancelledError reaches the task.  Before its first step, and in the sleep
\* between attempts, nothing is cleaned up; inside initialize_connection the
\* handler is stopped and the registered instance removed, whosever it is.
CancelTask(t) ==
  /\ cancelled[t] /\ tpc[t] # "done"
  /\ tpc' = [tpc EXCEPT ![t] = "done"]
  /\ callback' = [callback EXCEPT ![t] = TRUE]
  /\ IF tpc[t] \in {"new", "sleep"}
     THEN UNCHANGED <<runtimeStatus, instance, hstat, link>>
     ELSE /\ runtimeStatus' = "disconnected"
          /\ instance' = None
          /\ hstat' = [hstat EXCEPT ![t] = "disconnected"]
          /\ link' = [link EXCEPT ![t] = "none"]
  /\ UNCHANGED <<row, initTask, active, attempt, tsaw, cancelled, requestVars,
                 heartbeatVars>>

\* Mutant of ForgetInitializationTask: no identity test.
ForgetAnyTask(t) ==
  /\ callback[t]
  /\ callback' = [callback EXCEPT ![t] = FALSE]
  /\ initTask' = None
  /\ UNCHANGED <<row, runtimeStatus, active, instance, tpc, attempt, tsaw,
                 cancelled, handlerVars, requestVars, heartbeatVars>>

\* The done-callback of a finished task, a later turn of the event loop.
ForgetInitializationTask(t) ==
  /\ callback[t]
  /\ callback' = [callback EXCEPT ![t] = FALSE]
  /\ initTask' = IF initTask = t THEN None ELSE initTask
  /\ UNCHANGED <<row, runtimeStatus, active, instance, tpc, attempt, tsaw,
                 cancelled, handlerVars, requestVars, heartbeatVars>>

RunnerStep(t) ==
  \/ BeginAttempt(t) \/ SelectRow(t) \/ ReadFails(t)
  \/ RejectFirst(t) \/ CreateHandler(t) \/ SetupFails(t)
  \/ RejectRecheck(t) \/ LeaveRejected(t) \/ StartHandler(t)
  \/ SpawnProcess(t) \/ ConnectFails(t) \/ Publish(t) \/ CancelTask(t)

-----------------------------------------------------------------------------
(* The requests: api/channels.py and the manager's operations.             *)

Resting(r) == rpc[r] \in {"idle", "done"}

Go(r, pc) == rpc' = [rpc EXCEPT ![r] = pc]

\* A request arrives.  A connection id is created once.
Arrive(r) ==
  /\ rpc[r] = "idle"
  /\ Overlap \/ \A s \in Requests : Resting(s)
  /\ \E o \in Ops :
       /\ op' = [op EXCEPT ![r] = o]
       /\ IF o = "create"
          THEN row = "none" /\ Go(r, "create")
          ELSE row # "none" /\ Go(r, "read")
  /\ UNCHANGED <<row, tables, taskVars, handlerVars, rsaw, held, lostRef,
                 heartbeatVars>>

\* create_connection, a provisioning that completes: commit the enabled row,
\* then schedule.  (A row created disabled is the initial "inactive".)
CommitCreate(r) ==
  /\ rpc[r] = "create"
  /\ IF row = "none"
     THEN row' = "active" /\ Go(r, "schedule")
     ELSE UNCHANGED row /\ Go(r, "done")
  /\ UNCHANGED <<tables, taskVars, handlerVars, op, rsaw, held, lostRef,
                 heartbeatVars>>

\* The row is loaded into the request's session, or the answer is 404.
LoadRow(r) ==
  /\ rpc[r] = "read"
  /\ rsaw' = [rsaw EXCEPT ![r] = row]
  /\ Go(r, IF row \in Absent THEN "done"
           ELSE CASE op[r] = "enable" -> "check"
                  [] op[r] \in {"disable", "delete"} -> "stop"
                  [] OTHER -> "commit")
  /\ UNCHANGED <<row, tables, taskVars, handlerVars, op, held, lostRef,
                 heartbeatVars>>

\* enable_connection returns at once when the connection is active.
CheckActive(r) ==
  /\ rpc[r] = "check"
  /\ Go(r, IF active # None THEN "done" ELSE "commit")
  /\ UNCHANGED <<row, tables, taskVars, handlerVars, op, rsaw, held, lostRef,
                 heartbeatVars>>

\* The flag the operation writes; patchConfig leaves it alone.
Wanted(r) ==
  CASE op[r] \in {"enable", "patchOn"} -> "active"
    [] op[r] \in {"disable", "patchOff"} -> "inactive"
    [] OTHER -> rsaw[r]

\* The row after the session is flushed and committed: the session writes the
\* flag only when it differs from the value it loaded.
Written(r) == IF row \in Absent \/ Wanted(r) = rsaw[r] THEN row ELSE Wanted(r)

\* update_status of enable_connection, update of update_connection, and their
\* commit.  A row that disappeared fails the request, or (patchOff, and
\* patchOn of an inactive row) is not noticed.
CommitFlag(r) ==
  /\ rpc[r] = "commit"
  /\ row' = Written(r)
  /\ Go(r, CASE op[r] = "patchOff" -> "stop"
             [] op[r] = "patchOn" /\ rsaw[r] = "inactive" -> "schedule"
             [] op[r] = "enable" /\ row \notin Absent -> "schedule"
             [] op[r] = "patchConfig" /\ row = "active" -> "stop"
             [] OTHER -> "done")
  /\ UNCHANGED <<tables, taskVars, handlerVars, op, rsaw, held, lostRef,
                 heartbeatVars>>

\* What a request does after stop_connection.
AfterStop(r) ==
  CASE op[r] = "disable" -> "unset"
    [] op[r] = "delete" -> "erase"
    [] op[r] = "patchConfig" -> "schedule"
    [] OTHER -> "done"

\* stop_connection once no initialisation is pending.  A WeCom handler
\* suspends in disconnect() while its client closes; the others do not.
StopActive(r) ==
  IF active # None /\ Kind = "socket" /\ link[active] # "none"
  THEN /\ held' = [held EXCEPT ![r] = active]
       /\ lostRef' = [lostRef EXCEPT ![r] = FALSE]
       /\ Go(r, "dropping")
       /\ UNCHANGED <<runtimeStatus, active, handlerVars>>
  ELSE /\ active' = None
       /\ runtimeStatus' = "disconnected"
       /\ hstat' = [h \in Runners |->
                      IF h = active THEN "disconnected" ELSE hstat[h]]
       /\ link' = [h \in Runners |-> IF h = active THEN "none" ELSE link[h]]
       /\ Go(r, AfterStop(r))
       /\ UNCHANGED <<held, lostRef>>

\* The table holds a task that is not done.
TaskPending == initTask # None /\ tpc[initTask] # "done"

\* cancel_background_initialize finds no task that is still running.
StopWithoutTask(r) ==
  /\ rpc[r] = "stop"
  /\ ~TaskPending
  /\ initTask' = None
  /\ StopActive(r)
  /\ UNCHANGED <<row, instance, taskVars, op, rsaw, heartbeatVars>>

\* Mutant of CancelPending: the cancelled task is not awaited.
CancelPendingUnawaited(r) ==
  /\ rpc[r] = "stop"
  /\ TaskPending
  /\ cancelled' = [cancelled EXCEPT ![initTask] = TRUE]
  /\ initTask' = None
  /\ StopActive(r)
  /\ UNCHANGED <<row, instance, tpc, attempt, tsaw, callback, op, rsaw,
                 heartbeatVars>>

\* It finds one: the task is taken out of the table, cancelled and awaited.
CancelPending(r) ==
  /\ rpc[r] = "stop"
  /\ TaskPending
  /\ cancelled' = [cancelled EXCEPT ![initTask] = TRUE]
  /\ held' = [held EXCEPT ![r] = initTask]
  /\ initTask' = None
  /\ Go(r, "await")
  /\ UNCHANGED <<row, runtimeStatus, active, instance, tpc, attempt, tsaw,
                 callback, handlerVars, op, rsaw, lostRef, heartbeatVars>>

\* The cancelled task has finished.
TaskAwaited(r) ==
  /\ rpc[r] = "await" /\ tpc[held[r]] = "done"
  /\ StopActive(r)
  /\ UNCHANGED <<row, initTask, instance, taskVars, op, rsaw, heartbeatVars>>

\* Mutant of Dropped: the stop leaves the status as it was.
DroppedSilently(r) ==
  /\ rpc[r] = "dropping"
  /\ link' = [link EXCEPT ![held[r]] = IF lostRef[r] /\ @ # "none"
                                       THEN "orphan" ELSE "none"]
  /\ hstat' = [hstat EXCEPT ![held[r]] = "disconnected"]
  /\ active' = None
  /\ Go(r, AfterStop(r))
  /\ UNCHANGED <<row, runtimeStatus, initTask, instance, taskVars, op, rsaw,
                 held, lostRef, heartbeatVars>>

\* WeCom's client is closed: disconnect() forgets whatever client the handler
\* has by now, and the entry of the table is deleted, whosever it is; a
\* missing entry is a KeyError.
Dropped(r) ==
  /\ rpc[r] = "dropping"
  /\ link' = [link EXCEPT ![held[r]] = IF lostRef[r] /\ @ # "none"
                                       THEN "orphan" ELSE "none"]
  /\ hstat' = [hstat EXCEPT ![held[r]] = "disconnected"]
  /\ active' = None
  /\ runtimeStatus' = IF active = None THEN "error" ELSE "disconnected"
  /\ Go(r, AfterStop(r))
  /\ UNCHANGED <<row, initTask, instance, taskVars, op, rsaw, held, lostRef,
                 heartbeatVars>>

\* disable_connection after the stop: update_status is flushed, the status
\* set, and only then the session committed.
UnsetFlag(r) ==
  /\ rpc[r] = "unset"
  /\ IF row \in Absent
     THEN Go(r, "done") /\ UNCHANGED runtimeStatus
     ELSE Go(r, "unsetCommit") /\ runtimeStatus' = "disconnected"
  /\ UNCHANGED <<row, initTask, active, instance, taskVars, handlerVars, op,
                 rsaw, held, lostRef, heartbeatVars>>

CommitUnset(r) ==
  /\ rpc[r] = "unsetCommit"
  /\ row' = Written(r)
  /\ Go(r, "done")
  /\ UNCHANGED <<tables, taskVars, handlerVars, op, rsaw, held, lostRef,
                 heartbeatVars>>

\* delete_connection after the stop.
EraseRow(r) ==
  /\ rpc[r] = "erase"
  /\ row' = "deleted"
  /\ Go(r, "done")
  /\ UNCHANGED <<tables, taskVars, handlerVars, op, rsaw, held, lostRef,
                 heartbeatVars>>

\* schedule_background_initialize: a task that is not done is reused.
ScheduleBackgroundInitialize(r) ==
  IF TaskPending
  THEN UNCHANGED <<initTask, tpc>>
  ELSE /\ initTask' = r
       /\ tpc' = [tpc EXCEPT ![r] = "new"]

Schedule(r) ==
  /\ rpc[r] = "schedule"
  /\ ScheduleBackgroundInitialize(r)
  /\ runtimeStatus' = IF op[r] = "enable" THEN "connecting" ELSE runtimeStatus
  /\ Go(r, "done")
  /\ UNCHANGED <<row, active, instance, attempt, tsaw, cancelled, callback,
                 handlerVars, op, rsaw, held, lostRef, heartbeatVars>>

RequestStep(r) ==
  \/ CommitCreate(r) \/ LoadRow(r) \/ CheckActive(r) \/ CommitFlag(r)
  \/ StopWithoutTask(r) \/ CancelPending(r) \/ TaskAwaited(r) \/ Dropped(r)
  \/ UnsetFlag(r) \/ CommitUnset(r) \/ EraseRow(r) \/ Schedule(r)

-----------------------------------------------------------------------------
(* The link, the status reads and the heartbeat.                           *)

Disconnecting(h) ==
  \/ \E r \in Requests : rpc[r] = "dropping" /\ held[r] = h
  \/ hpc = "opening" /\ hheld = h

\* Mutant of LoseLink: WeCom's handler is not told.
LoseLinkUnseen(h) ==
  /\ active = h /\ link[h] = "up" /\ ~Disconnecting(h)
  /\ link' = [link EXCEPT ![h] = "lost"]
  /\ UNCHANGED <<row, tables, taskVars, hstat, requestVars, heartbeatVars>>

\* A published link is lost.  WeCom's client reports it to the handler; the
\* handlers with an SDK subprocess look at it only inside connect().
LoseLink(h) ==
  /\ active = h /\ link[h] = "up" /\ ~Disconnecting(h)
  /\ link' = [link EXCEPT ![h] = "lost"]
  /\ hstat' = [hstat EXCEPT ![h] = IF Kind = "socket" THEN "error" ELSE @]
  /\ UNCHANGED <<row, tables, taskVars, requestVars, heartbeatVars>>

\* get_connection_runtime_status, also the end of a probe, copies the status
\* of the active handler.
ReadStatus ==
  /\ active # None
  /\ runtimeStatus' = hstat[active]
  /\ UNCHANGED <<row, initTask, active, instance, taskVars, handlerVars,
                 requestVars, heartbeatVars>>

\* _run_channel_heartbeat probes the active handler and calls reconnect() on
\* one that is not connected.  disconnect() is over at once where an SDK
\* subprocess is terminated, and connect() then verifies the credentials;
\* WeCom's handler suspends while its client closes.
ProbeUnhealthy ==
  /\ WithHeartbeat /\ hpc = "idle" /\ active # None
  /\ hstat[active] # "connected"
  /\ runtimeStatus' = hstat[active]
  /\ hheld' = active
  /\ hpc' = "opening"
  /\ IF Kind = "process"
     THEN /\ link' = [link EXCEPT ![active] = "none"]
          /\ hstat' = [hstat EXCEPT ![active] = "disconnected"]
     ELSE UNCHANGED handlerVars
  /\ UNCHANGED <<row, initTask, active, instance, taskVars, requestVars>>

\* connect() opens a new client, or starts a new subprocess, on the handler it
\* holds: nothing asks whether the connection was stopped meanwhile.
Reopen ==
  /\ hpc = "opening"
  /\ hstat' = [hstat EXCEPT ![hheld] = "disconnected"]
  /\ link' = [link EXCEPT ![hheld] = "up"]
  /\ lostRef' = [r \in Requests |->
                   lostRef[r] \/ (rpc[r] = "dropping" /\ held[r] = hheld)]
  /\ hpc' = "wait"
  /\ UNCHANGED <<row, tables, taskVars, rpc, op, rsaw, held, hheld>>

\* connect() returns True; the second probe copies the status.
HeartbeatConnected ==
  /\ hpc = "wait" /\ link[hheld] = "up"
  /\ hstat' = [hstat EXCEPT ![hheld] = "connected"]
  /\ runtimeStatus' = IF active = None THEN runtimeStatus ELSE hstat'[active]
  /\ hpc' = "idle"
  /\ UNCHANGED <<row, initTask, active, instance, taskVars, link, requestVars,
                 hheld>>

\* connect() returns False.  WeCom's client is left in place, a subprocess is
\* terminated.
HeartbeatFails ==
  /\ hpc \in IF Kind = "process" THEN {"opening", "wait"} ELSE {"wait"}
  /\ hstat' = [hstat EXCEPT ![hheld] = "error"]
  /\ link' = [link EXCEPT ![hheld] = IF Kind = "process" THEN "none" ELSE @]
  /\ hpc' = "idle"
  /\ UNCHANGED <<row, tables, taskVars, requestVars, hheld>>

HeartbeatStep ==
  ProbeUnhealthy \/ Reopen \/ HeartbeatConnected \/ HeartbeatFails

-----------------------------------------------------------------------------
Quiet == \A r \in Requests : Resting(r)

Stopped(t) == tpc[t] \in {"unused", "done"}

\* Every coroutine has finished: nothing more need happen.
Rest ==
  /\ Quiet /\ hpc = "idle"
  /\ \A t \in Runners : Stopped(t) /\ ~callback[t]
  /\ UNCHANGED vars

Next ==
  \/ \E t \in Runners : RunnerStep(t) \/ ForgetInitializationTask(t) \/ LoseLink(t)
  \/ \E r \in Requests : Arrive(r) \/ RequestStep(r)
  \/ HeartbeatStep \/ ReadStatus \/ Rest

Spec == Init /\ [][Next]_vars

\* The event loop runs every ready coroutine, and connect() is bounded by its
\* timeout, so a runner, a request that arrived, a queued callback and the
\* heartbeat take their next step.  Requests need not arrive, and no link need
\* be lost.
Fairness ==
  /\ \A t \in Runners : WF_vars(RunnerStep(t)) /\ WF_vars(ForgetInitializationTask(t))
  /\ \A r \in Requests : WF_vars(RequestStep(r))
  /\ WF_vars(HeartbeatStep)

FairSpec == Spec /\ Fairness

-----------------------------------------------------------------------------
(* Properties.                                                             *)

\* Every variable has its type.
TypeOK ==
  /\ row \in RowStates
  /\ runtimeStatus \in Statuses
  /\ initTask \in Requests \cup {None}
  /\ active \in Runners \cup {None}
  /\ instance \in Runners \cup {None}
  /\ tpc \in [Runners -> TaskPCs]
  /\ attempt \in [Runners -> 1..Attempts]
  /\ tsaw \in [Runners -> RowStates]
  /\ cancelled \in [Runners -> BOOLEAN]
  /\ callback \in [Runners -> BOOLEAN]
  /\ hstat \in [Runners -> Statuses]
  /\ link \in [Runners -> {"none", "up", "lost", "orphan"}]
  /\ rpc \in [Requests -> RequestPCs]
  /\ op \in [Requests -> Operations]
  /\ rsaw \in [Requests -> RowStates]
  /\ held \in [Requests -> Runners \cup {None}]
  /\ lostRef \in [Requests -> BOOLEAN]
  /\ hpc \in {"idle", "opening", "wait"}
  /\ hheld \in Runners \cup {None}

\* A background task that is still running and was not cancelled is the one in
\* _initialization_tasks: stop_connection can always reach it.  Needs the reuse
\* in schedule_background_initialize and the identity test in
\* _forget_initialization_task, across tasks that come and go.
RunningTaskTracked ==
  \A t \in Requests : ~Stopped(t) /\ ~cancelled[t] => initTask = t

\* The table never keeps a finished task for good: as long as it is there, its
\* done-callback is still queued (_forget_initialization_task).
NoStaleTask ==
  initTask # None => tpc[initTask] # "done" \/ callback[initTask]

\* Every live SDK link belongs to the active connection or to an attempt still
\* in connect(): none is left that nobody can disconnect.
NoOrphanLink ==
  \A h \in Runners : link[h] # "none" => active = h \/ tpc[h] = "wait"

\* Once the requests are answered and the row is not active, no link is up and
\* no initialisation is running that could bring one up (the disable, delete
\* and patch routes).
DisabledMeansDown ==
  Quiet /\ row # "active" =>
    \A t \in Runners : link[t] = "none" /\ Stopped(t)

\* The part of it that leaves aside what is still running: with every coroutine
\* at rest, a connection whose row is not active has no link.
DownAtRest ==
  Quiet /\ row # "active" /\ hpc = "idle" /\ (\A t \in Runners : Stopped(t))
  => \A h \in Runners : link[h] = "none"

\* What get_connection_runtime_status answers.
ReportedStatus == IF active = None THEN runtimeStatus ELSE hstat[active]

\* At rest, the API says "connected" exactly when the active link is up.
StatusIsTrue ==
  Quiet /\ (\A t \in Runners : Stopped(t)) =>
    (ReportedStatus = "connected" <=> active # None /\ link[active] = "up")

\* A connection does not show "connecting" for ever: each of the operations
\* that set it ends by setting something else, however they interleave.
ConnectingEnds == <>[](ReportedStatus # "connecting")

\* A lost link of the active connection is given up or replaced (heartbeat).
LostLinkRecovers ==
  \A h \in Runners :
    (active = h /\ link[h] = "lost") ~> (active # h \/ link[h] # "lost")
=============================================================================
