------------------------- MODULE ChannelManagerProofs -------------------------
(***************************************************************************)
(* Proofs about ChannelManager, for any set of requests and any number of  *)
(* attempts.  The types and the table of tasks are as they should be with  *)
(* both kinds of handler, overlapping or not, with or without start-up and *)
(* heartbeat.  The status is true of a handler that reports its loss; no   *)
(* link is left behind, and none under a disabled row, when requests come  *)
(* one at a time: each theorem says what it needs.                         *)
(***************************************************************************)
EXTENDS ChannelManager, TLAPS

\* Type correctness, one lemma per group of actions.
LEMMA RunnerType ==
  ASSUME TypeOK, NEW t \in Runners, RunnerStep(t)
  PROVE  TypeOK'
<1> USE ChannelAssumption DEF TypeOK, Runners, RowStates, Statuses, TaskPCs, Absent,
        tables, taskVars, handlerVars, requestVars, heartbeatVars
<1>1. CASE BeginAttempt(t)
  BY <1>1 DEF BeginAttempt
<1>2. CASE SelectRow(t)
  BY <1>2 DEF SelectRow
<1>3. CASE ReadFails(t)
  BY <1>3 DEF ReadFails, AttemptOver
<1>4. CASE RejectFirst(t)
  BY <1>4 DEF RejectFirst
<1>5. CASE CreateHandler(t)
  BY <1>5 DEF CreateHandler
<1>6. CASE SetupFails(t)
  BY <1>6 DEF SetupFails, AttemptOver
<1>7. CASE RejectRecheck(t)
  BY <1>7 DEF RejectRecheck
<1>8. CASE LeaveRejected(t)
  BY <1>8 DEF LeaveRejected, AttemptOver
<1>9. CASE StartHandler(t)
  BY <1>9 DEF StartHandler
<1>10. CASE SpawnProcess(t)
  BY <1>10 DEF SpawnProcess
<1>11. CASE ConnectFails(t)
  BY <1>11 DEF ConnectFails, AttemptOver
<1>12. CASE Publish(t)
  BY <1>12 DEF Publish
<1>13. CASE CancelTask(t)
  BY <1>13 DEF CancelTask
<1> QED
  BY <1>1, <1>2, <1>3, <1>4, <1>5, <1>6, <1>7, <1>8, <1>9, <1>10, <1>11,
     <1>12, <1>13 DEF RunnerStep

\* stop_connection after the wait, by the two branches of its disconnect.
LEMMA StopActiveType ==
  ASSUME TypeOK, NEW r \in Requests, StopActive(r)
  PROVE  /\ runtimeStatus' \in Statuses
         /\ active' \in Runners \cup {None}
         /\ hstat' \in [Runners -> Statuses]
         /\ link' \in [Runners -> {"none", "up", "lost", "orphan"}]
         /\ rpc' \in [Requests -> RequestPCs]
         /\ held' \in [Requests -> Runners \cup {None}]
         /\ lostRef' \in [Requests -> BOOLEAN]
<1> USE DEF TypeOK, Statuses, RequestPCs, Go, handlerVars
<1>1. CASE active # None /\ Kind = "socket" /\ link[active] # "none"
  BY <1>1 DEF StopActive
<1>2. CASE ~(active # None /\ Kind = "socket" /\ link[active] # "none")
  <2>1. AfterStop(r) \in RequestPCs
    BY DEF AfterStop
  <2> QED
    BY <1>2, <2>1 DEF StopActive
<1> QED
  BY <1>1, <1>2

\* A step of a request keeps the types.
LEMMA RequestType ==
  ASSUME TypeOK, NEW r \in Requests, Arrive(r) \/ RequestStep(r)
  PROVE  TypeOK'
<1> USE ChannelAssumption DEF TypeOK, Runners, RowStates, Statuses, TaskPCs, RequestPCs,
        Absent, Go, tables, taskVars, handlerVars, requestVars, heartbeatVars
<1>1. CASE Arrive(r)
  BY <1>1 DEF Arrive
<1>2. CASE CommitCreate(r)
  BY <1>2 DEF CommitCreate
<1>3. CASE LoadRow(r)
  BY <1>3 DEF LoadRow
<1>4. CASE CheckActive(r)
  BY <1>4 DEF CheckActive
<1>5. CASE CommitFlag(r)
  BY <1>5 DEF CommitFlag, Written, Wanted
<1>6. CASE StopWithoutTask(r)
  BY <1>6, StopActiveType DEF StopWithoutTask
<1>7. CASE CancelPending(r)
  BY <1>7 DEF CancelPending, TaskPending
<1>8. CASE TaskAwaited(r)
  BY <1>8, StopActiveType DEF TaskAwaited
<1>9. CASE Dropped(r)
  BY <1>9 DEF Dropped, AfterStop
<1>10. CASE UnsetFlag(r)
  BY <1>10 DEF UnsetFlag
<1>11. CASE CommitUnset(r)
  BY <1>11 DEF CommitUnset, Written, Wanted
<1>12. CASE EraseRow(r)
  BY <1>12 DEF EraseRow
<1>13. CASE Schedule(r)
  BY <1>13 DEF Schedule, ScheduleBackgroundInitialize
<1> QED
  BY <1>1, <1>2, <1>3, <1>4, <1>5, <1>6, <1>7, <1>8, <1>9, <1>10, <1>11,
     <1>12, <1>13 DEF RequestStep

\* The loop's callbacks, the external service and the heartbeat keep the types.
LEMMA OtherType ==
  ASSUME TypeOK,
         \/ \E t \in Runners : ForgetInitializationTask(t) \/ LoseLink(t)
         \/ HeartbeatStep \/ ReadStatus \/ Rest \/ UNCHANGED vars
  PROVE  TypeOK'
<1> USE ChannelAssumption DEF TypeOK, Runners, Statuses, vars,
        tables, taskVars, handlerVars, requestVars, heartbeatVars
<1>1. CASE \E t \in Runners : ForgetInitializationTask(t)
  BY <1>1 DEF ForgetInitializationTask
<1>2. CASE \E t \in Runners : LoseLink(t)
  BY <1>2 DEF LoseLink
<1>3. CASE ReadStatus
  BY <1>3 DEF ReadStatus
<1>4. CASE ProbeUnhealthy
  BY <1>4 DEF ProbeUnhealthy
<1>5. CASE Reopen
  BY <1>5 DEF Reopen
<1>6. CASE HeartbeatConnected
  BY <1>6 DEF HeartbeatConnected
<1>7. CASE HeartbeatFails
  BY <1>7 DEF HeartbeatFails
<1>8. CASE Rest \/ UNCHANGED vars
  BY <1>8 DEF Rest
<1> QED
  BY <1>1, <1>2, <1>3, <1>4, <1>5, <1>6, <1>7, <1>8 DEF HeartbeatStep

\* The variables always have their types; in particular a background task never
\* starts more than Attempts attempts, and the heartbeat and every request only
\* ever hold handlers that exist.
THEOREM ChannelTypeCorrect == Spec => []TypeOK
<1>1. Init => TypeOK
  <2> SUFFICES ASSUME Init PROVE TypeOK
    OBVIOUS
  <2> USE ChannelAssumption DEF Init, TypeOK, Runners, RowStates, Statuses, TaskPCs,
          RequestPCs, Operations
  <2>1. row \in RowStates
    OBVIOUS
  <2>2. attempt \in [Runners -> 1..Attempts]
    OBVIOUS
  <2> QED
    BY <2>1, <2>2
<1>2. TypeOK /\ [Next]_vars => TypeOK'
  BY RunnerType, RequestType, OtherType DEF Next
<1> QED
  BY <1>1, <1>2, PTL DEF Spec

-------------------------------------------------------------------------------
(* The task table.                                                            *)

\* What the table, the tasks and the queued callbacks know of one another.  It
\* strengthens RunningTaskTracked and NoStaleTask to an inductive invariant: a
\* callback is queued for finished tasks only (so forgetting one never hides a
\* running task), the tracked task was created and not cancelled, and a task
\* whose request has not answered yet was not created.
TaskInv ==
  /\ RunningTaskTracked
  /\ NoStaleTask
  /\ initTask # None => tpc[initTask] # "unused" /\ ~cancelled[initTask]
  /\ \A t \in Runners : callback[t] => tpc[t] = "done"
  /\ \A t \in Runners : tpc[t] = "unused" => ~cancelled[t]
  /\ \A r \in Requests : rpc[r] # "done" => tpc[r] = "unused"

\* A step of a runner leaves the table, the cancellations and the requests
\* alone; it moves a live task, and queues the callback of a background task
\* exactly when it finishes it.
LEMMA RunnerEffect ==
  ASSUME TypeOK, NEW t \in Runners, RunnerStep(t),
         tpc[t] = "unused" => ~cancelled[t]
  PROVE  /\ ~Stopped(t)
         /\ initTask' = initTask /\ cancelled' = cancelled /\ rpc' = rpc
         /\ \E pc \in TaskPCs \ {"unused"} : tpc' = [tpc EXCEPT ![t] = pc]
         /\ \A u \in Runners : u # t => callback'[u] = callback[u]
         /\ callback'[t] => tpc'[t] = "done" \/ callback[t]
         /\ t \in Requests /\ tpc'[t] = "done" => callback'[t]
<1> USE ChannelAssumption DEF TypeOK, Runners, TaskPCs, Stopped, tables, taskVars,
        handlerVars, requestVars, heartbeatVars
<1>1. CASE BeginAttempt(t)
  BY <1>1 DEF BeginAttempt
<1>2. CASE SelectRow(t)
  BY <1>2 DEF SelectRow
<1>3. CASE ReadFails(t)
  BY <1>3 DEF ReadFails, AttemptOver
<1>4. CASE RejectFirst(t)
  BY <1>4 DEF RejectFirst
<1>5. CASE CreateHandler(t)
  BY <1>5 DEF CreateHandler
<1>6. CASE SetupFails(t)
  BY <1>6 DEF SetupFails, AttemptOver
<1>7. CASE RejectRecheck(t)
  BY <1>7 DEF RejectRecheck
<1>8. CASE LeaveRejected(t)
  BY <1>8 DEF LeaveRejected, AttemptOver
<1>9. CASE StartHandler(t)
  BY <1>9 DEF StartHandler
<1>10. CASE SpawnProcess(t)
  BY <1>10 DEF SpawnProcess
<1>11. CASE ConnectFails(t)
  BY <1>11 DEF ConnectFails, AttemptOver
<1>12. CASE Publish(t)
  BY <1>12 DEF Publish
<1>13. CASE CancelTask(t)
  BY <1>13 DEF CancelTask
<1> QED
  BY <1>1, <1>2, <1>3, <1>4, <1>5, <1>6, <1>7, <1>8, <1>9, <1>10, <1>11,
     <1>12, <1>13 DEF RunnerStep

\* A step of a runner keeps TaskInv.
LEMMA RunnerTask ==
  ASSUME TypeOK, TaskInv, NEW t \in Runners, RunnerStep(t)
  PROVE  TaskInv'
<1>1. tpc[t] = "unused" => ~cancelled[t]
  BY DEF TaskInv
<1>2. PICK pc \in TaskPCs \ {"unused"} : tpc' = [tpc EXCEPT ![t] = pc]
  BY <1>1, RunnerEffect
<1>3. /\ ~Stopped(t)
      /\ initTask' = initTask /\ cancelled' = cancelled /\ rpc' = rpc
      /\ \A u \in Runners : u # t => callback'[u] = callback[u]
      /\ callback'[t] => tpc'[t] = "done" \/ callback[t]
      /\ t \in Requests /\ tpc'[t] = "done" => callback'[t]
  BY <1>1, RunnerEffect
<1> USE <1>2, <1>3, ChannelAssumption DEF TypeOK, Runners, Stopped
<1>4. RunningTaskTracked'
  BY DEF TaskInv, RunningTaskTracked
<1>5. NoStaleTask'
  BY DEF TaskInv, NoStaleTask
<1>6. (initTask # None => tpc[initTask] # "unused" /\ ~cancelled[initTask])'
  BY DEF TaskInv
<1>7. (\A u \in Runners : callback[u] => tpc[u] = "done")'
  BY DEF TaskInv
<1>8. (\A u \in Runners : tpc[u] = "unused" => ~cancelled[u])'
  BY DEF TaskInv
<1>9. (\A r \in Requests : rpc[r] # "done" => tpc[r] = "unused")'
  BY DEF TaskInv
<1> QED
  BY <1>4, <1>5, <1>6, <1>7, <1>8, <1>9 DEF TaskInv

\* The done-callback takes its own task out of the table or nothing at all.
LEMMA ForgetTask ==
  ASSUME TypeOK, TaskInv, NEW t \in Runners, ForgetInitializationTask(t)
  PROVE  TaskInv'
BY ChannelAssumption DEF TaskInv, TypeOK, Runners, Stopped, RunningTaskTracked,
   NoStaleTask, ForgetInitializationTask, requestVars

\* The steps of a request that touch the table: it forgets a finished task,
\* cancels a running one, or creates a task when no other one is running.
LEMMA RequestTask ==
  ASSUME TypeOK, TaskInv, NEW r \in Requests, Arrive(r) \/ RequestStep(r)
  PROVE  TaskInv'
<1> USE ChannelAssumption DEF TypeOK, Runners, TaskInv, RunningTaskTracked, NoStaleTask,
        Stopped, Go
<1>1. CASE StopWithoutTask(r)
  <2>1. rpc' = [rpc EXCEPT ![r] = rpc'[r]]
    BY <1>1 DEF StopWithoutTask, StopActive
  <2> QED
    BY <1>1, <2>1 DEF StopWithoutTask, TaskPending, taskVars
<1>2. CASE CancelPending(r)
  BY <1>2 DEF CancelPending, TaskPending
<1>3. CASE Schedule(r)
  <2>1. CASE TaskPending
    BY <1>3, <2>1 DEF Schedule, ScheduleBackgroundInitialize
  <2>2. CASE ~TaskPending
    BY <1>3, <2>2 DEF Schedule, ScheduleBackgroundInitialize, TaskPending
  <2> QED
    BY <2>1, <2>2
<1>4. ASSUME /\ UNCHANGED <<initTask, tpc, cancelled, callback>>
             /\ rpc' = [rpc EXCEPT ![r] = rpc'[r]]
             /\ rpc[r] # "done"
      PROVE  TaskInv'
  BY <1>4
<1>5. CASE Arrive(r)
  BY <1>5, <1>4 DEF Arrive, tables, taskVars
<1>6. CASE CommitCreate(r) \/ LoadRow(r) \/ CheckActive(r) \/ CommitFlag(r)
  BY <1>6, <1>4 DEF CommitCreate, LoadRow, CheckActive, CommitFlag, tables, taskVars
<1>7. CASE TaskAwaited(r)
  <2>1. rpc' = [rpc EXCEPT ![r] = rpc'[r]]
    BY <1>7 DEF TaskAwaited, StopActive
  <2> QED
    BY <1>7, <2>1, <1>4 DEF TaskAwaited, taskVars
<1>8. CASE Dropped(r) \/ CommitUnset(r) \/ EraseRow(r)
  BY <1>8, <1>4 DEF Dropped, CommitUnset, EraseRow, tables, taskVars
<1>9. CASE UnsetFlag(r)
  <2>1. rpc' = [rpc EXCEPT ![r] = rpc'[r]]
    BY <1>9 DEF UnsetFlag
  <2> QED
    BY <1>9, <2>1, <1>4 DEF UnsetFlag, tables, taskVars
<1> QED
  BY <1>1, <1>2, <1>3, <1>5, <1>6, <1>7, <1>8, <1>9 DEF RequestStep

\* Every other step leaves the tasks, the table and the requests' places alone.
LEMMA OtherTask ==
  ASSUME TaskInv,
         (\E h \in Runners : LoseLink(h)) \/ HeartbeatStep \/ ReadStatus \/ Rest
           \/ UNCHANGED vars
  PROVE  TaskInv'
<1> USE DEF TaskInv, RunningTaskTracked, NoStaleTask, Stopped, vars, tables, taskVars,
        requestVars
<1>1. CASE \E h \in Runners : LoseLink(h)
  BY <1>1 DEF LoseLink
<1>2. CASE ProbeUnhealthy
  BY <1>2 DEF ProbeUnhealthy
<1>3. CASE Reopen
  BY <1>3 DEF Reopen
<1>4. CASE HeartbeatConnected
  BY <1>4 DEF HeartbeatConnected
<1>5. CASE HeartbeatFails
  BY <1>5 DEF HeartbeatFails
<1>6. CASE ReadStatus
  BY <1>6 DEF ReadStatus
<1>7. CASE Rest
  BY <1>7 DEF Rest
<1>8. CASE UNCHANGED vars
  BY <1>8
<1> QED
  BY <1>1, <1>2, <1>3, <1>4, <1>5, <1>6, <1>7, <1>8 DEF HeartbeatStep

\* TypeOK and TaskInv hold in every state.
LEMMA ChannelTaskInv == Spec => []TaskInv
<1>1. Init => TaskInv
  <2> SUFFICES ASSUME Init PROVE TaskInv
    OBVIOUS
  <2>1. initTask = None
    BY DEF Init
  <2>2. \A t \in Requests : tpc[t] = "unused"
    BY ChannelAssumption DEF Init, Runners
  <2>3. \A t \in Runners : ~callback[t] /\ ~cancelled[t]
    BY DEF Init
  <2> QED
    BY <2>1, <2>2, <2>3 DEF TaskInv, RunningTaskTracked, NoStaleTask, Stopped
<1>2. TypeOK /\ TaskInv /\ [Next]_vars => TaskInv'
  BY RunnerTask, ForgetTask, RequestTask, OtherTask DEF Next
<1> QED
  BY <1>1, <1>2, ChannelTypeCorrect, PTL DEF Spec

\* Whatever the interleaving, a background task that is running and was not
\* cancelled is in _initialization_tasks (so at most one such task exists, and
\* stop_connection reaches it), and the table never keeps a finished task whose
\* done-callback has run.
THEOREM ChannelTasksTracked == Spec => [](RunningTaskTracked /\ NoStaleTask)
<1>1. TaskInv => RunningTaskTracked /\ NoStaleTask
  BY DEF TaskInv
<1> QED
  BY <1>1, ChannelTaskInv, PTL

-------------------------------------------------------------------------------
(* What the API says of the connection.                                       *)

\* Without a heartbeat a handler has one client at most in its life.
Unsupervised == hpc = "idle" /\ \A r \in Requests : ~lostRef[r]

\* What the handler of t says of its link, by where t is.
Truthful(t) ==
  /\ tpc[t] = "wait" => link[t] = "up"
  /\ tpc[t] = "done" => (hstat[t] = "connected" <=> link[t] = "up")
  /\ tpc[t] \notin {"wait", "done"} => link[t] = "none" /\ hstat[t] # "connected"

\* A handler is active, or being disconnected, only when its attempt is over;
\* and with no handler "connected" is not said.
StatusInv ==
  /\ Unsupervised
  /\ \A t \in Runners : Truthful(t)
  /\ active # None => tpc[active] = "done"
  /\ \A r \in Requests : rpc[r] = "dropping" =>
       held[r] \in Runners /\ tpc[held[r]] = "done"
  /\ active = None => runtimeStatus # "connected"

\* A step of a runner moves its own handler only, and makes it the active one
\* when it is done.
LEMMA RunnerHandler ==
  ASSUME TypeOK, Kind = "socket", NEW t \in Runners, RunnerStep(t), Truthful(t),
         tpc[t] = "unused" => ~cancelled[t]
  PROVE  /\ Truthful(t)'
         /\ \A u \in Runners \ {t} : link'[u] = link[u] /\ hstat'[u] = hstat[u]
         /\ active' = active \/ (active' = t /\ tpc'[t] = "done")
         /\ active' = None => runtimeStatus' # "connected" \/ runtimeStatus' = runtimeStatus
         /\ UNCHANGED <<held, lostRef, hpc>>
<1> USE ChannelAssumption DEF TypeOK, Runners, TaskPCs, Truthful, tables, taskVars,
        handlerVars, requestVars, heartbeatVars
<1>1. CASE BeginAttempt(t)
  BY <1>1 DEF BeginAttempt
<1>2. CASE SelectRow(t)
  BY <1>2 DEF SelectRow
<1>3. CASE ReadFails(t)
  BY <1>3 DEF ReadFails, AttemptOver
<1>4. CASE RejectFirst(t)
  BY <1>4 DEF RejectFirst
<1>5. CASE CreateHandler(t)
  BY <1>5 DEF CreateHandler
<1>6. CASE SetupFails(t)
  BY <1>6 DEF SetupFails, AttemptOver
<1>7. CASE RejectRecheck(t)
  BY <1>7 DEF RejectRecheck
<1>8. CASE LeaveRejected(t)
  BY <1>8 DEF LeaveRejected, AttemptOver
<1>9. CASE StartHandler(t)
  BY <1>9 DEF StartHandler
<1>10. CASE SpawnProcess(t)
  BY <1>10 DEF SpawnProcess
<1>11. CASE ConnectFails(t)
  BY <1>11 DEF ConnectFails, AttemptOver
<1>12. CASE Publish(t)
  BY <1>12 DEF Publish
<1>13. CASE CancelTask(t)
  BY <1>13 DEF CancelTask
<1> QED
  BY <1>1, <1>2, <1>3, <1>4, <1>5, <1>6, <1>7, <1>8, <1>9, <1>10, <1>11,
     <1>12, <1>13 DEF RunnerStep

\* A step of a runner keeps StatusInv.
LEMMA RunnerStatus ==
  ASSUME TypeOK, TaskInv, StatusInv, Kind = "socket", NEW t \in Runners, RunnerStep(t)
  PROVE  StatusInv'
<1>1. tpc[t] = "unused" => ~cancelled[t]
  BY DEF TaskInv
<1>2. Truthful(t)
  BY DEF StatusInv
<1>3. /\ Truthful(t)'
      /\ \A u \in Runners \ {t} : link'[u] = link[u] /\ hstat'[u] = hstat[u]
      /\ active' = active \/ (active' = t /\ tpc'[t] = "done")
      /\ active' = None => runtimeStatus' # "connected" \/ runtimeStatus' = runtimeStatus
      /\ UNCHANGED <<held, lostRef, hpc>>
  BY <1>1, <1>2, RunnerHandler
<1>4. PICK pc \in TaskPCs : tpc' = [tpc EXCEPT ![t] = pc]
  BY <1>1, RunnerEffect
<1>5. ~Stopped(t) /\ rpc' = rpc
  BY <1>1, RunnerEffect
<1>6. \A u \in Runners \ {t} : tpc'[u] = tpc[u]
  BY <1>4 DEF TypeOK
<1>7. Unsupervised'
  BY <1>3 DEF StatusInv, Unsupervised
<1>8. \A u \in Runners : Truthful(u)'
  BY <1>3, <1>6 DEF StatusInv, Truthful
<1>9. active' # None => tpc'[active'] = "done"
  <2>1. active # None => active # t /\ active \in Runners
    BY <1>5 DEF StatusInv, Stopped, TypeOK
  <2> QED
    BY <1>3, <1>6, <2>1 DEF StatusInv
<1>10. \A r \in Requests : rpc'[r] = "dropping" =>
         held'[r] \in Runners /\ tpc'[held'[r]] = "done"
  BY <1>3, <1>5, <1>6 DEF StatusInv, Stopped
<1>11. active' = None => runtimeStatus' # "connected"
  BY <1>3, ChannelAssumption DEF StatusInv
<1> QED
  BY <1>7, <1>8, <1>9, <1>10, <1>11 DEF StatusInv

\* stop_connection after the wait, for a handler whose client tells the truth.
LEMMA StopActiveStatus ==
  ASSUME TypeOK, StatusInv, NEW r \in Requests, rpc[r] \in {"stop", "await"},
         StopActive(r), UNCHANGED <<tpc, hpc>>
  PROVE  StatusInv'
<1> USE DEF TypeOK, Go, handlerVars
<1>1. CASE active # None /\ Kind = "socket" /\ link[active] # "none"
  <2>1. /\ held' = [held EXCEPT ![r] = active] /\ lostRef' = [lostRef EXCEPT ![r] = FALSE]
        /\ rpc' = [rpc EXCEPT ![r] = "dropping"]
        /\ UNCHANGED <<runtimeStatus, active, hstat, link>>
    BY <1>1 DEF StopActive
  <2>2. Unsupervised'
    BY <2>1 DEF StatusInv, Unsupervised
  <2>3. \A t \in Runners : Truthful(t)'
    BY <2>1 DEF StatusInv, Truthful
  <2>4. \A s \in Requests : rpc'[s] = "dropping" =>
          held'[s] \in Runners /\ tpc'[held'[s]] = "done"
    BY <1>1, <2>1 DEF StatusInv
  <2> QED
    BY <2>1, <2>2, <2>3, <2>4 DEF StatusInv
<1>2. CASE ~(active # None /\ Kind = "socket" /\ link[active] # "none")
  <2>1. /\ active' = None /\ runtimeStatus' = "disconnected"
        /\ hstat' = [h \in Runners |-> IF h = active THEN "disconnected" ELSE hstat[h]]
        /\ link' = [h \in Runners |-> IF h = active THEN "none" ELSE link[h]]
        /\ rpc' = [rpc EXCEPT ![r] = AfterStop(r)]
        /\ UNCHANGED <<held, lostRef>>
    BY <1>2 DEF StopActive
  <2>2. Unsupervised'
    BY <2>1 DEF StatusInv, Unsupervised
  <2>3. ASSUME NEW t \in Runners PROVE Truthful(t)'
    <3>1. CASE t = active
      <4>1. tpc[t] = "done" /\ hstat'[t] = "disconnected" /\ link'[t] = "none"
        BY <2>1, <3>1, ChannelAssumption DEF StatusInv, Runners
      <4> QED
        BY <4>1 DEF Truthful
    <3>2. CASE t # active
      BY <2>1, <3>2 DEF StatusInv, Truthful
    <3> QED
      BY <3>1, <3>2
  <2>4. AfterStop(r) # "dropping"
    BY DEF AfterStop
  <2>5. \A s \in Requests : rpc'[s] = "dropping" =>
          held'[s] \in Runners /\ tpc'[held'[s]] = "done"
    BY <2>1, <2>4 DEF StatusInv
  <2> QED
    BY <2>1, <2>2, <2>3, <2>5, ChannelAssumption DEF StatusInv
<1> QED
  BY <1>1, <1>2

\* A client is closed, and whichever handler is active is forgotten.
LEMMA DroppedStatus ==
  ASSUME TypeOK, StatusInv, NEW r \in Requests, Dropped(r)
  PROVE  StatusInv'
<1> DEFINE h == held[r]
<1>1. /\ h \in Runners /\ tpc[h] = "done" /\ ~lostRef[r]
      /\ rpc' = [rpc EXCEPT ![r] = AfterStop(r)]
      /\ active' = None /\ runtimeStatus' # "connected"
      /\ hstat' = [hstat EXCEPT ![h] = "disconnected"]
      /\ UNCHANGED <<tpc, held, lostRef, hpc>>
  BY DEF Dropped, StatusInv, Unsupervised, Go, taskVars, heartbeatVars
<1>2. link' = [link EXCEPT ![h] = "none"]
  BY <1>1 DEF Dropped
<1>3. \A t \in Runners : Truthful(t)'
  BY <1>1, <1>2 DEF StatusInv, Truthful, TypeOK
<1>4. AfterStop(r) # "dropping"
  BY DEF AfterStop
<1>5. \A s \in Requests : rpc'[s] = "dropping" =>
        held'[s] \in Runners /\ tpc'[held'[s]] = "done"
  BY <1>1, <1>4 DEF StatusInv, TypeOK
<1>6. Unsupervised'
  BY <1>1 DEF StatusInv, Unsupervised
<1> QED
  BY <1>1, <1>3, <1>5, <1>6 DEF StatusInv

\* A request that moves on without stopping anything.
LEMMA MovesOnStatus ==
  ASSUME TypeOK, StatusInv, NEW r \in Requests, NEW p \in RequestPCs, p # "dropping",
         rpc' = [rpc EXCEPT ![r] = p], rpc[r] # "dropping",
         \A s \in Requests \ {r} : held'[s] = held[s],
         \A t \in Runners : tpc'[t] = tpc[t] \/ (tpc[t] = "unused" /\ tpc'[t] = "new"),
         runtimeStatus' = runtimeStatus \/ runtimeStatus' # "connected",
         UNCHANGED <<active, hstat, link, lostRef, hpc>>
  PROVE  StatusInv'
<1>1. Unsupervised'
  BY DEF StatusInv, Unsupervised
<1>2. \A t \in Runners : Truthful(t)'
  BY DEF StatusInv, Truthful
<1>3. active' # None => tpc'[active'] = "done"
  BY DEF StatusInv, TypeOK
<1>4. \A s \in Requests : rpc'[s] = "dropping" =>
        held'[s] \in Runners /\ tpc'[held'[s]] = "done"
  <2>1. \A s \in Requests : rpc'[s] = "dropping" => s # r /\ rpc[s] = "dropping"
    BY DEF TypeOK
  <2>2. \A t \in Runners : tpc[t] = "done" => tpc'[t] = "done"
    OBVIOUS
  <2> QED
    BY <2>1, <2>2 DEF StatusInv
<1>5. active' = None => runtimeStatus' # "connected"
  BY DEF StatusInv
<1> QED
  BY <1>1, <1>2, <1>3, <1>4, <1>5 DEF StatusInv

\* A step of a request keeps StatusInv.
LEMMA RequestStatus ==
  ASSUME TypeOK, TaskInv, StatusInv, NEW r \in Requests, Arrive(r) \/ RequestStep(r)
  PROVE  StatusInv'
<1>1. CASE StopWithoutTask(r) \/ TaskAwaited(r)
  BY <1>1, StopActiveStatus DEF StopWithoutTask, TaskAwaited, taskVars, heartbeatVars
<1>2. CASE Dropped(r)
  BY <1>2, DroppedStatus
<1>3. CASE CancelPending(r)
  <2>1. \A s \in Requests \ {r} : held'[s] = held[s]
    BY <1>3 DEF CancelPending, TypeOK
  <2> QED
    BY <1>3, <2>1, MovesOnStatus DEF CancelPending, Go, RequestPCs, handlerVars, heartbeatVars
<1>4. CASE Schedule(r)
  <2>1. rpc[r] = "schedule" /\ rpc' = [rpc EXCEPT ![r] = "done"]
    BY <1>4 DEF Schedule, Go
  <2>2. tpc[r] = "unused"
    BY <2>1 DEF TaskInv
  <2>3. \A t \in Runners : tpc'[t] = tpc[t] \/ (tpc[t] = "unused" /\ tpc'[t] = "new")
    BY <1>4, <2>2 DEF Schedule, ScheduleBackgroundInitialize, TypeOK
  <2>4. UNCHANGED <<active, hstat, link, held, lostRef, hpc>>
    BY <1>4 DEF Schedule, handlerVars, heartbeatVars
  <2>5. runtimeStatus' = runtimeStatus \/ runtimeStatus' # "connected"
    BY <1>4 DEF Schedule
  <2> QED
    BY <2>1, <2>3, <2>4, <2>5, MovesOnStatus DEF RequestPCs
<1>5. CASE \/ Arrive(r) \/ CommitCreate(r) \/ LoadRow(r) \/ CheckActive(r) \/ CommitFlag(r)
           \/ UnsetFlag(r) \/ CommitUnset(r) \/ EraseRow(r)
  <2>1. \E p \in RequestPCs : p # "dropping" /\ rpc' = [rpc EXCEPT ![r] = p]
    BY <1>5 DEF Arrive, CommitCreate, LoadRow, CheckActive, CommitFlag, UnsetFlag,
                CommitUnset, EraseRow, Go, RequestPCs
  <2>2. rpc[r] # "dropping" /\ UNCHANGED <<tpc, held, active, hstat, link, lostRef, hpc>>
    BY <1>5 DEF Arrive, CommitCreate, LoadRow, CheckActive, CommitFlag, UnsetFlag,
                CommitUnset, EraseRow, tables, taskVars, handlerVars, heartbeatVars
  <2>3. runtimeStatus' = runtimeStatus \/ runtimeStatus' # "connected"
    BY <1>5 DEF Arrive, CommitCreate, LoadRow, CheckActive, CommitFlag, UnsetFlag,
                CommitUnset, EraseRow, tables
  <2> QED
    BY <2>1, <2>2, <2>3, MovesOnStatus
<1> QED
  BY <1>1, <1>2, <1>3, <1>4, <1>5 DEF RequestStep

\* Callbacks, start-up and the external service keep StatusInv.
LEMMA OtherStatus ==
  ASSUME TypeOK, StatusInv, Kind = "socket", ~WithHeartbeat,
         \/ \E t \in Runners : ForgetInitializationTask(t) \/ LoseLink(t)
         \/ HeartbeatStep \/ ReadStatus \/ Rest \/ UNCHANGED vars
  PROVE  StatusInv'
<1>1. ~HeartbeatStep
  BY DEF HeartbeatStep, ProbeUnhealthy, Reopen, HeartbeatConnected, HeartbeatFails,
         StatusInv, Unsupervised
<1>2. CASE Rest \/ UNCHANGED vars \/ \E t \in Runners : ForgetInitializationTask(t)
  <2>1. UNCHANGED <<tpc, rpc, held, lostRef, active, hstat, link, runtimeStatus, hpc>>
    BY <1>2 DEF Rest, vars, ForgetInitializationTask, tables, taskVars, handlerVars,
                requestVars, heartbeatVars
  <2> QED
    BY <2>1 DEF StatusInv, Unsupervised, Truthful
<1>3. CASE ReadStatus
  <2>1. active # None /\ UNCHANGED <<tpc, rpc, held, lostRef, active, hstat, link, hpc>>
    BY <1>3 DEF ReadStatus, taskVars, handlerVars, requestVars, heartbeatVars
  <2> QED
    BY <2>1 DEF StatusInv, Unsupervised, Truthful
<1>4. ASSUME NEW h \in Runners, LoseLink(h) PROVE StatusInv'
  <2>1. /\ active = h /\ link' = [link EXCEPT ![h] = "lost"]
        /\ hstat' = [hstat EXCEPT ![h] = "error"]
        /\ UNCHANGED <<tpc, rpc, held, lostRef, active, runtimeStatus, hpc>>
    BY <1>4 DEF LoseLink, tables, taskVars, requestVars, heartbeatVars
  <2>2. tpc[h] = "done"
    BY <2>1, ChannelAssumption DEF StatusInv, Runners
  <2>3. \A t \in Runners : Truthful(t)'
    BY <2>1, <2>2 DEF StatusInv, Truthful, TypeOK
  <2> QED
    BY <2>1, <2>3 DEF StatusInv, Unsupervised
<1> QED
  BY <1>1, <1>2, <1>3, <1>4

\* Of a handler whose client reports a lost link (WeCom), and without the
\* heartbeat, the API says "connected" exactly when the link of the active
\* connection is up, whatever requests overlap and however tasks end; at rest in
\* particular.
THEOREM ChannelStatusIsTrue ==
  ASSUME Kind = "socket", ~WithHeartbeat
  PROVE  Spec => []StatusIsTrue
<1>1. Init => StatusInv
  <2> SUFFICES ASSUME Init PROVE StatusInv
    OBVIOUS
  <2>1. Unsupervised /\ \A t \in Runners : Truthful(t)
    BY DEF Init, Unsupervised, Truthful
  <2> QED
    BY <2>1 DEF Init, StatusInv
<1>2. TypeOK /\ TaskInv /\ StatusInv /\ [Next]_vars => StatusInv'
  BY RunnerStatus, RequestStatus, OtherStatus DEF Next
<1>3. TypeOK /\ StatusInv => StatusIsTrue
  BY DEF TypeOK, StatusInv, Truthful, StatusIsTrue, ReportedStatus
<1> QED
  BY <1>1, <1>2, <1>3, ChannelTypeCorrect, ChannelTaskInv, PTL DEF Spec

-------------------------------------------------------------------------------
(* One request at a time.                                                     *)

\* The hypotheses under which no link is ever left behind: requests do not
\* overlap, none is an enable (whose test of the active table overlooks a task),
\* and neither start-up nor the heartbeat works on the connection.
Serial == ~Overlap /\ ~WithBoot /\ ~WithHeartbeat /\ "enable" \notin Ops

Stopping == {"stop", "await", "dropping"}
Cleared  == {"unset", "unsetCommit", "erase", "schedule"}

\* There is a connection, or a task that may bring one up.
Live == active # None \/ \E t \in Runners : ~Stopped(t)

OneRequest == \A r, s \in Requests : ~Resting(r) /\ ~Resting(s) => r = s

\* What a request may be doing where it is, and what it knows of the row.
Errands == \A r \in Requests :
  /\ rpc[r] # "check"
  /\ rpc[r] = "read" => op[r] \notin {"create", "enable"}
  /\ rpc[r] = "commit" => /\ op[r] \in {"patchOn", "patchOff", "patchConfig"}
                          /\ row = rsaw[r] /\ row \notin Absent
  /\ rpc[r] \in Stopping => op[r] \in {"disable", "delete", "patchOff", "patchConfig"}
  /\ rpc[r] \in Stopping /\ op[r] = "patchConfig" => row = "active"
  /\ rpc[r] = "schedule" => row = "active"

\* One task at most, and none beside a connection.
OneConnection ==
  /\ \A t, u \in Runners : ~Stopped(t) /\ ~Stopped(u) => t = u
  /\ \A t \in Runners : ~Stopped(t) => active = None

\* What is live under a row that is not active is being stopped; after the stop
\* nothing is.
Justified ==
  /\ Live /\ row # "active" => \E r \in Requests : rpc[r] \in Stopping
  /\ \A r \in Requests : rpc[r] \in Cleared => ~Live

\* A cancelled task is awaited, and who awaits one has left no other.
Awaited ==
  /\ \A t \in Runners : ~Stopped(t) /\ cancelled[t] =>
       \E r \in Requests : rpc[r] = "await" /\ held[r] = t
  /\ \A r \in Requests : rpc[r] = "await" =>
       initTask = None /\ \A t \in Runners : ~Stopped(t) => t = held[r]
  /\ \A r \in Requests : rpc[r] = "dropping" => active # None /\ held[r] = active

\* The start-up coroutine has nothing to do.
BootIdle == tpc[Boot] = "unused"

SerialInv ==
  /\ OneRequest /\ Errands /\ OneConnection /\ Justified /\ Awaited
  /\ Unsupervised /\ BootIdle /\ NoOrphanLink

\* A step of a runner leaves a link behind only while it is in connect() or when
\* it has made its handler the active one.
LEMMA RunnerLink ==
  ASSUME TypeOK, NEW t \in Runners, RunnerStep(t),
         tpc[t] = "unused" => ~cancelled[t]
  PROVE  /\ \A u \in Runners \ {t} : link'[u] = link[u]
         /\ link'[t] # "none" => \/ tpc'[t] = "wait" \/ active' = t
                                 \/ link'[t] = link[t] /\ tpc[t] # "wait"
         /\ \/ active' = active
            \/ active' = t /\ tpc'[t] = "done" /\ ~cancelled[t]
         /\ UNCHANGED <<row, op, rsaw, held, lostRef, hpc>>
<1> USE ChannelAssumption DEF TypeOK, Runners, TaskPCs, tables, taskVars,
        handlerVars, requestVars, heartbeatVars
<1>1. CASE BeginAttempt(t)
  BY <1>1 DEF BeginAttempt
<1>2. CASE SelectRow(t)
  BY <1>2 DEF SelectRow
<1>3. CASE ReadFails(t)
  BY <1>3 DEF ReadFails, AttemptOver
<1>4. CASE RejectFirst(t)
  BY <1>4 DEF RejectFirst
<1>5. CASE CreateHandler(t)
  BY <1>5 DEF CreateHandler
<1>6. CASE SetupFails(t)
  BY <1>6 DEF SetupFails, AttemptOver
<1>7. CASE RejectRecheck(t)
  BY <1>7 DEF RejectRecheck
<1>8. CASE LeaveRejected(t)
  BY <1>8 DEF LeaveRejected, AttemptOver
<1>9. CASE StartHandler(t)
  BY <1>9 DEF StartHandler
<1>10. CASE SpawnProcess(t)
  BY <1>10 DEF SpawnProcess
<1>11. CASE ConnectFails(t)
  BY <1>11 DEF ConnectFails, AttemptOver
<1>12. CASE Publish(t)
  BY <1>12 DEF Publish
<1>13. CASE CancelTask(t)
  BY <1>13 DEF CancelTask
<1> QED
  BY <1>1, <1>2, <1>3, <1>4, <1>5, <1>6, <1>7, <1>8, <1>9, <1>10, <1>11,
     <1>12, <1>13 DEF RunnerStep

\* A step of a runner keeps SerialInv.
LEMMA RunnerSerial ==
  ASSUME TypeOK, TaskInv, SerialInv, NEW t \in Runners, RunnerStep(t)
  PROVE  SerialInv'
<1>1. tpc[t] = "unused" => ~cancelled[t]
  BY DEF TaskInv
<1>2. /\ \A u \in Runners \ {t} : link'[u] = link[u]
      /\ link'[t] # "none" => \/ tpc'[t] = "wait" \/ active' = t
                              \/ link'[t] = link[t] /\ tpc[t] # "wait"
      /\ \/ active' = active
         \/ active' = t /\ tpc'[t] = "done" /\ ~cancelled[t]
      /\ UNCHANGED <<row, op, rsaw, held, lostRef, hpc>>
  BY <1>1, RunnerLink
<1>3. PICK pc \in TaskPCs : tpc' = [tpc EXCEPT ![t] = pc]
  BY <1>1, RunnerEffect
<1>4. ~Stopped(t) /\ UNCHANGED <<initTask, cancelled, rpc>>
  BY <1>1, RunnerEffect
<1>5. \A u \in Runners \ {t} : tpc'[u] = tpc[u]
  BY <1>3 DEF TypeOK
<1>6. \A u \in Runners : ~Stopped(u)' => ~Stopped(u)
  BY <1>4, <1>5 DEF Stopped
<1>7. \A u \in Runners \ {t} : Stopped(u) /\ Stopped(u)'
  BY <1>4, <1>5 DEF SerialInv, OneConnection, Stopped
<1>8. active = None
  BY <1>4 DEF SerialInv, OneConnection
<1>9. Live
  BY <1>4 DEF Live
<1>10. OneRequest' /\ Errands' /\ Unsupervised'
  BY <1>2, <1>4 DEF SerialInv, OneRequest, Resting, Errands, Unsupervised
<1>11. OneConnection'
  <2>1. \A u, v \in Runners : ~Stopped(u)' /\ ~Stopped(v)' => u = v
    BY <1>7
  <2>2. active' # None => Stopped(t)'
    BY <1>2, <1>8 DEF Stopped
  <2> QED
    BY <1>7, <2>1, <2>2 DEF OneConnection
<1>12. Justified'
  <2>1. row' # "active" => \E r \in Requests : rpc'[r] \in Stopping
    BY <1>2, <1>4, <1>9 DEF SerialInv, Justified
  <2>2. \A r \in Requests : rpc'[r] \notin Cleared
    BY <1>4, <1>9 DEF SerialInv, Justified
  <2> QED
    BY <2>1, <2>2 DEF Justified
<1>13. Awaited'
  <2>1. \A u \in Runners : ~Stopped(u)' /\ cancelled'[u] =>
          \E r \in Requests : rpc'[r] = "await" /\ held'[r] = u
    BY <1>2, <1>4, <1>6 DEF SerialInv, Awaited
  <2>2. \A r \in Requests : rpc'[r] = "await" =>
          initTask' = None /\ \A u \in Runners : ~Stopped(u)' => u = held'[r]
    BY <1>2, <1>4, <1>6 DEF SerialInv, Awaited
  <2>3. \A r \in Requests : rpc'[r] # "dropping"
    BY <1>4, <1>8 DEF SerialInv, Awaited
  <2> QED
    BY <2>1, <2>2, <2>3 DEF Awaited
<1>14. NoOrphanLink'
  <2>1. ASSUME NEW u \in Runners, u # t, link'[u] # "none" PROVE FALSE
    <3>1. tpc[u] # "wait"
      BY <1>7, <2>1 DEF Stopped
    <3> QED
      BY <1>2, <1>8, <2>1, <3>1, ChannelAssumption DEF SerialInv, NoOrphanLink, Runners
  <2>2. link[t] # "none" => tpc[t] = "wait"
    BY <1>8, ChannelAssumption DEF SerialInv, NoOrphanLink, Runners
  <2>3. link'[t] # "none" => active' = t \/ tpc'[t] = "wait"
    BY <1>2, <2>2
  <2> QED
    BY <2>1, <2>3 DEF NoOrphanLink
<1>15. BootIdle'
  BY <1>4, <1>5 DEF SerialInv, BootIdle, Stopped, Runners
<1> QED
  BY <1>10, <1>11, <1>12, <1>13, <1>14, <1>15 DEF SerialInv

\* A request that moves on and touches neither tasks nor handlers.
LEMMA MovesOnSerial ==
  ASSUME TypeOK, SerialInv, NEW r \in Requests, NEW p \in RequestPCs,
         rpc' = [rpc EXCEPT ![r] = p],
         \A s \in Requests \ {r} : Resting(s),
         rpc[r] \notin {"await", "dropping"}, p \notin {"await", "dropping", "check"},
         UNCHANGED <<initTask, tpc, cancelled, active, link, held, lostRef, hpc>>,
         p = "read" => op'[r] \notin {"create", "enable"},
         p = "commit" => /\ op'[r] \in {"patchOn", "patchOff", "patchConfig"}
                         /\ row' = rsaw'[r] /\ row' \notin Absent,
         p = "stop" => /\ op'[r] \in {"disable", "delete", "patchOff", "patchConfig"}
                       /\ op'[r] = "patchConfig" => row' = "active",
         p = "schedule" => row' = "active",
         Live /\ row' # "active" => p = "stop",
         p \in Cleared => ~Live
  PROVE  SerialInv'
<1>1. /\ rpc'[r] = p
      /\ \A s \in Requests \ {r} : rpc'[s] \in {"idle", "done"} /\ rpc[s] \in {"idle", "done"}
  BY DEF Resting, TypeOK
<1>2. Live' <=> Live
  BY DEF Live, Stopped
<1>3. OneRequest'
  BY <1>1 DEF OneRequest, Resting
<1>4. Errands'
  BY <1>1 DEF Errands, Stopping
<1>5. OneConnection'
  BY DEF SerialInv, OneConnection, Stopped
<1>6. Justified'
  <2>1. Live' /\ row' # "active" => rpc'[r] \in Stopping
    BY <1>1, <1>2 DEF Stopping
  <2>2. \A s \in Requests : rpc'[s] \in Cleared => ~Live'
    BY <1>1, <1>2 DEF Cleared
  <2> QED
    BY <2>1, <2>2 DEF Justified
<1>7. Awaited'
  <2>1. \A s \in Requests : rpc[s] # "await"
    BY <1>1
  <2>2. \A t \in Runners : ~(~Stopped(t) /\ cancelled[t])
    BY <2>1 DEF SerialInv, Awaited
  <2>3. \A t \in Runners : ~(~Stopped(t)' /\ cancelled'[t])
    BY <2>2 DEF Stopped
  <2>4. \A s \in Requests : rpc'[s] \notin {"await", "dropping"}
    BY <1>1
  <2> QED
    BY <2>3, <2>4 DEF Awaited
<1>8. Unsupervised' /\ BootIdle' /\ NoOrphanLink'
  BY DEF SerialInv, Unsupervised, BootIdle, NoOrphanLink
<1> QED
  BY <1>3, <1>4, <1>5, <1>6, <1>7, <1>8 DEF SerialInv

\* While a request is not stopping anything, nothing is live under a row that
\* is not active.
LEMMA LiveMeansActive ==
  ASSUME SerialInv, NEW r \in Requests, rpc[r] \notin Stopping,
         \A s \in Requests \ {r} : Resting(s)
  PROVE  Live => row = "active"
BY DEF SerialInv, Justified, Stopping, Resting

\* stop_connection once every task is over: the handler is disconnected at once,
\* or the request suspends while its client closes.
LEMMA StopActiveSerial ==
  ASSUME TypeOK, SerialInv, NEW r \in Requests, rpc[r] \in {"stop", "await"},
         \A s \in Requests \ {r} : Resting(s),
         \A t \in Runners : Stopped(t),
         StopActive(r), UNCHANGED <<row, tpc, cancelled, op, rsaw, hpc>>
  PROVE  SerialInv'
<1> USE DEF Go, handlerVars
<1>1. /\ \A s \in Requests \ {r} : rpc[s] \in {"idle", "done"}
      /\ \A t \in Runners : Stopped(t)'
      /\ \A t \in Runners : tpc[t] # "wait"
      /\ op[r] \in {"disable", "delete", "patchOff", "patchConfig"}
      /\ op[r] = "patchConfig" => row = "active"
  BY DEF SerialInv, Errands, Stopping, Resting, Stopped
<1>2. OneConnection' /\ BootIdle'
  BY <1>1 DEF SerialInv, OneConnection, BootIdle
<1>3. CASE active # None /\ Kind = "socket" /\ link[active] # "none"
  <2>1. /\ held' = [held EXCEPT ![r] = active] /\ lostRef' = [lostRef EXCEPT ![r] = FALSE]
        /\ rpc' = [rpc EXCEPT ![r] = "dropping"]
        /\ UNCHANGED <<active, link>>
    BY <1>3 DEF StopActive
  <2>2. /\ rpc'[r] = "dropping" /\ held'[r] = active
        /\ \A s \in Requests \ {r} : rpc'[s] \in {"idle", "done"}
    BY <1>1, <2>1 DEF TypeOK
  <2>3. OneRequest'
    BY <2>2 DEF OneRequest, Resting
  <2>4. Errands'
    BY <1>1, <2>2 DEF Errands, Stopping
  <2>5. Justified'
    BY <2>2 DEF Justified, Stopping, Cleared
  <2>6. Awaited'
    BY <1>1, <1>3, <2>1, <2>2 DEF Awaited
  <2>7. Unsupervised' /\ NoOrphanLink'
    BY <2>1 DEF SerialInv, Unsupervised, NoOrphanLink, TypeOK
  <2> QED
    BY <1>2, <2>3, <2>4, <2>5, <2>6, <2>7 DEF SerialInv
<1>4. CASE ~(active # None /\ Kind = "socket" /\ link[active] # "none")
  <2>1. /\ active' = None
        /\ link' = [h \in Runners |-> IF h = active THEN "none" ELSE link[h]]
        /\ rpc' = [rpc EXCEPT ![r] = AfterStop(r)]
        /\ UNCHANGED <<held, lostRef>>
    BY <1>4 DEF StopActive
  <2>2. /\ AfterStop(r) \in {"unset", "erase", "schedule", "done"}
        /\ AfterStop(r) = "schedule" => row = "active"
    BY <1>1 DEF AfterStop
  <2>3. /\ rpc'[r] \in {"unset", "erase", "schedule", "done"}
        /\ rpc'[r] = "schedule" => row = "active"
        /\ \A s \in Requests \ {r} : rpc'[s] \in {"idle", "done"}
    BY <1>1, <2>1, <2>2 DEF TypeOK
  <2>4. ~Live'
    BY <1>1, <2>1 DEF Live
  <2>5. OneRequest'
    BY <2>3 DEF OneRequest, Resting
  <2>6. Errands'
    BY <2>3 DEF Errands, Stopping
  <2>7. Justified'
    BY <2>4 DEF Justified
  <2>8. Awaited'
    BY <1>1, <2>3 DEF Awaited
  <2>9. Unsupervised'
    BY <2>1 DEF SerialInv, Unsupervised
  <2>10. \A h \in Runners : link'[h] = "none"
    BY <1>1, <2>1 DEF SerialInv, NoOrphanLink
  <2> QED
    BY <1>2, <2>5, <2>6, <2>7, <2>8, <2>9, <2>10 DEF SerialInv, NoOrphanLink
<1> QED
  BY <1>3, <1>4

\* A request that takes the handler down keeps SerialInv.
LEMMA DroppedSerial ==
  ASSUME TypeOK, SerialInv, NEW r \in Requests, Dropped(r),
         \A s \in Requests \ {r} : Resting(s)
  PROVE  SerialInv'
<1>1. /\ rpc[r] = "dropping" /\ held[r] = active /\ active # None
      /\ \A s \in Requests \ {r} : rpc[s] \in {"idle", "done"}
      /\ op[r] \in {"disable", "delete", "patchOff", "patchConfig"}
      /\ op[r] = "patchConfig" => row = "active"
  BY DEF Dropped, SerialInv, Awaited, Errands, Stopping, Resting
<1>2. \A t \in Runners : Stopped(t) /\ tpc[t] # "wait"
  BY <1>1 DEF SerialInv, OneConnection, Stopped
<1>3. /\ active' = None /\ rpc' = [rpc EXCEPT ![r] = AfterStop(r)]
      /\ UNCHANGED <<row, tpc, cancelled, op, rsaw, held, lostRef, hpc>>
  BY DEF Dropped, Go, taskVars, heartbeatVars
<1>4. /\ AfterStop(r) \in {"unset", "erase", "schedule", "done"}
      /\ AfterStop(r) = "schedule" => row = "active"
  BY <1>1 DEF AfterStop
<1>5. /\ rpc'[r] \in {"unset", "erase", "schedule", "done"}
      /\ rpc'[r] = "schedule" => row = "active"
      /\ \A s \in Requests \ {r} : rpc'[s] \in {"idle", "done"}
  BY <1>1, <1>3, <1>4 DEF TypeOK
<1>6. \A t \in Runners : Stopped(t)'
  BY <1>2, <1>3 DEF Stopped
<1>7. ~Live'
  BY <1>3, <1>6 DEF Live
<1>8. OneRequest'
  BY <1>5 DEF OneRequest, Resting
<1>9. Errands'
  BY <1>3, <1>5 DEF Errands, Stopping
<1>10. OneConnection' /\ Justified' /\ BootIdle'
  BY <1>3, <1>6, <1>7 DEF SerialInv, OneConnection, Justified, BootIdle
<1>11. Awaited'
  BY <1>5, <1>6 DEF Awaited
<1>12. Unsupervised'
  BY <1>3 DEF SerialInv, Unsupervised
<1>13. ~lostRef[r]
  BY DEF SerialInv, Unsupervised
<1>14. link' = [link EXCEPT ![active] = "none"]
  BY <1>1, <1>13 DEF Dropped
<1>15. \A h \in Runners : link'[h] = "none"
  BY <1>1, <1>2, <1>14 DEF SerialInv, NoOrphanLink, TypeOK
<1> QED
  BY <1>8, <1>9, <1>10, <1>11, <1>12, <1>15 DEF SerialInv, NoOrphanLink

\* The running task is the one in the table: it is cancelled and awaited.
LEMMA CancelPendingSerial ==
  ASSUME TypeOK, TaskInv, SerialInv, NEW r \in Requests, CancelPending(r),
         \A s \in Requests \ {r} : Resting(s)
  PROVE  SerialInv'
<1>1. /\ rpc[r] = "stop" /\ initTask \in Requests /\ tpc[initTask] # "done"
      /\ cancelled' = [cancelled EXCEPT ![initTask] = TRUE]
      /\ held' = [held EXCEPT ![r] = initTask] /\ initTask' = None
      /\ rpc' = [rpc EXCEPT ![r] = "await"]
      /\ UNCHANGED <<row, active, tpc, link, op, rsaw, lostRef, hpc>>
  BY DEF CancelPending, TaskPending, Go, TypeOK, handlerVars, heartbeatVars
<1>2. initTask \in Runners /\ ~Stopped(initTask)
  BY <1>1, ChannelAssumption DEF TaskInv, Stopped, Runners
<1>3. /\ rpc'[r] = "await" /\ held'[r] = initTask
      /\ \A s \in Requests \ {r} : rpc[s] \in {"idle", "done"} /\ rpc'[s] \in {"idle", "done"}
  BY <1>1 DEF TypeOK, Resting
<1>4. \A t \in Runners : ~Stopped(t) => t = initTask
  BY <1>2 DEF SerialInv, OneConnection
<1>5. \A t \in Runners : ~Stopped(t)' => ~Stopped(t)
  BY <1>1 DEF Stopped
<1>6. OneRequest'
  BY <1>3 DEF OneRequest, Resting
<1>7. Errands'
  BY <1>1, <1>3 DEF SerialInv, Errands, Stopping
<1>8. OneConnection'
  BY <1>1, <1>5 DEF SerialInv, OneConnection
<1>9. Justified'
  BY <1>3 DEF Justified, Stopping, Cleared
<1>10. Awaited'
  BY <1>1, <1>3, <1>4, <1>5 DEF Awaited
<1>11. Unsupervised' /\ BootIdle' /\ NoOrphanLink'
  BY <1>1 DEF SerialInv, Unsupervised, BootIdle, NoOrphanLink
<1> QED
  BY <1>6, <1>7, <1>8, <1>9, <1>10, <1>11 DEF SerialInv

\* Nothing is live when a task is created, so it is the only one.
LEMMA ScheduleSerial ==
  ASSUME TypeOK, TaskInv, SerialInv, NEW r \in Requests, Schedule(r),
         \A s \in Requests \ {r} : Resting(s)
  PROVE  SerialInv'
<1>1. /\ rpc[r] = "schedule" /\ rpc' = [rpc EXCEPT ![r] = "done"]
      /\ UNCHANGED <<row, active, cancelled, link, op, rsaw, held, lostRef, hpc>>
  BY DEF Schedule, Go, handlerVars, heartbeatVars
<1>2. row = "active" /\ ~Live
  BY <1>1 DEF SerialInv, Errands, Justified, Cleared
<1>3. active = None /\ \A t \in Runners : Stopped(t)
  BY <1>2 DEF Live
<1>4. \A s \in Requests : rpc'[s] \in {"idle", "done"}
  BY <1>1 DEF TypeOK, Resting
<1>5. ~TaskPending
  BY <1>3 DEF TaskPending, TaskInv, Stopped, TypeOK, Runners
<1>6. initTask' = r /\ tpc' = [tpc EXCEPT ![r] = "new"] /\ ~cancelled[r]
  BY <1>1, <1>5 DEF Schedule, ScheduleBackgroundInitialize, TaskInv, Runners
<1>7. \A t \in Runners : ~Stopped(t)' => t = r
  BY <1>3, <1>6 DEF Stopped, TypeOK
<1>8. OneRequest' /\ Errands'
  BY <1>4 DEF OneRequest, Resting, Errands, Stopping
<1>9. OneConnection'
  BY <1>1, <1>3, <1>7 DEF OneConnection
<1>10. Justified'
  BY <1>1, <1>2, <1>4 DEF Justified, Cleared
<1>11. Awaited'
  BY <1>1, <1>4, <1>6, <1>7 DEF Awaited
<1>12. Unsupervised' /\ BootIdle'
  BY <1>1, <1>6, ChannelAssumption DEF SerialInv, Unsupervised, BootIdle, TypeOK, Runners
<1>13. NoOrphanLink'
  <2>1. \A h \in Runners : link[h] = "none"
    BY <1>3, ChannelAssumption DEF SerialInv, NoOrphanLink, Stopped, Runners
  <2> QED
    BY <1>1, <2>1 DEF NoOrphanLink
<1> QED
  BY <1>8, <1>9, <1>10, <1>11, <1>12, <1>13 DEF SerialInv

\* An operation begins when no other is under way.
LEMMA ArriveSerial ==
  ASSUME TypeOK, SerialInv, Serial, NEW r \in Requests, Arrive(r)
  PROVE  SerialInv'
<1>1. \A s \in Requests : Resting(s)
  BY DEF Arrive, Serial
<1>2. PICK o \in Ops : /\ op' = [op EXCEPT ![r] = o]
                       /\ IF o = "create" THEN row = "none" /\ Go(r, "create")
                                          ELSE row # "none" /\ Go(r, "read")
  BY DEF Arrive
<1>3. PICK p \in {"create", "read"} : /\ rpc' = [rpc EXCEPT ![r] = p]
                                      /\ p = "read" => o # "create"
  BY <1>2 DEF Go
<1>4. op'[r] = o /\ o # "enable"
  BY <1>2 DEF Serial, TypeOK
<1>5. /\ rpc[r] = "idle"
      /\ UNCHANGED <<row, initTask, tpc, cancelled, active, link, held, lostRef, hpc>>
  BY DEF Arrive, tables, taskVars, handlerVars, heartbeatVars
<1>6. ~(Live /\ row' # "active") /\ p \notin Cleared
  BY <1>1, <1>5 DEF SerialInv, Justified, Stopping, Resting, Cleared
<1>7. p \in RequestPCs
  BY DEF RequestPCs
<1> QED
  BY <1>1, <1>3, <1>4, <1>5, <1>6, <1>7, MovesOnSerial

\* The steps of an operation that only read or write the row.
LEMMA RowSerial ==
  ASSUME TypeOK, SerialInv, NEW r \in Requests, \A s \in Requests \ {r} : Resting(s),
         \/ CommitCreate(r) \/ LoadRow(r) \/ CheckActive(r) \/ CommitFlag(r)
         \/ UnsetFlag(r) \/ CommitUnset(r) \/ EraseRow(r)
  PROVE  SerialInv'
<1>1. /\ rpc[r] \notin {"await", "dropping"} /\ rpc[r] \notin Stopping
      /\ UNCHANGED <<initTask, tpc, cancelled, active, link, op, held, lostRef, hpc>>
  BY DEF CommitCreate, LoadRow, CheckActive, CommitFlag, UnsetFlag, CommitUnset,
         EraseRow, tables, taskVars, handlerVars, heartbeatVars, Stopping
<1>2. Live => row = "active"
  BY <1>1, LiveMeansActive
<1> USE DEF Go
<1>3. CASE CommitCreate(r)
  <2>1. CASE row = "none"
    <3>1. row' = "active" /\ rpc' = [rpc EXCEPT ![r] = "schedule"] /\ ~Live
      BY <1>2, <1>3, <2>1 DEF CommitCreate
    <3> QED
      BY <1>1, <3>1, MovesOnSerial DEF RequestPCs
  <2>2. CASE row # "none"
    <3>1. row' = row /\ rpc' = [rpc EXCEPT ![r] = "done"]
      BY <1>3, <2>2 DEF CommitCreate
    <3> QED
      BY <1>1, <1>2, <3>1, MovesOnSerial DEF RequestPCs, Cleared
  <2> QED
    BY <2>1, <2>2
<1>4. CASE LoadRow(r)
  <2>1. /\ rpc[r] = "read" /\ rsaw' = [rsaw EXCEPT ![r] = row] /\ row' = row
        /\ op[r] \notin {"create", "enable"} /\ op[r] \in Operations
    BY <1>4 DEF LoadRow, SerialInv, Errands, TypeOK
  <2>2. rsaw'[r] = row
    BY <2>1 DEF TypeOK
  <2>3. CASE row \in Absent
    <3>1. rpc' = [rpc EXCEPT ![r] = "done"]
      BY <1>4, <2>3 DEF LoadRow
    <3> QED
      BY <1>1, <1>2, <2>1, <3>1, MovesOnSerial DEF RequestPCs, Cleared
  <2>4. CASE row \notin Absent /\ op[r] \in {"disable", "delete"}
    <3>1. rpc' = [rpc EXCEPT ![r] = "stop"]
      BY <1>4, <2>4 DEF LoadRow
    <3> QED
      BY <1>1, <2>1, <2>4, <3>1, MovesOnSerial DEF RequestPCs, Cleared
  <2>5. CASE row \notin Absent /\ op[r] \notin {"disable", "delete"}
    <3>1. rpc' = [rpc EXCEPT ![r] = "commit"]
      BY <1>4, <2>1, <2>5 DEF LoadRow
    <3>2. op[r] \in {"patchOn", "patchOff", "patchConfig"}
      BY <2>1, <2>5 DEF Operations
    <3> QED
      BY <1>1, <1>2, <2>1, <2>2, <2>5, <3>1, <3>2, MovesOnSerial DEF RequestPCs, Cleared
  <2> QED
    BY <2>3, <2>4, <2>5
<1>5. CASE CheckActive(r)
  BY <1>5 DEF CheckActive, SerialInv, Errands
<1>6. CASE CommitFlag(r)
  <2>1. /\ rpc[r] = "commit" /\ row = rsaw[r] /\ row \notin Absent /\ row' = Written(r)
        /\ op[r] \in {"patchOn", "patchOff", "patchConfig"} /\ rsaw' = rsaw
        /\ row \in {"inactive", "active"}
    BY <1>6 DEF CommitFlag, SerialInv, Errands, TypeOK, RowStates, Absent
  <2>2. CASE op[r] = "patchOff"
    <3>1. rpc' = [rpc EXCEPT ![r] = "stop"]
      BY <1>6, <2>2 DEF CommitFlag
    <3> QED
      BY <1>1, <2>2, <3>1, MovesOnSerial DEF RequestPCs, Cleared
  <2>3. CASE op[r] = "patchOn" /\ row = "inactive"
    <3>1. rpc' = [rpc EXCEPT ![r] = "schedule"] /\ row' = "active" /\ ~Live
      BY <1>2, <1>6, <2>1, <2>3 DEF CommitFlag, Written, Wanted
    <3> QED
      BY <1>1, <3>1, MovesOnSerial DEF RequestPCs
  <2>4. CASE op[r] = "patchOn" /\ row = "active"
    <3>1. rpc' = [rpc EXCEPT ![r] = "done"] /\ row' = row
      BY <1>6, <2>1, <2>4 DEF CommitFlag, Written, Wanted
    <3> QED
      BY <1>1, <1>2, <3>1, MovesOnSerial DEF RequestPCs, Cleared
  <2>5. CASE op[r] = "patchConfig" /\ row = "active"
    <3>1. rpc' = [rpc EXCEPT ![r] = "stop"] /\ row' = row
      BY <1>6, <2>1, <2>5 DEF CommitFlag, Written, Wanted
    <3> QED
      BY <1>1, <2>5, <3>1, MovesOnSerial DEF RequestPCs, Cleared
  <2>6. CASE op[r] = "patchConfig" /\ row = "inactive"
    <3>1. rpc' = [rpc EXCEPT ![r] = "done"] /\ row' = row
      BY <1>6, <2>1, <2>6 DEF CommitFlag, Written, Wanted
    <3> QED
      BY <1>1, <1>2, <3>1, MovesOnSerial DEF RequestPCs, Cleared
  <2> QED
    BY <2>1, <2>2, <2>3, <2>4, <2>5, <2>6
<1>7. CASE UnsetFlag(r) \/ CommitUnset(r) \/ EraseRow(r)
  <2>1. rpc[r] \in Cleared
    BY <1>7 DEF UnsetFlag, CommitUnset, EraseRow, Cleared
  <2>2. ~Live
    BY <2>1 DEF SerialInv, Justified
  <2>3. PICK p \in {"done", "unsetCommit"} : rpc' = [rpc EXCEPT ![r] = p]
    BY <1>7 DEF UnsetFlag, CommitUnset, EraseRow
  <2> QED
    BY <1>1, <2>2, <2>3, MovesOnSerial DEF RequestPCs
<1> QED
  BY <1>3, <1>4, <1>5, <1>6, <1>7

\* A step of a request keeps SerialInv.
LEMMA RequestSerial ==
  ASSUME TypeOK, TaskInv, SerialInv, NEW r \in Requests, RequestStep(r)
  PROVE  SerialInv'
<1>1. ~Resting(r)
  BY DEF RequestStep, CommitCreate, LoadRow, CheckActive, CommitFlag, StopWithoutTask,
         CancelPending, TaskAwaited, Dropped, UnsetFlag, CommitUnset, EraseRow, Schedule,
         Resting
<1>2. \A s \in Requests \ {r} : Resting(s)
  BY <1>1 DEF SerialInv, OneRequest
<1>3. CASE StopWithoutTask(r)
  <2>1. rpc[r] = "stop" /\ ~TaskPending
    BY <1>3 DEF StopWithoutTask
  <2>2. \A s \in Requests : rpc[s] # "await"
    BY <1>2, <2>1 DEF Resting
  <2>3. \A t \in Runners : Stopped(t)
    <3>1. SUFFICES ASSUME NEW t \in Runners, ~Stopped(t) PROVE FALSE
      OBVIOUS
    <3>2. ~cancelled[t]
      BY <2>2, <3>1 DEF SerialInv, Awaited
    <3>3. t \in Requests
      BY <3>1 DEF SerialInv, BootIdle, Stopped, Runners
    <3>4. initTask = t /\ tpc[t] # "done"
      BY <3>1, <3>2, <3>3 DEF TaskInv, RunningTaskTracked, Stopped
    <3> QED
      BY <2>1, <3>3, <3>4, ChannelAssumption DEF TaskPending, Runners
  <2> QED
    BY <1>2, <1>3, <2>1, <2>3, StopActiveSerial DEF StopWithoutTask, taskVars, heartbeatVars
<1>4. CASE TaskAwaited(r)
  <2>1. rpc[r] = "await" /\ tpc[held[r]] = "done"
    BY <1>4 DEF TaskAwaited
  <2>2. \A t \in Runners : Stopped(t)
    BY <2>1 DEF SerialInv, Awaited, Stopped
  <2> QED
    BY <1>2, <1>4, <2>1, <2>2, StopActiveSerial DEF TaskAwaited, taskVars, heartbeatVars
<1> QED
  BY <1>2, <1>3, <1>4, RowSerial, DroppedSerial, CancelPendingSerial, ScheduleSerial
     DEF RequestStep

\* Queued callbacks, lost links and status reads start and stop nothing.
LEMMA OtherSerial ==
  ASSUME TypeOK, SerialInv, Serial,
         \/ \E t \in Runners : ForgetInitializationTask(t) \/ LoseLink(t)
         \/ HeartbeatStep \/ ReadStatus \/ Rest \/ UNCHANGED vars
  PROVE  SerialInv'
<1>1. ~HeartbeatStep
  BY DEF HeartbeatStep, ProbeUnhealthy, Reopen, HeartbeatConnected, HeartbeatFails,
         SerialInv, Unsupervised, Serial
<1>2. /\ UNCHANGED <<row, tpc, cancelled, active, rpc, op, rsaw, held, lostRef, hpc>>
      /\ initTask' = initTask \/ initTask' = None
  BY <1>1 DEF Rest, vars, ForgetInitializationTask, LoseLink, ReadStatus, tables,
              taskVars, handlerVars, requestVars, heartbeatVars
<1>3. OneRequest' /\ Errands' /\ Unsupervised' /\ BootIdle'
  BY <1>2 DEF SerialInv, OneRequest, Resting, Errands, Unsupervised, BootIdle
<1>5. OneConnection' /\ Justified' /\ Awaited'
  BY <1>2 DEF SerialInv, OneConnection, Justified, Live, Stopped, Awaited
<1>4. NoOrphanLink'
  <2>1. CASE UNCHANGED link
    BY <1>2, <2>1 DEF SerialInv, NoOrphanLink
  <2>2. ASSUME NEW h \in Runners, LoseLink(h) PROVE NoOrphanLink'
    BY <1>2, <2>2 DEF LoseLink, SerialInv, NoOrphanLink, TypeOK
  <2> QED
    BY <1>1, <2>1, <2>2 DEF Rest, vars, ForgetInitializationTask, ReadStatus, handlerVars
<1> QED
  BY <1>3, <1>4, <1>5 DEF SerialInv

\* With one request at a time SerialInv holds in every state.
LEMMA ChannelSerialInv == ASSUME Serial PROVE Spec => []SerialInv
<1>1. Init => SerialInv
  <2> SUFFICES ASSUME Init PROVE SerialInv
    OBVIOUS
  <2>1. active = None /\ \A t \in Runners : tpc[t] = "unused" /\ link[t] = "none"
    BY DEF Init, Serial
  <2>2. \A r \in Requests : rpc[r] = "idle" /\ ~lostRef[r]
    BY DEF Init
  <2>3. \A t \in Runners : Stopped(t)
    BY <2>1 DEF Stopped
  <2>4. OneRequest /\ Errands /\ OneConnection
    BY <2>2, <2>3 DEF OneRequest, Resting, Errands, Stopping, OneConnection
  <2>5. Justified /\ Awaited
    BY <2>1, <2>2, <2>3 DEF Justified, Live, Cleared, Awaited
  <2>6. Unsupervised /\ NoOrphanLink
    BY <2>1, <2>2 DEF Init, Unsupervised, NoOrphanLink
  <2>7. BootIdle
    BY <2>1 DEF BootIdle, Runners
  <2> QED
    BY <2>4, <2>5, <2>6, <2>7 DEF SerialInv
<1>2. TypeOK /\ TaskInv /\ SerialInv /\ [Next]_vars => SerialInv'
  BY RunnerSerial, RequestSerial, ArriveSerial, OtherSerial DEF Next
<1> QED
  BY <1>1, <1>2, ChannelTypeCorrect, ChannelTaskInv, PTL DEF Spec

\* With requests one after the other every link in use is the active
\* connection's or that of an attempt still in connect(), whatever the task, the
\* network and the callbacks do between a request's steps.
THEOREM ChannelNoOrphanLink == ASSUME Serial PROVE Spec => []NoOrphanLink
<1>1. SerialInv => NoOrphanLink
  BY DEF SerialInv
<1> QED
  BY <1>1, ChannelSerialInv, PTL

\* ... and an answered disable, delete or patch leaves no link and no task that
\* could bring one up.
THEOREM ChannelDisabledMeansDown == ASSUME Serial PROVE Spec => []DisabledMeansDown
<1>1. SerialInv => DisabledMeansDown
  <2>1. SUFFICES ASSUME SerialInv, Quiet, row # "active", NEW t \in Runners
                 PROVE  link[t] = "none" /\ Stopped(t)
    BY DEF DisabledMeansDown
  <2>2. \A r \in Requests : rpc[r] \notin Stopping
    BY <2>1 DEF Quiet, Resting, Stopping
  <2>3. ~Live
    BY <2>1, <2>2 DEF SerialInv, Justified
  <2>4. active = None /\ Stopped(t)
    BY <2>3 DEF Live
  <2> QED
    BY <2>1, <2>4, ChannelAssumption DEF SerialInv, NoOrphanLink, Stopped, Runners
<1> QED
  BY <1>1, ChannelSerialInv, PTL
===============================================================================
