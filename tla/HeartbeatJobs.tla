---------------------------- MODULE HeartbeatJobs ----------------------------
(***************************************************************************)
(* The heartbeat: the loop of main.py that registers jobs and runs those   *)
(* that are due, the runtime's tables, the executor's count of failures,   *)
(* and state.json, the file each user's snapshots are kept in.             *)
(*                                                                         *)
(* A job is checked in four suspensions: it waits for a place, announces   *)
(* its start, does its check (a probe with a reconnect, or an agent turn)  *)
(* and reports the outcome.  Announcing and reporting hand an event to the *)
(* hook runtime; what that raises nobody catches.  What the channel job    *)
(* does to its connection step by step is in ChannelManager.               *)
(*                                                                         *)
(* A point of time is kept as the time still to go, which every Pass makes *)
(* shorter, in memory and on disk alike; so time needs no bound.           *)
(***************************************************************************)
EXTENDS Naturals, Sequences, FiniteSets

CONSTANTS
  AgentJobs,      \* one per user of the workspace
  ChannelJobs,    \* one per connection
  Owner,          \* job -> user
  Every,          \* every_seconds and check_interval_seconds
  Backoff,        \* reconnect_backoff_seconds
  MaxDelay,       \* the longest of these
  DegradedAt,     \* degraded_threshold
  FailureCap,     \* bound: where the count of failures stops counting
  MaxConcurrent,  \* max_concurrent_jobs
  Faults,         \* may a disk or a hook raise?
  TornSave,       \* may the process die inside save_state?
  MaxCrashes      \* bound on the ends of the process

Jobs  == AgentJobs \cup ChannelJobs
Users == {Owner[j] : j \in Jobs}

ASSUME HeartbeatAssumption ==
  /\ IsFiniteSet(Jobs) /\ AgentJobs \cap ChannelJobs = {}
  /\ DOMAIN Owner = Jobs
  /\ MaxDelay \in Nat \ {0} /\ Every \in 1..MaxDelay
  /\ Backoff \in Seq(1..MaxDelay) /\ Backoff # <<>>
  /\ DegradedAt \in Nat \ {0} /\ FailureCap \in Nat
  /\ DegradedAt <= FailureCap /\ Len(Backoff) <= FailureCap
  /\ MaxConcurrent \in Nat \ {0}
  /\ Faults \in BOOLEAN /\ TornSave \in BOOLEAN
  /\ MaxCrashes \in Nat

VARIABLES
  conn,        \* per connection, what a probe would find
  loop,        \* where _heartbeat_loop is
  jpc,         \* per job, where its _run_job is
  registered,  \* HeartbeatRuntime._jobs
  loaded,      \* HeartbeatRuntime._loaded_users
  state,       \* HeartbeatRuntime._state
  failures,    \* ChannelHeartbeatExecutor._failures_by_job
  elapsed,     \* the time since the now of the present run_once
  disk, torn,  \* every user's state.json; the users whose file is cut off
  crashes,
  owed         \* history: the time to the next check that was last promised

processVars == <<conn, loop, jpc, registered, loaded, state, failures, elapsed>>
diskVars    == <<disk, torn>>
vars == <<processVars, diskVars, crashes, owed>>

NoSnapshot == [status |-> "none", failures |-> 0, wait |-> 0]
Snapshots  == [status : {"none", "healthy", "failed", "degraded"},
               failures : 0..FailureCap, wait : 0..MaxDelay]

Running == {j \in Jobs : jpc[j] \in {"announcing", "checking", "reporting"}}

Init ==
  /\ conn = [c \in ChannelJobs |-> "stopped"]
  /\ loop = "listing"
  /\ jpc = [j \in Jobs |-> "idle"]
  /\ registered = {} /\ loaded = {}
  /\ state = [j \in Jobs |-> NoSnapshot]
  /\ failures = [c \in ChannelJobs |-> 0]
  /\ elapsed = 0
  /\ disk = [j \in Jobs |-> NoSnapshot] /\ torn = {}
  /\ crashes = 0
  /\ owed = [j \in Jobs |-> 0]

-----------------------------------------------------------------------------
(* The loop.                                                               *)

\* Mutant of Listed: only a connection whose link is up gets its job.
ListedConnected == AgentJobs \cup {c \in ChannelJobs : conn[c] = "up"}

\* What one round registers: every user's agent job, and the jobs of the
\* connections that are active now.  A job is never taken out again.
Listed == AgentJobs \cup {c \in ChannelJobs : conn[c] # "stopped"}

NewUsers == {Owner[j] : j \in Listed} \ loaded

\* Mutant of Restored: the state of a user is not read after a restart.
RestoredNothing(j) == state[j]

\* The snapshot of j once its owner's file has been read (setdefault).
Restored(j) ==
  IF Owner[j] \in NewUsers /\ state[j] = NoSnapshot THEN disk[j] ELSE state[j]

\* The database has answered, the jobs are registered and run_once makes a task
\* for each job that is due, all without suspending.  All jobs have the same
\* active hours, so open says whether now lies in them.
Tick(open) ==
  /\ loop = "listing" /\ NewUsers \cap torn = {}
  /\ registered' = registered \cup Listed
  /\ loaded' = loaded \cup NewUsers
  /\ state' = [j \in Jobs |-> Restored(j)]
  /\ jpc' = [j \in Jobs |->
               IF open /\ j \in registered' \ Running /\ state'[j].wait = 0
               THEN "waiting" ELSE jpc[j]]
  /\ elapsed' = 0
  /\ loop' = "gathering"
  /\ UNCHANGED <<conn, failures, diskVars, crashes, owed>>

\* register_job reads a file that was cut off, and json.load raises; or the
\* database or the file of the jobs does.  Nobody catches it: the loop ends.
ListingRaises ==
  /\ loop = "listing" /\ (Faults \/ NewUsers \cap torn # {})
  /\ loop' = "dead"
  /\ UNCHANGED <<conn, jpc, registered, loaded, state, failures, elapsed,
                 diskVars, crashes, owed>>

\* gather returns when every job of this round is over.
Gathered ==
  /\ loop = "gathering" /\ \A j \in Jobs : jpc[j] = "idle"
  /\ loop' = "sleeping"
  /\ UNCHANGED <<conn, jpc, registered, loaded, state, failures, elapsed,
                 diskVars, crashes, owed>>

Wake ==
  /\ loop = "sleeping"
  /\ loop' = "listing"
  /\ UNCHANGED <<conn, jpc, registered, loaded, state, failures, elapsed,
                 diskVars, crashes, owed>>

-----------------------------------------------------------------------------
(* A job.                                                                  *)

\* Mutant of Start: a job starts without a place of the semaphore.
StartAtOnce(j) ==
  /\ jpc[j] = "waiting"
  /\ jpc' = [jpc EXCEPT ![j] = "announcing"]
  /\ UNCHANGED <<conn, loop, registered, loaded, state, failures, elapsed,
                 diskVars, crashes, owed>>

\* A place of the round's semaphore; the started event is handed over.
Start(j) ==
  /\ jpc[j] = "waiting" /\ Cardinality(Running) < MaxConcurrent
  /\ jpc' = [jpc EXCEPT ![j] = "announcing"]
  /\ UNCHANGED <<conn, loop, registered, loaded, state, failures, elapsed,
                 diskVars, crashes, owed>>

Announced(j) ==
  /\ jpc[j] = "announcing"
  /\ jpc' = [jpc EXCEPT ![j] = "checking"]
  /\ UNCHANGED <<conn, loop, registered, loaded, state, failures, elapsed,
                 diskVars, crashes, owed>>

OneMore(n) == IF n < FailureCap THEN n + 1 ELSE n

\* _next_backoff_delay: the list's last entry from then on.
BackoffDelay(n) == Backoff[IF n <= Len(Backoff) THEN n ELSE Len(Backoff)]

\* The executor's result: status, failures in a row and the delay it asks for.
\* An agent turn has no count and asks for none, so every_seconds applies.
Result(j, healthy) ==
  IF healthy THEN [status |-> "healthy", failures |-> 0, delay |-> Every]
  ELSE IF j \in AgentJobs
  THEN [status |-> "failed", failures |-> 0, delay |-> Every]
  ELSE LET n == OneMore(failures[j])
       IN [status |-> IF n >= DegradedAt THEN "degraded" ELSE "failed",
           failures |-> n, delay |-> BackoffDelay(n)]

\* _failures_by_job after the check.
Counted(j, healthy) ==
  [failures EXCEPT ![j] = IF healthy THEN 0 ELSE OneMore(@)]

\* next_run_at lies delay after the time this round began.
TimeLeft(delay) == IF elapsed < delay THEN delay - elapsed ELSE 0

\* The runtime's table with the snapshot of this result.
Noted(j, r) ==
  [state EXCEPT ![j] = [status |-> r.status, failures |-> r.failures,
                        wait |-> TimeLeft(r.delay)]]

\* save_state writes the snapshots of the owner's registered jobs, and no others.
FileOf(u, snapshots) ==
  [k \in Jobs |-> IF Owner[k] # u THEN disk[k]
                  ELSE IF k \in registered THEN snapshots[k] ELSE NoSnapshot]

\* What a check can find, and what it leaves of the connection: a lost link is
\* reconnected or not, one that was stopped has no handler to reconnect.
Findings(j) ==
  IF j \in AgentJobs THEN BOOLEAN
  ELSE CASE conn[j] = "up"      -> {TRUE}
         [] conn[j] = "lost"    -> BOOLEAN
         [] conn[j] = "stopped" -> {FALSE}

ConnAfter(j, healthy) ==
  IF j \in ChannelJobs /\ healthy THEN [conn EXCEPT ![j] = "up"] ELSE conn

\* The check is over: the executor counts and the runtime notes the result.
Judged(j, healthy) ==
  /\ jpc[j] = "checking" /\ healthy \in Findings(j)
  /\ conn' = ConnAfter(j, healthy)
  /\ failures' = IF j \in ChannelJobs THEN Counted(j, healthy) ELSE failures
  /\ state' = Noted(j, Result(j, healthy))

\* The check ends and its snapshot is saved before the outcome is reported.
Check(j, healthy) ==
  /\ Judged(j, healthy)
  /\ disk' = FileOf(Owner[j], state') /\ torn' = torn \ {Owner[j]}
  /\ owed' = [owed EXCEPT ![j] = LET d == Result(j, healthy).delay
                                 IN IF elapsed < d THEN d - elapsed ELSE 0]
  /\ jpc' = [jpc EXCEPT ![j] = "reporting"]
  /\ UNCHANGED <<loop, registered, loaded, elapsed, crashes>>

\* Mutant of JobOver: the job stays in _running_jobs.
JobOverKept(j) ==
  /\ jpc[j] = "reporting"
  /\ jpc' = jpc
  /\ UNCHANGED <<conn, loop, registered, loaded, state, failures, elapsed,
                 diskVars, crashes, owed>>

JobOver(j) ==
  /\ jpc[j] = "reporting"
  /\ jpc' = [jpc EXCEPT ![j] = "idle"]
  /\ UNCHANGED <<conn, loop, registered, loaded, state, failures, elapsed,
                 diskVars, crashes, owed>>

\* gather hands the first exception on at once, and the loop does not catch it;
\* the round's other jobs go on.
LoopEnds == loop' = IF loop = "gathering" THEN "dead" ELSE loop

\* A handler of the event raises, or the event file cannot be appended to.
EventRaises(j) ==
  /\ Faults /\ jpc[j] \in {"announcing", "reporting"}
  /\ jpc' = [jpc EXCEPT ![j] = "idle"]
  /\ LoopEnds
  /\ UNCHANGED <<conn, registered, loaded, state, failures, elapsed, diskVars,
                 crashes, owed>>

\* The user's file as a write leaves it that stops half-way.
CutOff(u) ==
  /\ torn' = torn \cup {u}
  /\ disk' = [k \in Jobs |-> IF Owner[k] = u THEN NoSnapshot ELSE disk[k]]

\* save_state raises, before or after the file was truncated.
SaveRaises(j, healthy) ==
  /\ Faults /\ Judged(j, healthy)
  /\ CutOff(Owner[j]) \/ UNCHANGED diskVars
  /\ jpc' = [jpc EXCEPT ![j] = "idle"]
  /\ LoopEnds
  /\ UNCHANGED <<registered, loaded, elapsed, crashes, owed>>

-----------------------------------------------------------------------------
(* The environment: connections, time, the end of the process.             *)

\* A connection is initialised, stopped, or loses its link.
Activate(c) ==
  /\ conn[c] = "stopped"
  /\ conn' = [conn EXCEPT ![c] = "up"]
  /\ UNCHANGED <<loop, jpc, registered, loaded, state, failures, elapsed,
                 diskVars, crashes, owed>>

Stop(c) ==
  /\ conn[c] # "stopped"
  /\ conn' = [conn EXCEPT ![c] = "stopped"]
  /\ UNCHANGED <<loop, jpc, registered, loaded, state, failures, elapsed,
                 diskVars, crashes, owed>>

LoseLink(c) ==
  /\ conn[c] = "up"
  /\ conn' = [conn EXCEPT ![c] = "lost"]
  /\ UNCHANGED <<loop, jpc, registered, loaded, state, failures, elapsed,
                 diskVars, crashes, owed>>

Less(n) == IF n = 0 THEN 0 ELSE n - 1

Pass ==
  /\ state' = [j \in Jobs |-> [state[j] EXCEPT !.wait = Less(@)]]
  /\ disk' = [j \in Jobs |-> [disk[j] EXCEPT !.wait = Less(@)]]
  /\ owed' = [j \in Jobs |-> Less(owed[j])]
  /\ elapsed' = IF elapsed < MaxDelay THEN elapsed + 1 ELSE elapsed
  /\ UNCHANGED <<conn, loop, jpc, registered, loaded, failures, torn, crashes>>

\* The process ends and starts again: memory is empty, nothing is connected.
Restart ==
  /\ crashes < MaxCrashes /\ crashes' = crashes + 1
  /\ conn' = [c \in ChannelJobs |-> "stopped"]
  /\ loop' = "listing"
  /\ jpc' = [j \in Jobs |-> "idle"]
  /\ registered' = {} /\ loaded' = {}
  /\ state' = [j \in Jobs |-> NoSnapshot]
  /\ failures' = [c \in ChannelJobs |-> 0]
  /\ elapsed' = 0
  /\ UNCHANGED owed

Crash == Restart /\ UNCHANGED diskVars

\* The process dies between the truncation of a user's file and its contents.
CrashInSave(j) ==
  /\ TornSave /\ jpc[j] = "checking"
  /\ Restart /\ CutOff(Owner[j])

-----------------------------------------------------------------------------
LoopStep == (\E open \in BOOLEAN : Tick(open)) \/ ListingRaises \/ Gathered \/ Wake

JobStep(j) ==
  \/ Start(j) \/ Announced(j) \/ JobOver(j) \/ EventRaises(j)
  \/ \E healthy \in BOOLEAN : Check(j, healthy) \/ SaveRaises(j, healthy)

Next ==
  \/ LoopStep \/ Pass \/ Crash
  \/ \E j \in Jobs : JobStep(j) \/ CrashInSave(j)
  \/ \E c \in ChannelJobs : Activate(c) \/ Stop(c) \/ LoseLink(c)

Spec == Init /\ [][Next]_vars

\* The event loop resumes what is ready, time goes on, and the active hours come
\* round again.  A check is taken to end: a connection's probe and reconnect do,
\* of an agent's turn it takes the model and the tools to answer or raise, for no
\* time limit of the code ends one (timeout_seconds is read nowhere).
Fairness ==
  /\ WF_vars(LoopStep) /\ SF_vars(Tick(TRUE)) /\ WF_vars(Pass)
  /\ \A j \in Jobs :
       WF_vars(Start(j) \/ Announced(j) \/ JobOver(j)
               \/ \E healthy \in BOOLEAN : Check(j, healthy))

FairSpec == Spec /\ Fairness

-----------------------------------------------------------------------------
\* Types; and no round runs more jobs than the semaphore has places.
TypeOK ==
  /\ conn \in [ChannelJobs -> {"stopped", "lost", "up"}]
  /\ loop \in {"listing", "gathering", "sleeping", "dead"}
  /\ jpc \in [Jobs -> {"idle", "waiting", "announcing", "checking", "reporting"}]
  /\ registered \subseteq Jobs /\ loaded \subseteq Users /\ torn \subseteq Users
  /\ state \in [Jobs -> Snapshots] /\ disk \in [Jobs -> Snapshots]
  /\ failures \in [ChannelJobs -> 0..FailureCap]
  /\ owed \in [Jobs -> 0..MaxDelay] /\ elapsed \in 0..MaxDelay
  /\ crashes \in 0..MaxCrashes
  /\ Cardinality(Running) <= MaxConcurrent

\* A job is not run before the time its last saved check asked for, neither
\* because a round took long nor because the process was restarted once: the
\* backoff of a failing connection outlives the process (next_run_at in
\* state.json).  It need not outlive a second restart, for a save in between
\* keeps only the jobs registered by then; an agent's outlives any number.
NotBeforeItsTime ==
  \A j \in Jobs : jpc[j] = "waiting" => owed[j] = 0

\* While no exception has ended the loop, every agent is run again and again,
\* however long other jobs take and whatever fails in them (run_once, the loop).
ChecksGoOn ==
  <>[](loop # "dead") => \A j \in AgentJobs : []<>(jpc[j] = "checking")

\* While no exception has ended the loop, a connection that stays as it is comes
\* to be reported as it is: lost for good is degraded, up for good is healthy.
\* Every start of the process in between is allowed for (probe, backoff, counts).
TruthInTheEnd ==
  <>[](loop # "dead") =>
    \A c \in ChannelJobs :
      /\ <>[](conn[c] = "lost") => <>[](state[c].status = "degraded")
      /\ <>[](conn[c] = "up") => <>[](state[c].status = "healthy")
=============================================================================
