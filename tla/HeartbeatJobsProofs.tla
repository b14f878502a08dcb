------------------------- MODULE HeartbeatJobsProofs -------------------------
(***************************************************************************)
(* What holds of HeartbeatJobs for every set of jobs and users: the types, *)
(* with no more jobs at work than the semaphore has places, and that no    *)
(* job is started before its time.  A promise lives in memory once its     *)
(* user's file has been read and on disk before; an agent's outlives every *)
(* restart, a connection's the first: after one, a save may write the file *)
(* without a connection that is not registered again.                      *)
(***************************************************************************)
EXTENDS HeartbeatJobs, TLAPS, FiniteSetTheorems


-----------------------------------------------------------------------------
(* Types *)

\* What a check finds out has the types of a snapshot, and a delay.
LEMMA ResultType ==
  ASSUME TypeOK, NEW j \in Jobs, NEW healthy \in BOOLEAN
  PROVE  /\ Result(j, healthy).status \in {"healthy", "failed", "degraded"}
         /\ Result(j, healthy).failures \in 0..FailureCap
         /\ Result(j, healthy).delay \in 1..MaxDelay
<1> USE HeartbeatAssumption
<1>1. CASE healthy \/ j \in AgentJobs
  BY <1>1 DEF Result
<1>2. CASE ~healthy /\ j \notin AgentJobs
  <2> DEFINE n == OneMore(failures[j])
  <2>1. failures[j] \in 0..FailureCap
    BY <1>2 DEF TypeOK, Jobs
  <2>2. n \in 1..FailureCap
    BY <2>1 DEF OneMore
  <2>3. Len(Backoff) \in Nat \ {0}
    OBVIOUS
  <2>4. BackoffDelay(n) \in 1..MaxDelay
    BY <2>2, <2>3 DEF BackoffDelay
  <2>5. Result(j, healthy) = [status |-> IF n >= DegradedAt THEN "degraded" ELSE "failed",
                              failures |-> n, delay |-> BackoffDelay(n)]
    BY <1>2 DEF Result
  <2>. QED BY <2>2, <2>4, <2>5
<1>. QED BY <1>1, <1>2

\* A check changes its own job's snapshot; the wait it notes is what is left of
\* the delay.
LEMMA JudgedTypes ==
  ASSUME TypeOK, NEW j \in Jobs, NEW healthy \in BOOLEAN, Judged(j, healthy)
  PROVE  /\ conn' \in [ChannelJobs -> {"stopped", "lost", "up"}]
         /\ failures' \in [ChannelJobs -> 0..FailureCap]
         /\ state' \in [Jobs -> Snapshots]
         /\ state'[j].wait = TimeLeft(Result(j, healthy).delay)
         /\ \A k \in Jobs \ {j} : state'[k] = state[k]
<1> DEFINE r == Result(j, healthy)
<1>1. /\ r.status \in {"healthy", "failed", "degraded"} /\ r.failures \in 0..FailureCap
      /\ r.delay \in 1..MaxDelay
  BY ResultType
<1>2. TimeLeft(r.delay) \in 0..MaxDelay
  BY <1>1, HeartbeatAssumption DEF TimeLeft, TypeOK
<1>3. state' = [state EXCEPT ![j] = [status |-> r.status, failures |-> r.failures,
                                    wait |-> TimeLeft(r.delay)]]
  BY DEF Judged, Noted
<1>4. [status |-> r.status, failures |-> r.failures, wait |-> TimeLeft(r.delay)] \in Snapshots
  BY <1>1, <1>2 DEF Snapshots
<1>5. conn' \in [ChannelJobs -> {"stopped", "lost", "up"}]
  BY DEF Judged, ConnAfter, TypeOK
<1>6. failures' \in [ChannelJobs -> 0..FailureCap]
  <2>1. CASE j \in ChannelJobs
    BY <2>1, HeartbeatAssumption DEF Judged, Counted, OneMore, TypeOK
  <2>2. CASE j \notin ChannelJobs
    BY <2>2 DEF Judged, TypeOK
  <2>. QED BY <2>1, <2>2
<1> HIDE DEF r
<1>7. state' \in [Jobs -> Snapshots]
  BY <1>3, <1>4 DEF TypeOK
<1>8. state'[j].wait = TimeLeft(r.delay) /\ \A k \in Jobs \ {j} : state'[k] = state[k]
  BY <1>3 DEF TypeOK
<1>. QED BY <1>5, <1>6, <1>7, <1>8 DEF r

\* A smaller set of jobs at work is still within the limit.
LEMMA FewerRunning ==
  ASSUME TypeOK, Running' \subseteq Running
  PROVE  Cardinality(Running') <= MaxConcurrent
<1>1. IsFiniteSet(Running)
  BY HeartbeatAssumption, FS_Subset DEF Running
<1>2. /\ IsFiniteSet(Running') /\ Cardinality(Running') <= Cardinality(Running)
  BY <1>1, FS_Subset
<1>3. Cardinality(Running) \in Nat /\ Cardinality(Running') \in Nat
  BY <1>1, <1>2, FS_CardinalityType
<1>. QED BY <1>2, <1>3, HeartbeatAssumption DEF TypeOK

\* A job that steps to a phase without a place, or keeps its place.
LEMMA StepsOn ==
  ASSUME TypeOK, NEW j \in Jobs,
         NEW p \in {"idle", "waiting", "announcing", "checking", "reporting"},
         p \in {"idle", "waiting"} \/ j \in Running,
         jpc' = [jpc EXCEPT ![j] = p]
  PROVE  /\ jpc' \in [Jobs -> {"idle", "waiting", "announcing", "checking", "reporting"}]
         /\ Cardinality(Running') <= MaxConcurrent
<1>1. jpc' \in [Jobs -> {"idle", "waiting", "announcing", "checking", "reporting"}]
  BY DEF TypeOK
<1>2. Running' \subseteq Running
  BY DEF Running, TypeOK
<1>. QED BY <1>1, <1>2, FewerRunning

\* CutOff leaves snapshots of the users' jobs.
LEMMA CutOffTypes ==
  ASSUME TypeOK, NEW u \in Users, CutOff(u)
  PROVE  torn' \subseteq Users /\ disk' \in [Jobs -> Snapshots]
BY HeartbeatAssumption DEF CutOff, TypeOK, NoSnapshot, Snapshots

\* The first state is well typed.
LEMMA TypeInit == Init => TypeOK
<1> SUFFICES ASSUME Init PROVE TypeOK
  OBVIOUS
<1>1. Running = {}
  BY DEF Init, Running
<1>2. Cardinality(Running) <= MaxConcurrent
  BY <1>1, FS_EmptySet, HeartbeatAssumption
<1>3. NoSnapshot \in Snapshots
  BY HeartbeatAssumption DEF NoSnapshot, Snapshots
<1>. QED BY <1>2, <1>3, HeartbeatAssumption DEF Init, TypeOK

\* The loop's own steps keep the types.
LEMMA LoopTypes ==
  ASSUME TypeOK, LoopStep
  PROVE  TypeOK'
<1>1. CASE ListingRaises \/ Gathered \/ Wake
  <2>1. UNCHANGED <<conn, jpc, registered, loaded, state, failures, elapsed, diskVars,
                    crashes, owed>>
    BY <1>1 DEF ListingRaises, Gathered, Wake
  <2>2. loop' \in {"listing", "gathering", "sleeping", "dead"}
    BY <1>1 DEF ListingRaises, Gathered, Wake
  <2>. QED BY <2>1, <2>2 DEF TypeOK, Running, diskVars
<1>2. ASSUME NEW open \in BOOLEAN, Tick(open) PROVE TypeOK'
  <2>1. /\ loop' = "gathering" /\ elapsed' = 0
        /\ UNCHANGED <<conn, failures, disk, torn, crashes, owed>>
    BY <1>2 DEF Tick, diskVars
  <2>2. registered' \subseteq Jobs /\ loaded' \subseteq Users
    BY <1>2 DEF Tick, Listed, NewUsers, Jobs, Users, TypeOK
  <2>3. state' \in [Jobs -> Snapshots]
    BY <1>2 DEF Tick, Restored, TypeOK
  <2>4. \A j \in Jobs : jpc'[j] = "waiting" \/ jpc'[j] = jpc[j]
    BY <1>2 DEF Tick
  <2>5. jpc' \in [Jobs -> {"idle", "waiting", "announcing", "checking", "reporting"}]
    BY <1>2 DEF Tick, TypeOK
  <2>6. Running' \subseteq Running
    BY <2>4 DEF Running
  <2>7. Cardinality(Running') <= MaxConcurrent
    BY <2>6, FewerRunning
  <2>. QED BY <2>1, <2>2, <2>3, <2>5, <2>7, HeartbeatAssumption DEF TypeOK
<1>. QED BY <1>1, <1>2 DEF LoopStep

\* The start of a job keeps the types.
LEMMA StartTypes ==
  ASSUME TypeOK, NEW j \in Jobs, Start(j)
  PROVE  TypeOK'
<1>1. /\ jpc[j] = "waiting" /\ Cardinality(Running) < MaxConcurrent
      /\ jpc' = [jpc EXCEPT ![j] = "announcing"]
      /\ UNCHANGED <<conn, loop, registered, loaded, state, failures, elapsed,
                     disk, torn, crashes, owed>>
  BY DEF Start, diskVars
<1>2. Running' = Running \cup {j} /\ j \notin Running
  BY <1>1 DEF Running, TypeOK
<1>3. IsFiniteSet(Running)
  BY HeartbeatAssumption, FS_Subset DEF Running
<1>4. Cardinality(Running') = Cardinality(Running) + 1
  BY <1>2, <1>3, FS_AddElement
<1>5. Cardinality(Running) \in Nat
  BY <1>3, FS_CardinalityType
<1>6. Cardinality(Running') <= MaxConcurrent
  BY <1>1, <1>4, <1>5, HeartbeatAssumption
<1>7. jpc' \in [Jobs -> {"idle", "waiting", "announcing", "checking", "reporting"}]
  BY <1>1 DEF TypeOK
<1>. QED BY <1>1, <1>6, <1>7 DEF TypeOK

\* A check and the save of its result keep the types.
LEMMA CheckTypes ==
  ASSUME TypeOK, NEW j \in Jobs, NEW healthy \in BOOLEAN, Check(j, healthy)
  PROVE  TypeOK'
<1>1. /\ conn' \in [ChannelJobs -> {"stopped", "lost", "up"}]
      /\ failures' \in [ChannelJobs -> 0..FailureCap]
      /\ state' \in [Jobs -> Snapshots]
  BY JudgedTypes DEF Check
<1>2. disk' \in [Jobs -> Snapshots]
  <2>1. NoSnapshot \in Snapshots
    BY HeartbeatAssumption DEF NoSnapshot, Snapshots
  <2>. QED BY <1>1, <2>1 DEF Check, FileOf, TypeOK
<1>3. owed' \in [Jobs -> 0..MaxDelay]
  BY ResultType, HeartbeatAssumption DEF Check, TypeOK
<1>4. j \in Running
  BY DEF Check, Judged, Running
<1>5. /\ jpc' \in [Jobs -> {"idle", "waiting", "announcing", "checking", "reporting"}]
      /\ Cardinality(Running') <= MaxConcurrent
  BY <1>4, StepsOn DEF Check
<1>. QED BY <1>1, <1>2, <1>3, <1>5 DEF Check, TypeOK

\* A save that raises keeps the types.
LEMMA SaveRaisesTypes ==
  ASSUME TypeOK, NEW j \in Jobs, NEW healthy \in BOOLEAN, SaveRaises(j, healthy)
  PROVE  TypeOK'
<1>1. /\ conn' \in [ChannelJobs -> {"stopped", "lost", "up"}]
      /\ failures' \in [ChannelJobs -> 0..FailureCap]
      /\ state' \in [Jobs -> Snapshots]
  BY JudgedTypes DEF SaveRaises
<1>2. torn' \subseteq Users /\ disk' \in [Jobs -> Snapshots]
  <2>1. Owner[j] \in Users
    BY DEF Users
  <2>. QED BY <2>1, CutOffTypes DEF SaveRaises, diskVars, TypeOK
<1>3. /\ jpc' \in [Jobs -> {"idle", "waiting", "announcing", "checking", "reporting"}]
      /\ Cardinality(Running') <= MaxConcurrent
  BY StepsOn DEF SaveRaises
<1>4. loop' \in {"listing", "gathering", "sleeping", "dead"}
  BY DEF SaveRaises, LoopEnds, TypeOK
<1>. QED BY <1>1, <1>2, <1>3, <1>4 DEF SaveRaises, TypeOK

\* The other steps of a job keep the types.
LEMMA PhaseTypes ==
  ASSUME TypeOK, NEW j \in Jobs, Announced(j) \/ JobOver(j) \/ EventRaises(j)
  PROVE  TypeOK'
<1>1. /\ UNCHANGED <<conn, registered, loaded, state, failures, elapsed, disk, torn,
                     crashes, owed>>
  BY DEF Announced, JobOver, EventRaises, diskVars
<1>2. loop' \in {"listing", "gathering", "sleeping", "dead"}
  BY DEF Announced, JobOver, EventRaises, LoopEnds, TypeOK
<1>3. PICK p \in {"checking", "idle"} : jpc' = [jpc EXCEPT ![j] = p]
  BY DEF Announced, JobOver, EventRaises
<1>4. j \in Running
  BY DEF Announced, JobOver, EventRaises, Running
<1>5. /\ jpc' \in [Jobs -> {"idle", "waiting", "announcing", "checking", "reporting"}]
      /\ Cardinality(Running') <= MaxConcurrent
  BY <1>3, <1>4, StepsOn
<1>. QED BY <1>1, <1>2, <1>5 DEF TypeOK

\* The passing of time keeps the types.
LEMMA PassTypes ==
  ASSUME TypeOK, Pass
  PROVE  TypeOK'
<1> USE HeartbeatAssumption
<1>1. \A s \in Snapshots : [s EXCEPT !.wait = Less(@)] \in Snapshots
  <2>1. TAKE s \in Snapshots
  <2>2. s.wait \in 0..MaxDelay /\ s.failures \in 0..FailureCap
    BY DEF Snapshots
  <2>3. Less(s.wait) \in 0..MaxDelay
    BY <2>2 DEF Less
  <2>. QED BY <2>2, <2>3 DEF Snapshots
<1>2. state' \in [Jobs -> Snapshots] /\ disk' \in [Jobs -> Snapshots]
  BY <1>1 DEF Pass, TypeOK
<1>3. owed' \in [Jobs -> 0..MaxDelay] /\ elapsed' \in 0..MaxDelay
  BY DEF Pass, TypeOK, Less
<1>. QED BY <1>2, <1>3 DEF Pass, TypeOK, Running

\* The end of the process keeps the types.
LEMMA RestartTypes ==
  ASSUME TypeOK, Crash \/ \E j \in Jobs : CrashInSave(j)
  PROVE  TypeOK'
<1>1. Restart
  BY DEF Crash, CrashInSave
<1>2. torn' \subseteq Users /\ disk' \in [Jobs -> Snapshots]
  <2>1. CASE Crash
    BY <2>1 DEF Crash, diskVars, TypeOK
  <2>2. ASSUME NEW j \in Jobs, CrashInSave(j)
        PROVE  torn' \subseteq Users /\ disk' \in [Jobs -> Snapshots]
    <3>1. Owner[j] \in Users
      BY DEF Users
    <3>. QED BY <2>2, <3>1, CutOffTypes DEF CrashInSave
  <2>. QED BY <2>1, <2>2
<1>3. Running' \subseteq Running
  BY <1>1 DEF Restart, Running
<1>4. Cardinality(Running') <= MaxConcurrent
  BY <1>3, FewerRunning
<1>5. NoSnapshot \in Snapshots
  BY HeartbeatAssumption DEF NoSnapshot, Snapshots
<1>. QED BY <1>1, <1>2, <1>4, <1>5, HeartbeatAssumption DEF Restart, TypeOK

\* Steps of the connection keep the types.
LEMMA ConnTypes ==
  ASSUME TypeOK, \/ UNCHANGED vars
                 \/ \E c \in ChannelJobs : Activate(c) \/ Stop(c) \/ LoseLink(c)
  PROVE  TypeOK'
<1>1. UNCHANGED <<loop, jpc, registered, loaded, state, failures, elapsed, disk, torn,
                  crashes, owed>>
  BY DEF vars, processVars, diskVars, Activate, Stop, LoseLink
<1>2. conn' \in [ChannelJobs -> {"stopped", "lost", "up"}]
  BY DEF vars, processVars, Activate, Stop, LoseLink, TypeOK
<1>. QED BY <1>1, <1>2 DEF TypeOK, Running

\* Every step keeps the types.
LEMMA TypeNext == TypeOK /\ [Next]_vars => TypeOK'
  BY LoopTypes, StartTypes, CheckTypes, SaveRaisesTypes, PhaseTypes, PassTypes,
     RestartTypes, ConnTypes DEF Next, JobStep

\* Types, whatever fails: no counter runs over, no snapshot is malformed, and
\* no more jobs are at work than the semaphore has places.
THEOREM TypeCorrect == Spec => []TypeOK
  BY TypeInit, TypeNext, PTL DEF Spec

-----------------------------------------------------------------------------
(* Promises *)

\* The phases of a job that has been started.
InProgress == {"waiting", "announcing", "checking"}

\* The restarts a job's promise is known to outlive: an agent's every one, a
\* connection's the first.
Guarded(j) == j \in AgentJobs \/ crashes <= 1

\* What is registered is loaded, and all agents are registered together.
Known ==
  /\ \A j \in Jobs : jpc[j] # "idle" => j \in registered
  /\ \A j \in registered : Owner[j] \in loaded
  /\ loaded # {} => AgentJobs \subseteq registered
  /\ \A j \in Jobs : Owner[j] \notin loaded => state[j] = NoSnapshot
  /\ crashes = 0 => \A j \in Jobs : owed[j] > 0 => j \in registered

\* Memory holds the promises of the users it has read, ...
InMemory == \A j \in Jobs :
  Guarded(j) /\ Owner[j] \in loaded => owed[j] <= state[j].wait

\* ... the disk those of the others, and of all as long as every job that ever
\* promised anything is registered.
OnDisk == \A j \in Jobs :
  /\ Guarded(j) /\ Owner[j] \notin loaded \cup torn => owed[j] <= disk[j].wait
  /\ (j \in AgentJobs \/ crashes = 0) /\ Owner[j] \notin torn => owed[j] <= disk[j].wait

\* A job that has been started owes nothing until it is over.
OnTime == \A j \in Jobs : Guarded(j) /\ jpc[j] \in InProgress => owed[j] = 0

Promises == Known /\ InMemory /\ OnDisk /\ OnTime

TimeInv == TypeOK /\ Promises

\* What InMemory and OnDisk compare are numbers.
LEMMA Numbers ==
  ASSUME TypeOK
  PROVE  /\ \A j \in Jobs : owed[j] \in Nat /\ state[j].wait \in Nat /\ disk[j].wait \in Nat
         /\ crashes \in Nat /\ elapsed \in Nat
  BY HeartbeatAssumption DEF TypeOK, Snapshots

\* The promises hold at first: nothing has been checked.
LEMMA PromisesInit == Init => Promises
<1> SUFFICES ASSUME Init PROVE Promises
  OBVIOUS
<1>1. Known
  BY DEF Init, Known, NoSnapshot
<1>2. InMemory /\ OnDisk
  BY DEF Init, InMemory, OnDisk, NoSnapshot
<1>3. OnTime
  BY DEF Init, OnTime
<1>. QED BY <1>1, <1>2, <1>3 DEF Promises

\* A step that keeps the tables and starts no job keeps the promises.
LEMMA NothingStarted ==
  ASSUME TimeInv,
         \A j \in Jobs : jpc'[j] # "idle" => jpc[j] # "idle",
         \A j \in Jobs : jpc'[j] \in InProgress => jpc[j] \in InProgress,
         UNCHANGED <<registered, loaded, state, disk, torn, crashes, owed>>
  PROVE  Promises'
<1>1. Known'
  BY DEF TimeInv, Promises, Known
<1>2. InMemory' /\ OnDisk'
  BY DEF TimeInv, Promises, InMemory, OnDisk, Guarded
<1>3. OnTime'
  BY DEF TimeInv, Promises, OnTime, Guarded
<1>. QED BY <1>1, <1>2, <1>3 DEF Promises

\* Steps that leave jobs and files alone keep the promises.
LEMMA QuietPromises ==
  ASSUME TimeInv,
         \/ ListingRaises \/ Gathered \/ Wake \/ UNCHANGED vars
         \/ \E j \in Jobs : Start(j) \/ Announced(j) \/ JobOver(j) \/ EventRaises(j)
         \/ \E c \in ChannelJobs : Activate(c) \/ Stop(c) \/ LoseLink(c)
  PROVE  Promises'
<1>1. UNCHANGED <<registered, loaded, state, disk, torn, crashes, owed>>
  BY DEF ListingRaises, Gathered, Wake, vars, processVars, diskVars, Start, Announced,
         JobOver, EventRaises, Activate, Stop, LoseLink
<1>2. \A j \in Jobs : /\ jpc'[j] # "idle" => jpc[j] # "idle"
                      /\ jpc'[j] \in InProgress => jpc[j] \in InProgress
  <2>1. jpc \in [Jobs -> {"idle", "waiting", "announcing", "checking", "reporting"}]
    BY DEF TimeInv, TypeOK
  <2>2. CASE ListingRaises \/ Gathered \/ Wake \/ UNCHANGED vars
             \/ \E c \in ChannelJobs : Activate(c) \/ Stop(c) \/ LoseLink(c)
    BY <2>2 DEF ListingRaises, Gathered, Wake, vars, processVars, Activate, Stop, LoseLink
  <2>3. CASE \E j \in Jobs : Start(j) \/ Announced(j) \/ JobOver(j) \/ EventRaises(j)
    BY <2>1, <2>3 DEF Start, Announced, JobOver, EventRaises, InProgress
  <2>. QED BY <2>2, <2>3
<1>. QED BY <1>1, <1>2, NothingStarted

\* A round reads the files of the users that are new to it and starts what is
\* due by the tables it has then.
LEMMA TickPromises ==
  ASSUME TimeInv, NEW open \in BOOLEAN, Tick(open)
  PROVE  Promises'
<1>1. /\ NewUsers \cap torn = {}
      /\ registered' = registered \cup Listed /\ loaded' = loaded \cup NewUsers
      /\ UNCHANGED <<disk, torn, crashes, owed>>
  BY DEF Tick, diskVars
<1>2. Known /\ InMemory /\ OnDisk /\ OnTime
  BY DEF TimeInv, Promises
<1>3. AgentJobs \subseteq Listed /\ Listed \subseteq Jobs
  BY DEF Listed, Jobs
<1>4. \A j \in Jobs : state'[j] = Restored(j)
  BY DEF Tick
<1>5. \A j \in Jobs : Owner[j] \in loaded => state'[j] = state[j]
  BY <1>4 DEF Restored, NewUsers
<1>6. \A j \in Jobs : Owner[j] \in NewUsers => state'[j] = disk[j]
  BY <1>2, <1>4 DEF Restored, NewUsers, Known
<1>7. \A j \in Jobs : Owner[j] \notin loaded' => state'[j] = state[j]
  BY <1>1, <1>4 DEF Restored
<1>8. \A j \in Jobs : jpc'[j] = jpc[j]
                      \/ (jpc'[j] = "waiting" /\ j \in registered' /\ state'[j].wait = 0)
  BY DEF Tick
<1>9. Known'
  <2>1. \A j \in Jobs : jpc'[j] # "idle" => j \in registered'
    BY <1>1, <1>2, <1>8 DEF Known
  <2>2. \A j \in registered' : Owner[j] \in loaded'
    <3>1. \A j \in Listed : Owner[j] \in loaded \cup NewUsers
      BY DEF NewUsers
    <3>. QED BY <1>1, <1>2, <3>1 DEF Known
  <2>3. loaded' # {} => AgentJobs \subseteq registered'
    BY <1>1, <1>3
  <2>4. \A j \in Jobs : Owner[j] \notin loaded' => state'[j] = NoSnapshot
    BY <1>1, <1>2, <1>7 DEF Known
  <2>5. crashes' = 0 => \A j \in Jobs : owed'[j] > 0 => j \in registered'
    BY <1>1, <1>2 DEF Known
  <2>. QED BY <2>1, <2>2, <2>3, <2>4, <2>5 DEF Known
<1>10. InMemory'
  <2>1. SUFFICES ASSUME NEW j \in Jobs, Guarded(j)', Owner[j] \in loaded'
                 PROVE  owed[j] <= state'[j].wait
    BY <1>1 DEF InMemory
  <2>2. Guarded(j)
    BY <1>1, <2>1 DEF Guarded
  <2>3. CASE Owner[j] \in loaded
    BY <1>2, <1>5, <2>2, <2>3 DEF InMemory
  <2>4. CASE Owner[j] \in NewUsers
    <3>1. Owner[j] \notin loaded \cup torn
      BY <1>1, <2>4 DEF NewUsers
    <3>. QED BY <1>2, <1>6, <2>2, <2>4, <3>1 DEF OnDisk
  <2>. QED BY <1>1, <2>1, <2>3, <2>4
<1>11. OnDisk'
  BY <1>1, <1>2 DEF OnDisk, Guarded
<1>12. OnTime'
  <2>1. SUFFICES ASSUME NEW j \in Jobs, Guarded(j)', jpc'[j] \in InProgress
                 PROVE  owed[j] = 0
    BY <1>1 DEF OnTime
  <2>2. Guarded(j)
    BY <1>1, <2>1 DEF Guarded
  <2>3. CASE jpc'[j] = jpc[j]
    BY <1>2, <2>1, <2>2, <2>3 DEF OnTime
  <2>4. CASE j \in registered' /\ state'[j].wait = 0
    <3>1. Owner[j] \in loaded'
      BY <1>9, <2>4 DEF Known
    <3>2. owed[j] <= 0
      BY <1>1, <1>10, <2>1, <2>4, <3>1 DEF InMemory
    <3>. QED BY <3>2, Numbers DEF TimeInv
  <2>. QED BY <1>8, <2>3, <2>4
<1>. QED BY <1>9, <1>10, <1>11, <1>12 DEF Promises

\* A check that is saved: what is promised is what is noted and what is written.
LEMMA CheckPromises ==
  ASSUME TimeInv, NEW j \in Jobs, NEW healthy \in BOOLEAN, Check(j, healthy)
  PROVE  Promises'
<1> DEFINE d == Result(j, healthy).delay
<1>1. /\ jpc[j] = "checking" /\ jpc' = [jpc EXCEPT ![j] = "reporting"]
      /\ jpc \in [Jobs -> {"idle", "waiting", "announcing", "checking", "reporting"}]
      /\ owed' = [owed EXCEPT ![j] = TimeLeft(d)]
      /\ owed \in [Jobs -> 0..MaxDelay]
      /\ torn' = torn \ {Owner[j]}
      /\ UNCHANGED <<registered, loaded, crashes>>
  BY DEF Check, Judged, TimeInv, TypeOK, TimeLeft
<1>2. /\ state'[j].wait = TimeLeft(d)
      /\ \A k \in Jobs \ {j} : state'[k] = state[k]
      /\ state' \in [Jobs -> Snapshots]
  BY JudgedTypes DEF Check, TimeInv
<1>3. TimeLeft(d) \in Nat
  BY <1>2, HeartbeatAssumption DEF Snapshots
<1>4. Known /\ InMemory /\ OnDisk /\ OnTime
  BY DEF TimeInv, Promises
<1>5. j \in registered /\ Owner[j] \in loaded
  BY <1>1, <1>4 DEF Known
<1>6. owed'[j] = TimeLeft(d) /\ \A k \in Jobs \ {j} : owed'[k] = owed[k]
  BY <1>1
<1> HIDE DEF d
<1>7. \A k \in Jobs : Owner[k] # Owner[j] => disk'[k] = disk[k]
  BY DEF Check, FileOf
<1>8. \A k \in Jobs : Owner[k] = Owner[j] /\ k \in registered => disk'[k] = state'[k]
  BY DEF Check, FileOf
<1>9. Known'
  <2>1. \A k \in Jobs : jpc'[k] # "idle" => k \in registered'
    BY <1>1, <1>4 DEF Known
  <2>2. \A k \in registered' : Owner[k] \in loaded'
    BY <1>1, <1>4 DEF Known
  <2>3. loaded' # {} => AgentJobs \subseteq registered'
    BY <1>1, <1>4 DEF Known
  <2>4. \A k \in Jobs : Owner[k] \notin loaded' => state'[k] = NoSnapshot
    BY <1>1, <1>2, <1>4, <1>5 DEF Known
  <2>5. crashes' = 0 => \A k \in Jobs : owed'[k] > 0 => k \in registered'
    BY <1>1, <1>4, <1>5, <1>6 DEF Known
  <2>. QED BY <2>1, <2>2, <2>3, <2>4, <2>5 DEF Known
<1>10. InMemory'
  <2>1. SUFFICES ASSUME NEW k \in Jobs, Guarded(k)', Owner[k] \in loaded'
                 PROVE  owed'[k] <= state'[k].wait
    BY DEF InMemory
  <2>2. Guarded(k) /\ Owner[k] \in loaded
    BY <1>1, <2>1 DEF Guarded
  <2>3. CASE k = j
    BY <1>2, <1>3, <1>6, <2>3
  <2>4. CASE k # j
    BY <1>2, <1>4, <1>6, <2>2, <2>4 DEF InMemory
  <2>. QED BY <2>3, <2>4
<1>11. OnDisk'
  <2>1. ASSUME NEW k \in Jobs, Guarded(k)', Owner[k] \notin loaded' \cup torn'
        PROVE  owed'[k] <= disk'[k].wait
    <3>1. Guarded(k) /\ Owner[k] \notin loaded /\ Owner[k] # Owner[j] /\ k # j
      BY <1>1, <1>5, <2>1 DEF Guarded
    <3>2. Owner[k] \notin torn
      BY <1>1, <2>1, <3>1
    <3>. QED BY <1>4, <1>6, <1>7, <3>1, <3>2 DEF OnDisk
  <2>2. ASSUME NEW k \in Jobs, k \in AgentJobs \/ crashes' = 0, Owner[k] \notin torn'
        PROVE  owed'[k] <= disk'[k].wait
    <3>1. k \in AgentJobs \/ crashes = 0
      BY <1>1, <2>2
    <3>2. CASE Owner[k] # Owner[j]
      <4>1. Owner[k] \notin torn /\ k # j
        BY <1>1, <2>2, <3>2
      <4>. QED BY <1>4, <1>6, <1>7, <3>1, <3>2, <4>1 DEF OnDisk
    <3>3. CASE Owner[k] = Owner[j] /\ k \in registered
      <4>1. Guarded(k)' /\ Owner[k] \in loaded'
        BY <1>1, <1>5, <3>1, <3>3 DEF Guarded
      <4>. QED BY <1>8, <1>10, <3>3, <4>1 DEF InMemory
    <3>4. CASE k \notin registered
      <4>1. k \notin AgentJobs /\ crashes = 0 /\ k # j
        BY <1>4, <1>5, <3>1, <3>4 DEF Known
      <4>2. owed'[k] = owed[k] /\ owed[k] \in Nat /\ ~(owed[k] > 0)
        BY <1>4, <1>6, <3>4, <4>1, Numbers DEF Known, TimeInv
      <4>3. disk'[k].wait \in Nat
        <5>1. TypeOK'
          BY CheckTypes DEF TimeInv
        <5>2. disk' \in [Jobs -> Snapshots]
          BY <5>1 DEF TypeOK
        <5>. QED BY <5>2, HeartbeatAssumption DEF Snapshots
      <4>. QED BY <4>2, <4>3
    <3>. QED BY <3>2, <3>3, <3>4
  <2>. QED BY <2>1, <2>2 DEF OnDisk
<1>12. OnTime'
  <2>1. SUFFICES ASSUME NEW k \in Jobs, Guarded(k)', jpc'[k] \in InProgress
                 PROVE  owed'[k] = 0
    BY DEF OnTime
  <2>2. k # j /\ jpc[k] \in InProgress /\ Guarded(k)
    BY <1>1, <2>1 DEF InProgress, Guarded
  <2>. QED BY <1>4, <1>6, <2>2 DEF OnTime
<1>. QED BY <1>9, <1>10, <1>11, <1>12 DEF Promises

\* A check that cannot be saved promises nothing new.
LEMMA SaveRaisesPromises ==
  ASSUME TimeInv, NEW j \in Jobs, NEW healthy \in BOOLEAN, SaveRaises(j, healthy)
  PROVE  Promises'
<1>1. /\ jpc[j] = "checking" /\ jpc' = [jpc EXCEPT ![j] = "idle"]
      /\ jpc \in [Jobs -> {"idle", "waiting", "announcing", "checking", "reporting"}]
      /\ UNCHANGED <<registered, loaded, crashes, owed>>
  BY DEF SaveRaises, Judged, TimeInv, TypeOK
<1>2. /\ state' \in [Jobs -> Snapshots]
      /\ \A k \in Jobs \ {j} : state'[k] = state[k]
  BY JudgedTypes DEF SaveRaises, TimeInv
<1>3. Known /\ InMemory /\ OnDisk /\ OnTime
  BY DEF TimeInv, Promises
<1>4. j \in registered /\ Owner[j] \in loaded
  BY <1>1, <1>3 DEF Known
<1>5. Known'
  BY <1>1, <1>2, <1>3, <1>4 DEF Known
<1>6. InMemory'
  <2>1. SUFFICES ASSUME NEW k \in Jobs, Guarded(k)', Owner[k] \in loaded'
                 PROVE  owed[k] <= state'[k].wait
    BY <1>1 DEF InMemory
  <2>2. Guarded(k) /\ Owner[k] \in loaded
    BY <1>1, <2>1 DEF Guarded
  <2>3. CASE k = j
    <3>1. owed[j] = 0
      BY <1>1, <1>3, <2>2, <2>3 DEF OnTime, InProgress
    <3>2. state'[j].wait \in Nat
      BY <1>2, HeartbeatAssumption DEF Snapshots
    <3>. QED BY <2>3, <3>1, <3>2
  <2>4. CASE k # j
    BY <1>2, <1>3, <2>2, <2>4 DEF InMemory
  <2>. QED BY <2>3, <2>4
<1>7. OnDisk'
  <2>1. \A k \in Jobs : Owner[k] \notin torn' => Owner[k] \notin torn /\ disk'[k] = disk[k]
    BY DEF SaveRaises, CutOff, diskVars
  <2>. QED BY <1>1, <1>3, <2>1 DEF OnDisk, Guarded
<1>8. OnTime'
  BY <1>1, <1>3 DEF OnTime, InProgress, Guarded
<1>. QED BY <1>5, <1>6, <1>7, <1>8 DEF Promises

\* Time shortens what is promised, noted and written alike.
LEMMA PassPromises ==
  ASSUME TimeInv, Pass
  PROVE  Promises'
<1>1. /\ \A j \in Jobs : owed[j] \in Nat /\ state[j].wait \in Nat /\ disk[j].wait \in Nat
      /\ state \in [Jobs -> Snapshots] /\ disk \in [Jobs -> Snapshots]
      /\ owed \in [Jobs -> 0..MaxDelay]
  BY Numbers DEF TimeInv, TypeOK
<1>2. UNCHANGED <<jpc, registered, loaded, torn, crashes>>
  BY DEF Pass
<1>3. \A j \in Jobs : /\ state'[j].wait = Less(state[j].wait)
                      /\ disk'[j].wait = Less(disk[j].wait)
                      /\ owed'[j] = Less(owed[j])
  BY <1>1 DEF Pass, Snapshots
<1>4. \A j \in Jobs : /\ owed[j] <= state[j].wait => owed'[j] <= state'[j].wait
                      /\ owed[j] <= disk[j].wait => owed'[j] <= disk'[j].wait
                      /\ owed'[j] > 0 => owed[j] > 0
                      /\ owed[j] = 0 => owed'[j] = 0
  BY <1>1, <1>3 DEF Less
<1>5. Known /\ InMemory /\ OnDisk /\ OnTime
  BY DEF TimeInv, Promises
<1>6. \A j \in Jobs : state[j] = NoSnapshot => state'[j] = NoSnapshot
  BY DEF Pass, NoSnapshot, Less
<1>7. Known'
  BY <1>2, <1>4, <1>5, <1>6 DEF Known
<1>8. InMemory' /\ OnDisk'
  BY <1>2, <1>4, <1>5 DEF InMemory, OnDisk, Guarded
<1>9. OnTime'
  BY <1>2, <1>4, <1>5 DEF OnTime, Guarded
<1>. QED BY <1>7, <1>8, <1>9 DEF Promises

\* After a restart the files are all there is; of a file cut off in the save
\* nothing is read.
LEMMA RestartPromises ==
  ASSUME TimeInv, Crash \/ \E j \in Jobs : CrashInSave(j)
  PROVE  Promises'
<1>1. /\ crashes' = crashes + 1 /\ crashes \in Nat
      /\ jpc' = [j \in Jobs |-> "idle"] /\ registered' = {} /\ loaded' = {}
      /\ state' = [j \in Jobs |-> NoSnapshot]
      /\ UNCHANGED owed
  BY Numbers DEF Crash, CrashInSave, Restart, TimeInv
<1>2. \A j \in Jobs : Owner[j] \notin torn' => Owner[j] \notin torn /\ disk'[j] = disk[j]
  BY DEF Crash, CrashInSave, CutOff, diskVars
<1>3. OnDisk
  BY DEF TimeInv, Promises
<1>4. Known' /\ InMemory' /\ OnTime'
  BY <1>1 DEF Known, InMemory, OnTime, InProgress
<1>5. OnDisk'
  <2>1. ASSUME NEW j \in Jobs, Guarded(j)', Owner[j] \notin torn'
        PROVE  owed'[j] <= disk'[j].wait
    <3>1. j \in AgentJobs \/ crashes = 0
      BY <1>1, <2>1 DEF Guarded
    <3>. QED BY <1>1, <1>2, <1>3, <2>1, <3>1 DEF OnDisk
  <2>2. \A j \in Jobs : j \in AgentJobs \/ crashes' = 0 => Guarded(j)'
    BY <1>1 DEF Guarded
  <2>. QED BY <2>1, <2>2 DEF OnDisk
<1>. QED BY <1>4, <1>5 DEF Promises

\* Every step keeps TimeInv.
LEMMA TimeNext == TimeInv /\ [Next]_vars => TimeInv'
<1> SUFFICES ASSUME TimeInv, [Next]_vars PROVE TimeInv'
  OBVIOUS
<1>1. TypeOK'
  BY TypeNext DEF TimeInv
<1>2. Promises'
  BY QuietPromises, TickPromises, CheckPromises, SaveRaisesPromises, PassPromises,
     RestartPromises DEF Next, LoopStep, JobStep
<1>. QED BY <1>1, <1>2 DEF TimeInv

\* TimeInv holds in every state.
LEMMA TimeInvariance == Spec => []TimeInv
<1>1. Init => TimeInv
  BY TypeInit, PromisesInit DEF TimeInv
<1>. QED BY <1>1, TimeNext, PTL DEF Spec

\* No agent is run before the time its last saved check asked for, however
\* often the process ends and whatever a disk or a hook raises in between.
THEOREM AgentsWait ==
  Spec => [](\A j \in AgentJobs : jpc[j] = "waiting" => owed[j] = 0)
<1>1. TimeInv => \A j \in AgentJobs : jpc[j] = "waiting" => owed[j] = 0
  BY DEF TimeInv, Promises, OnTime, Guarded, InProgress, Jobs
<1>. QED BY <1>1, TimeInvariance, PTL

\* Until the process has been restarted twice no job is, a connection's
\* backoff included: the first restart finds every promise on disk.
THEOREM BackoffOutlivesARestart ==
  Spec => [](crashes <= 1 => NotBeforeItsTime)
<1>1. TimeInv => (crashes <= 1 => NotBeforeItsTime)
  BY DEF TimeInv, Promises, OnTime, Guarded, InProgress, NotBeforeItsTime
<1>. QED BY <1>1, TimeInvariance, PTL
=============================================================================
