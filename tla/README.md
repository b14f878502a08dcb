# AtlasClaw in TLA+

AtlasClaw is an agent server: a FastAPI process that receives messages from a web chat and from
messaging channels (Feishu, DingTalk, WeCom, webhooks), runs a language-model agent with tools for
each, streams what the agent does to the browser, and keeps the sessions on disk. Nearly all of it
runs on one asyncio event loop, so its concurrency is that of coroutines: a step is atomic until it
reaches an `await` that really suspends, and whatever was read before such an `await` may be stale
after it. This directory holds TLA+ models of the parts where that matters, their model-checking
runs, and proofs.

All paths below are relative to `src/app/atlasclaw/` unless they begin with `docs/` or `tests/`.

## How to run

    tlc -workers 2 -config MCRunStreamRoomy.cfg MCRunStream.tla     # any .cfg with its MC module
    tlapm RunStreamProofs.tla                                       # any *Proofs.tla

`PROJECT.json` lists the components, runs, theorems and known hazards, maps each definition to the
source lines it stands for, and names for each property a mutation of the model that breaks it.

## Inventory

| Component | State it keeps | Operations | Interacts with |
|---|---|---|---|
| Channel lifecycle (`channels/manager.py`, `handler.py`, `handlers/`, `api/channels.py`) | database row of each connection; tables of background tasks, active handlers, registered instances and statuses; per handler its status and its SDK client or subprocess | create, enable, disable, patch, delete; background initialisation with retries; start-up; status reads; reconnect | database, event loop (tasks, callbacks, cancellation), external messaging services, heartbeat |
| Agent runs (`api/services/run_service.py`) | `active_runs`: status, abort signal | start, abort, execute | agent runner, SSE, session store |
| Event streams (`api/sse.py`) | per run a buffer of 100 events and a closed flag; per subscriber a queue of 100 | push, close, subscribe with or without `Last-Event-ID`, read | run service, browsers |
| Session store (`session/manager.py`) | `sessions.json` and its cache; one transcript file per session and a cache of it; the archive; a lock per session | get_or_create, load, append, persist, reset, delete, update | disk, runs, session routes |
| Session queue (`session/queue.py`) | a global and a per-session semaphore, queued messages | acquire, release, enqueue, debounce | built by `main.py`; acquired by tests only |
| Agent slots and token failover (`agent/agent_pool.py`, `agent/token_policy.py`, `core/token_pool.py`, `agent/runner_tool/runner_execution_retry.py`) | a semaphore per (agent, token); a token per session; token health | acquire, release, rotate, nested retry of the run | agent runner |
| Agent runner (`agent/runner_tool/`) | the state of one run | prepare, loop over responses, settle the answer, recover, finalize | model, tools, run service, channel manager, sessions, slots, hooks |
| Hook runtime and memory (`hooks/`, `memory/`) | append-only files of pending items, decisions and context; `MEMORY.md` | append, resolve, confirm, script actions; distil, maintain | runs |
| Heartbeat (`heartbeat/`, `main.py`) | jobs, their next run, running jobs; `state.json` | tick, probe, reconnect, agent turn | channel manager, runner |
| Provisioning (`api/channels.py`, `db/orm/channel_provisioning.py`) | a row per session | start, poll, refresh, cancel, complete | database, messaging platforms |
| Gateway, WebSocket (`api/gateway.py`, `websocket.py`) | connections, idempotency cache | connect, request, broadcast | built by tests only |
| Inbound messages (`messages/handler.py`) | dedupe cache, debounce buffers | receive, flush | built by no running path |
| The rest | | routing, workflow engine, tools, skills, providers, embedding, authentication, database, media, frontend | see `PROJECT.json`, each with the reason it is not modelled |

### What is hard, and what makes each part correct

- **Channels.** A request, the background task of an earlier request, the start-up coroutine, the
  heartbeat and the external service all act on one connection. Correct means: no live link that no
  table leads to, none under a disabled row, a task that can always be cancelled, a status that is
  true at rest, a lost link that is replaced.
- **Runs and streams.** A run can end from four places; its readers disconnect, resume and fall
  behind. Correct means: one outcome, announced once and equal to the status; "completed" only with
  an answer; every reader sees the events in order, without holes or repetitions, and is told the
  true end; an abort stops even a blocked runner.
- **Sessions.** Every call loads, locks, saves and writes files at separate suspensions, and some of it
  outside the lock. Correct means: the cache never serves what the file does not hold; what a call
  has answered survives a restart; no stored turn is lost.
- **The runner.** A text may be streamed or held back, and later be replaced by a tool's result, a
  regenerated answer or what the exception handler makes of it; the model, a tool, a hook or the
  disk may raise anywhere, and the whole run may start again on another token. Correct means: the
  reader sees the one text that is stored, and is told one verdict.
- **Slots and failover.** A failover runs the agent again from inside the run that failed. Correct
  means: each slot is released exactly once, whatever interrupts; the retry goes elsewhere.
- **Hooks and memory.** Two append-only files and a memory file that several tasks rewrite. Correct
  means: one decision per item, the same in both files; nothing confirmed is lost; a script that
  answers its own events comes to an end.
- **Heartbeat.** One loop for all users, with backoff kept on disk. Correct means: no check before
  its time, none put off for ever, a report that follows the connection.
- **Provisioning.** Requests that poll, refresh and cancel one row in overlapping transactions.
  Correct means: one connection from one grant, and no session left half completed.

## The modules

| Module | What it is |
|---|---|
| `ChannelManager`, `MCChannel`, `ChannelManagerProofs` | lifecycle of one connection; its instances; its tasks, links and status proved |
| `RunFeed` | what a reader is promised about a run: abstract specification |
| `RunStream`, `MCRunStream`, `RunStreamProofs` | one run as the run service sees it, its stream and its readers; implements `RunFeed` |
| `AgentRun`, `AgentRunProofs` | the same run from inside: what the runner does between two events |
| `SessionStore`, `MCSession`, `SessionStoreProofs` | one user's sessions: caches, files, crashes |
| `TokenSlots`, `MCTokenSlots`, `TokenSlotsProofs` | tokens of sessions, slots of runs, failover |
| `HookMemory`, `MCHookMemory`, `HookMemoryProofs` | pending items, their decisions, the memory file |
| `HeartbeatJobs`, `MCHeartbeat`, `HeartbeatJobsProofs` | the heartbeat's loop, jobs and state file |
| `Provisioning`, `MCProvisioning`, `ProvisioningProofs` | one QR provisioning session under overlapping transactions |

Where two modules meet, one of them is the environment of the other: `RunStream` leaves the runner
free and `AgentRun` fills it in, under the two kinds of reader; `SessionStore` takes from the runner
the order in which a run loads and stores, and `AgentRun` when and what it stores; `TokenSlots`
keeps of a run only what touches its slot; `HeartbeatJobs` sees of a connection whether a probe
finds it healthy, which `ChannelManager` details.

### ChannelManager

One connection: every table of the manager is keyed by the connection and no operation reads two
entries. The state is the row as committed, the four tables, and per coroutine a place in its code.
A *runner* is a coroutine inside `initialize_connection`: the background task of the request that
scheduled it (with its attempts), or `Boot`, the start-up coroutine. Each await that suspends ends
an action:

- `BeginAttempt`, `SelectRow`, `ReadFails`, `RejectFirst`, `CreateHandler`, `SetupFails`,
  `RejectRecheck`, `LeaveRejected`, `StartHandler`, `SpawnProcess`, `ConnectFails`, `Publish`,
  `CancelTask` are the paths through `initialize_connection` and `_background_initialize`, errors and
  cancellation included; `ForgetInitializationTask` is the done-callback, a later turn of the loop.
- `Arrive` to `Schedule` are the routes and the manager's operations: a request loads the row into
  its database session, works, and commits; the session writes the flag only when it differs from
  what it loaded (`Written`).
- `LoseLink`, `ReadStatus`, `ProbeUnhealthy`, `Reopen`, `HeartbeatConnected`, `HeartbeatFails` are
  the external service, the status route and the heartbeat.

`Kind` chooses the handler: `process` (Feishu, DingTalk: a subprocess that is terminated at once and
not watched after `connect`) or `socket` (WeCom: a client whose `disconnect` suspends and which
reports its loss).

### RunStream and RunFeed

`RunStream` has the status of one run, where its coroutine is (`exec`), the stream as the sequence
of all events pushed (`log`; the buffer is its last `Buffer` events, an event's id its index), and
per client its connection, the replay it still has to send, its queue, and what it has got and been
told. `Publish` is `push_event` (several, when no await lies between them) and `close_stream`; a full
queue drops. `Conclude` is `_transition_running_run` with the lifecycle event that goes with it, and
is used by `Abort`, `StaticAnswer`, `YieldEnd`, `Finish` and `HandleException`. The runner is the
environment: `YieldStart`, `YieldData`, `YieldFailure`, `YieldAnswered`, `YieldEnd`, `Exhausted` and
`RunnerRaises` come in any order, or never. `Subscribe` is `_event_generator` up to its first yield;
`SendReplay`, `GoLive`, `EndReplay`, `SendQueued`, `SeeClosed` and `StreamTimeout` are its yields;
`Drop` and `Reload` are the client's.

`RunFeed` says the same without buffers and queues: one feed, decided once, read in order by
readers that may start over. The refinement maps a reader's position to the last id it has got.

### AgentRun

One call of the generator `AgentRunner.run`. `state` is the `phase_state` of the current attempt,
one field for each flag the control depends on; `pc` is where the generator stands between two of
its phases. Texts are abstracted to the classes the code's own tests tell apart (`Texts`): a usable
answer, text that looks like a tool call, a listing copied from a lookup, a raw payload, an answer
built from tool results, one regenerated, one of the program's own.

- `Prepare`, `CannotPrepare`: the prepare phase, by its outcome (does the turn need tools, may it use
  them, is the answer the program's own), or its failures.
- `SayText`, `SayMarkup`, `RepeatTool`, `UseTools`, `ThinkOnly`: one response of the model each, as
  `_run_agent_node_stream` tells them apart; `Raise` is an exception anywhere in the loop; `Continue`
  is the session that follows when there is only one option to choose.
- `Settle`: all of `_process_agent_run_outcome` up to the point where the text is fixed, with its
  helpers `Found`, `Flushes`, `Forced`, `Regenerated`, `Written` in the order of the code. `ShowFinal`,
  `ShowRecovery`, `NoAnswer`, `Announce`, `Commit`, `FailTurn`, `FailTurnRaises` are what follows, cut
  at the events it yields; `StoreAnswer` is the background task; `LeaveSession` the end of the
  `async with`.
- `Overlook`, `AnswerFromTools`, `FailOver`, `FailRun`: the ways out of the exception handler.
- `Finish` is the finalize phase; `Abort` and `Close` are the run service.

A failover runs the generator inside itself. The outer one only passes events on and ends, so the
nested attempt's state takes its place, and only whether an attempt is the first is kept.

Assumed of pydantic-ai: a response without tool calls ends the session, an agent without tools makes
no calls, a session ends at its request limit. Choices left free: what the plan is, what kind a
text is, whether evidence of an artifact or an authorisation is missing, what raises.

### SessionStore

One user's manager (the router makes one for each). A session is its `session_id`, a transcript the
set of calls that wrote to it, and a file's mtime and size a version that each write renews. A call
goes through `_load_metadata` (`Start`, `ReadIndex`, `Merge`), takes the lock of its key and changes
the cache (`GetOrCreate`, `Reset`, `Discard`, `Delete`, `DeleteNothing`), saves the snapshot it took
(`Saved`), and goes on: `View`, `Fetch`, `Keep` are `load_transcript`; `AppendEntry`, and
`Truncate`/`Rewrite`, are the writes of `append_transcript` and `persist_transcript`, outside the
lock; `Touch` and `Resaved` finish them. An agent run loads the history, works, and persists it with
its turn (`Answer`). `Crash` empties the memory and ends the calls. A write to a file that was moved
to the archive while it was open goes to the archive (`Rewrite`).

`Overlap` says which calls may be at work together. The code has no such rule: it admits any. The
run uses it to separate what holds with one writer at a time from what an overlap breaks.

### TokenSlots

A session's pin, the health of tokens, the free places (`permits`) and the waiters of each
instance's semaphore, and per run its token and the slot it has given back for a failover
(`gaveBack`). `Resolve` picks or keeps the session's token; `Acquire` is the semaphore's;
`Prepared`, `PrepareError`, `Answer`, `Fail` end the phases; `HardFail` blames the pin, gives the
slot back and starts the nested run; `Abort` may come anywhere. `Close` is what the `finally` of the
generators does with the slots, which depends on the reader (`Caller`): one that reads to the end
(`webhook`), stops at the terminal event (`api`), or stops at the first error (`channel`).

### HookMemory

One module's pending items of one user and the user's `MEMORY.md`. Each call takes its steps between
suspensions: an event creates an item (`Fail`, `Create`), a request looks at it, queues for the
lock, appends the snapshot and then the record (`Look`, `Decide`, `Snapshot`, `Record`); a confirmed
item, a script's `write_memory` and the background task of a turn (`Distil`, `Maintain`, `Asked`)
read and rewrite the memory file (`Read`, `Truncate`, `Fill`). `ScriptAsks`, `ScriptWrites`,
`ScriptEnds`, `ScriptRaises` are what becomes of the actions a script returns. `Hears` is the set of
events the script is registered for; its own `write_memory` announces `memory.confirmed`, which awaits
the script again inside the first when it hears that, so `left` is a stack of batches, and `MaxDepth`
stands for Python's recursion limit, where `Fill` raises. The clock that stamps snapshots may stand
still, but not go back (`Tick`); `Crash` may fall anywhere.

Three histories name what the code does not promise: `torn`, an item whose two appends a crash
parted; `doubled`, one that two calls found pending; `exposed`, a memory entry that was written
while another update was between its reading and its writing (`Overlooked`), or that was not in the
file while another update read it cut, or a crash came then (`Cut`).

### HeartbeatJobs

The loop (`Tick`, `Gathered`, `Wake`), the jobs that are due in a round (`Start`, `Announced`,
`Check`, `JobOver`), what the executors make of a check (`Result`, `Counted`, `BackoffDelay`), and
each user's `state.json` (`disk`). What is raised outside the executors ends the loop
(`ListingRaises`, `EventRaises`, `SaveRaises`). `Activate`, `Stop` and `LoseLink` are the
connection's. Times are kept as the time still to go, so `Pass` needs no bound. `Crash` and
`CrashInSave` end the process.

### Provisioning

One row, the write lock of SQLite, and per request the dataclass it holds, the row it read for
writing and what the open transaction will commit. `Begin` loads; `Heard` and `NotYet` are the
platform's answer; `Read` loads again for writing, `Save` writes the columns that differ; `Claim` is
the conditional update of `claim_completion`, which takes the write lock also when it finds no open
row to update; `Create`/`CreateFails` follow it in the same transaction, or `ToldLate` when it came
too late; `Reset`, `Started` are a refresh, `Cancel` a cancel; `Commit` ends the transaction, and
`LockTimeout` one that waited in vain for the lock, which any other writer of the database may hold.
`Decide` and `Expire` are the platform's. `reopened` counts the commits by which a
completed session was taken back, `made` the connections.

## The runs

| Run | Instance | Result |
|---|---|---|
| `channel_serial` | 4 requests one at a time (create, disable, patch, delete), WeCom's handler, lost links, 2 attempts | `NoOrphanLink`, `DisabledMeansDown`, `StatusIsTrue` hold |
| `channel_overlap` | 3 overlapping requests (enable, disable, patch), subprocess handler | `TypeOK`, `RunningTaskTracked` hold |
| `channel_recovers` | start-up, 2 overlapping requests, heartbeat, WeCom's handler, fairness | `LostLinkRecovers`, `ConnectingEnds` hold |
| `channel_boot` | start-up and one disable | `DownAtRest` fails |
| `run_stream` | 2 clients, 3 events of the runner, buffer and queues that do not overflow | `TrueOutcome`, `NothingForgotten`, `ToldTruth`, refinement `ImplementsFeed` hold |
| `run_tight` | 1 client, buffer and queue of 2, fairness | `TypeOK`, `LosesOnly`, `ClientLearns`, `AbortStops` hold |
| `agent_run` | 2 responses a session, 1 allowed call, 2 continuations, 1 failover, either reader, abort, fairness | `TypeOK`, `ShownIsStored`, `OneVerdict`, `RunEnds` hold |
| `session_readers` | 4 calls of any kind on 1 session, one writer beside any readers, reset policy, 1 crash | `TypeOK`, `CacheHonest`, `DiskCurrent`, `AnsweredKept` hold |
| `token_slots` | 4 runs (three of one session), 3 tokens of one slot, two readers that drop, aborts, fairness | `TypeOK`, `NoSlotLost`, `SurplusExplained`, `RetryElsewhere`, `RunsEnd` hold |
| `hook_memory` | an event, a confirm, a reject, a turn's task, a script that hears its own `memory.confirmed`, 2 items, 1 tick, 1 crash, fairness | `TypeOK`, `LastDecisionShown`, `LogsAgree`, `MemoryKept`, `CallsEnd` hold |
| `heartbeat` | 2 users, 2 agent jobs, 1 connection, 1 place, faults, 1 crash, fairness | `TypeOK`, `NotBeforeItsTime`, `ChecksGoOn`, `TruthInTheEnd` hold |
| `provisioning` | 3 overlapping requests of any kind | `TypeOK`, `NothingHalfDone`, `ConnectionsExplained` hold |

### Bounds

- `Attempts` is 2 for the code's 3: a first, a repeated and a last attempt already differ.
- Three overlapping requests give a pending task, one that replaces it and one that cancels;
  four in a row give create, change, change back, delete.
- Capacities of 2 stand for 100 where overflow is the question; 8 is more than a run of three
  events can fill, so it stands for "does not overflow". `MaxEvents` bounds what the runner yields; the
  terminal events of the run service come on top.
- Clients of a stream never touch each other's state, so two are enough to see that; one is enough
  for what happens to one.
- In `AgentRun` two responses give a draft and what follows it, tools and what is made of them; a
  call within the limit and one beyond it; retries up to the code's limits; two continuations, as in
  the code; one failover, after which the second attempt fails for good. The pool allows more
  attempts, which differ in nothing else. The proofs have no such bounds.
- Four calls on one session give a stored turn, a reader, a writer and a crash between any two of
  their steps. Sessions share only the index; two of them are needed for the failing run on saves below.
- Three tokens let a failed run move to a second while another run has moved the session to a third;
  one slot each makes every meeting a wait. Three turns of one session are the least that brings one
  back to a token it failed on: a failover finds a token, and before it is resolved another turn, for
  which no token is left, puts the pin back. `RetryElsewhere` excepts such a session (`Exhausted`), and
  the run reaches it.
- One event, one confirm, one reject and one turn give two resolvers of one item and two writers of the
  file; an item a script asks for is the second. The script returns one action to each event and hears
  the one it announces itself, two deep, so a batch that ends inside another, an action that raises
  through both and the limit are all met. A script that hears `run.failed` or `memory.rejected` starts in
  the same place with the same batch; the proofs cover every `Hears` and `MaxDepth`.
- One place for three jobs makes jobs wait for each other; delays up to 2 tell a first from a later
  backoff; counts of failures stop counting at the threshold.
- Three requests let a stale writer, the one that completes and a third one meet.
- `CHECK_DEADLOCK FALSE` where the end is the end of all calls. In `ChannelManager` the end is the
  explicit step `Rest`, so deadlock is checked: no request waits for ever for a cancelled task.

### Fairness

`ChannelManager`: the event loop resumes every ready coroutine and `connect()` is bounded by its
timeout, so runners, requests that have arrived, callbacks and the heartbeat take their next step;
requests need not arrive and links need not be lost. The heartbeat loop is taken to keep running
there; what ends it is in `HeartbeatJobs`. `RunStream`: the coroutine's own steps and the generators
are fair; the runner is not, it may block for ever. `StopOnAbort` is fair because the watcher
cancels the execution. `AgentRun`: the run's own steps, the background task and the cancellation are
fair. That takes the model, the tools and the hooks to answer or raise: the code sets no time limit
of its own on them. `TokenSlots` and `HookMemory`: the same of every call that has begun; aborts,
crashes and events need not come; a script has a timeout. `HeartbeatJobs`: the loop sleeps a finite
time, time passes, the probe and the reconnect of a connection end; an agent's turn is taken to end
because the model and the tools answer or raise, for nothing limits it (finding 12). A tick
inside the active hours is strongly fair, for active hours come round.
Liveness is promised only while nothing has ended the loop, and that is part of the properties.

## What fails, and where

`channel_boot` is kept as a run. The others are reproduced by the constants given.

1. **Start-up** (`channel_boot`). `start_enabled_connections` (`main.py:873`) initialises
   connections in a task that is not in `_initialization_tasks`, so disable does not cancel or await
   it. A disable answered while start-up is in `connect()` leaves a live link under an inactive row.
2. **Dead subprocess** (`MCChannelHeartbeat_socket` with `Kind = "process"`: `LostLinkRecovers`).
   Nothing looks at a Feishu or DingTalk subprocess after `connect()`
   (`channels/handlers/feishu.py:607`); one that dies later is reported connected and healthy for
   ever, although `docs/ARCHITECTURE.MD:889` names both for the heartbeat's reconnect supervision.
3. **Enable and reconnect** (`DownAtRest`, `NoOrphanLink` with other constants). An enable that
   overlaps the end of a pending initialisation connects a second handler over the first
   (`channels/manager.py:738`); a heartbeat inside `reconnect()` while the connection is disabled
   opens it again (`channels/handler.py:148`).
4. **Resuming** (`RunStream`, 1 client, `MaxEvents = 4`, `Buffer = 2`, `QueueCap = 8`:
   `NothingForgotten`). A `Last-Event-ID` that has left the buffer replays nothing, although the
   newer events are there (`api/sse.py:408`).
5. **Slow reader** (`Buffer = 8`, `QueueCap = 2`: `ToldTruth`). A queue that is full when the run
   ends drops the terminal event and the mark; after an hour the reader is told "timeout" of a run
   that completed (`api/sse.py:207`, `:231`).
6. **Saves** (`SessionStore`, 2 keys, 2 calls, `Ops = {"create"}`, `Overlap = "all"`:
   `DiskCurrent`). Saves under different locks take their snapshot before they await, so the older
   may land last; a restart forgets a session (`session/manager.py:282`).
7. **Turns** (1 key, `Ops = {"run"}`, `Overlap = "all"`: `AnsweredKept`). Of two overlapping runs of
   a session the last to persist erases the turn of the other (`session/manager.py:496`). With
   `TornRewrite` a crash inside `persist_transcript` loses the history, which is truncated in place.
8. **Slots** (`TokenSlots` with every `Caller` `"api"`: `SlotsBounded`). A run whose reader leaves
   at the terminal event of a failed-over run releases the slot it gave back a second time
   (`runner_execution_loop.py:286`), and the instance admits one run too many from then on;
   `docs/MODULE-DETAILS.MD:946` promises the limit. `SurplusExplained` says that nothing else does
   this. With every `Caller` `"channel"` the error event of the prepare phase loses the slot for
   good, and `RunsEnd` fails.
9. **Memory** (`HookMemory`; `MemoryKept` without `\ exposed` fails). Every request has a
   `MemoryManager`, and so a lock, of its own (`memory/manager.py:275`). An entry written while
   another update is between its reading and its writing of `MEMORY.md` is erased by it; an update that
   reads the file while another has cut it, and a crash there, lose what was in it. `MemoryKept`
   excepts exactly these entries: overlaps lose no other.
10. **Heartbeat.** A torn `state.json` ends the heartbeat of all users at every start
    (`heartbeat/store.py:71`). With `MaxCrashes = 2`, `NotBeforeItsTime` fails: a save drops the
    snapshots of jobs that are not registered yet (`heartbeat/runtime.py:233`), while
    `docs/MODULE-DETAILS.MD:1744` has "Durable health and scheduling state". Jobs of stopped
    connections are never unregistered and go on to "degraded".
11. **Provisioning.** `cancel` and `save_mutable_state` write what was decided on an earlier reading
    (`db/orm/channel_provisioning.py:301`), so they may take a completed session back, which may
    then make a second connection; the docstring has "Cancel a provisioning session that has not
    already completed." A poll that overlaps a refresh writes the old registration back, and the QR
    code shown is then not the one that is polled.
12. **Runs** (seen in `AgentRun`). `max_tool_calls` and `timeout_seconds` do not limit a run: beyond
    the first an error event takes the place of the tools' events and the run goes on, the second is
    not read anywhere (`docs/ARCHITECTURE.MD:421`, `docs/MODULE-DETAILS.MD:666`). A run whose
    history is compacted between two responses may stream a text, not find it again
    (`runner_execution_flow_post.py:754`) and be told to have failed, or show it and store another:
    `ShownIsStored` excepts compacted runs, and fails without that. An abort between "answered" and
    the commit leaves an announced answer unstored; `RunEnds` excepts aborted runs. A failover runs
    the tools of the first attempt again, except for turns with images. A tool answer kept for a
    stop of the loop survives a continuation and may replace a later session's text.
13. **Scripts** (`HookMemory`, `ScriptRaises` and the second alternative of `Fill`). A script that is
    registered for `memory.confirmed` and always returns a `write_memory` is awaited inside itself by the
    event that this announces (`hooks/runtime.py:227`), and nothing but Python's recursion limit
    ends that, a few hundred entries in `MEMORY.md` later. `CallsEnd` holds because of that limit and
    because the event is awaited. The `RecursionError`, like the `ValueError` of an action without
    its summary or body (`hooks/runtime.py:199`), is not a `HookScriptExecutionError` and goes up to the
    caller of `emit`, while `docs/HOOK_RUNTIME_GUIDE.md:339` has "script failures do not take down the
    primary agent run".

## What is proved

TLAPS checks these for every value of the constants: any number of requests, clients, sessions,
runs, items, jobs and calls, any capacity, any bound. Where a theorem assumes more, the list of
failures above shows why: without it the code does not keep the property. Every safety property but
`LosesOnly`, and the refinement, that a passing run checks is the statement of a theorem here.

**ChannelManager**

- `ChannelTypeCorrect`: `TypeOK`, whatever overlaps.
- `ChannelTasksTracked`: `RunningTaskTracked` and `NoStaleTask`, whatever overlaps, by the inductive
  `TaskInv`. Neither is inductive: `TaskInv` adds that a callback is queued only for a task that is
  done, that the task in the table has been created and not cancelled, that an unused task is not
  cancelled, and that the task of a request that has not answered yet is unused, so that scheduling
  never revives an old one.
- `ChannelStatusIsTrue`: `StatusIsTrue`, for any overlap and with start-up, of a handler that reports
  its loss (`Kind = "socket"`) and without the heartbeat, whose `reconnect()` reopens a handler in
  place. `StatusInv` says how each handler's own status and its link go together at each point of its
  attempt, that only a handler whose attempt is over is active, and that with none active
  "connected" is not said.
- `ChannelNoOrphanLink`, `ChannelDisabledMeansDown`: under `Serial`, that is one request at a time, no
  start-up, no heartbeat and no enable; findings 1 and 3 are what happens otherwise. `SerialInv` says
  what the one request may be doing where it is and what it knows of the row (`Errands`), that there
  is one connection or one task that may bring one up (`OneConnection`), that what is live under an
  inactive row is being stopped by a request that has not answered (`Justified`), and that a cancelled
  task is awaited by it (`Awaited`). The task, the network and the callbacks still interleave freely
  with the request.

**RunStream**

- `StreamTypeCorrect`: `TypeOK`, and with it that no queue outgrows its capacity.
- `StreamOutcome`: `TrueOutcome`, by `RunInv`, which adds `Evidence`: the flags `encountered_error` and
  `final_answer_committed` are those of the events already pushed. `Publish` is the only definition
  that extends the log, so the proof reduces to what each action publishes.
- `StreamTellsTruth`, `StreamForgetsNothing`, `StreamImplementsFeed`: `ToldTruth`, `NothingForgotten` and
  the refinement of `RunFeed`, under `Fits`: the events of a run and the four that the run service may add
  fit the buffer and, with the closing mark, a queue. The code's capacities are 100; a run of
  more events may overflow them,
  which is findings 4 and 5. `StreamInv` says how many events each place of the run can have published
  (`Short`), so that `Fits` means nothing is ever dropped; and of each client (`Served`) that what it
  has got is a prefix of the log and what it has not is its replay followed by its queue, without a
  gap. The refinement then maps each step to a step of the feed or to a stutter.

**AgentRun**

- `TypeCorrect`, `RunTellsOneVerdict`, `AnswerShownIsStored`: the types, `OneVerdict` and
  `ShownIsStored`. `Verdict` says at which points something has been told; it is needed because the
  exception handler goes by `answer_committed` alone. `Showing` says what the reader has been shown at
  each point: the heart of it is that a streamed text implies that no tool has been called in the
  turn (and none was required), so nothing can take the text's place. `TypeOK` needs `Verdict` too:
  the background task stores a text only when one is settled.

**SessionStore**

- `SessionTypeCorrect`: `TypeOK`, under any overlap.
- `CacheIsHonest`: `CacheHonest` under any overlap and any crashes, by `CacheInv`: versions are unique
  and never reused, what a cache entry or a finished read says of a version is what that version
  holds, and a read in progress looks at the transcript its stat was taken of.
- `RestartFindsAll`: `DiskCurrent`, with one writer at a time and any readers beside it
  (`Overlap # "all"`; finding 6). `SerialInv` says that the snapshot about to be saved is the cache, and
  that outside a save the cache is what a restart would read.
- `AnswersAreKept`: `AnsweredKept`, under the same condition, and with no crash inside the in-place
  rewrite (`~TornRewrite`; finding 7). `KeepInv` follows the writer: the transcript it holds in
  memory contains every answered turn of its session that is not in the archive, from the load to the
  write.

**TokenSlots**

- `TypeCorrect`, `SurplusIsExplained`, `NoSlotIsLost`, `ReadToTheEndIsBounded`: places taken and places
  free add up per instance, with one too many for each dropped failover and nothing else; when every
  stream is read to its end an instance serves no more runs than its limit. `NoSlotIsLost` assumes
  that no reader stops at an error event of the prepare phase.
- `RetriesElsewhere`: `RetryElsewhere`, by `RetryInv`: a token that was given back stays unhealthy, and the
  session is pinned to it again only when one of its runs has no healthy token left, because a
  selection comes to a failed token last.

**HookMemory**

- `TypeCorrect`, `LastDecisionIsShown`, `FilesAgree`, `OneDecision` (an item that no two calls found
  pending together is decided once, which no run checks): all from one invariant, whose point
  is that stamps are taken when a call enters the lock's queue, so snapshots are appended in the order
  of their times.
- `MemoryIsKept`: `MemoryKept`, however many updates overlap, by `Undisturbed`: an entry that is owed and
  not exposed (`Safe`) is in the file unless some call has cut it, and is in what each update that is
  about to write has read: all of the file from its second reading on (`SeenAll`), the preferences
  from the first, before the maintainer is asked (`SeenPreferences`).

**HeartbeatJobs**

- `TypeCorrect`: `TypeOK`, with it that no more jobs are at work than there are places.
- `AgentsWait`: no agent's turn is run before the time its last saved check asked for, through any
  number of restarts. `BackoffOutlivesARestart`: `NotBeforeItsTime`, of connections too, until the
  process has restarted twice (finding 10). `TimeInv` follows a promise: in memory once its user's
  file has been read (`InMemory`), on disk before (`OnDisk`); all agents are registered together, a
  connection only when it is active again, and only what is registered is saved (`Known`).

**Provisioning**

- `TypeCorrect`, `NothingIsHalfDone`, `ConnectionsAreExplained`, `OnlyAnOpenSessionCompletes`: from the
  invariant that a request between its claim and its commit holds the write lock over a row committed
  as open.

Assumptions: those named in the modules, and in `SessionStore` that every write changes mtime or size.

Only model-checked: `LosesOnly`, whose proof is the first item of the plan; and liveness, which with
its `ENABLED` is beyond the prover. That is
`LostLinkRecovers`, `ConnectingEnds`, `ClientLearns`, `AbortStops`, `RunEnds`, `RunsEnd`, `CallsEnd`,
`ChecksGoOn` and `TruthInTheEnd`.

## Not modelled

- Channels: HA ownership, WeCom's app and webhook modes, handlers without a long connection, the
  messages. A second stop of the same WeCom connection may raise `KeyError` (`channels/manager.py:573`).
- Runs: how a plan and a prompt are made, and the tests that classify a text, thousands of lines of
  sequential text processing whose outcomes are free choices in `AgentRun`; thinking events; runs
  refused before they start; the process's end (runs are kept in memory only); heartbeat comments of
  a stream and the removal of old streams. An exception that the handler itself raises is taken for
  a failed run; one raised while leaving the model session is modelled only after a committed
  answer.
- Sessions: reads and writes that fail (an unreadable index is replaced by the next save,
  `session/manager.py:271`), the values of the metadata, the archive's budget, the legacy migration,
  buffers flushed in several pieces.
- Slots: recovery of health from rate limit headers (no code records any), the saved health file
  (never read back).
- Hooks and memory: several handlers on one event, the event and context files, failing writes, recall.
- Heartbeat: targets and event payloads. Provisioning: the rows that pruning deletes (it is one more
  writer of the database that a request may wait for), user codes, the platforms' protocols.
- Session queue, gateway, inbound handler: built by tests or `main.py`, but on no running path.
- Everything else: see `PROJECT.json`, each with its reason.

## Plan

Done: the modules above. Next, in order:

1. Proofs under weaker conditions: `LosesOnly` for every capacity, which is checked for one; which
   overlaps `NoOrphanLink` survives; what of a session survives `Overlap = "all"` (at least
   the turn of the last to persist).
2. HA ownership (`core/ha_runtime.py`) in `ChannelManager`: two processes, one owner.
3. Failing I/O in `SessionStore` (`Merge` of an unreadable index, a save that raises after the cache
   has changed).
4. The plan of a turn (`runner_tool_gate*.py`) in place of the free choice of `Prepare`.

Runs are kept few: each asks a question no other asks, and one that gives way to a newer one stays
described under "What fails, and where".
