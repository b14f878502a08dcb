------------------------------ MODULE RunStream ------------------------------
(***************************************************************************)
(* One agent run: its entry in active_runs, the background coroutine that  *)
(* executes it (api/services/run_service.py), the abort route, and the SSE *)
(* stream that carries its events to clients (api/sse.py).                 *)
(*                                                                         *)
(* All of it runs on one asyncio event loop; a step is what happens        *)
(* between two awaits.  The agent runner itself is the environment: it     *)
(* yields any events in any order, raises, stops without a last event, or  *)
(* blocks for ever.  An event is its kind; its id is its index in log,     *)
(* which is the event_count StreamState.add_event numbers it with.         *)
(***************************************************************************)
EXTENDS Naturals, Sequences

CONSTANTS
  Clients,    \* readers of GET /agent/runs/{id}/stream
  MaxEvents,  \* bound of the model: events the runner yields
  Buffer,     \* StreamState keeps this many events: 100 in the code
  QueueCap    \* maxsize of a subscriber's queue: 100 in the code

ASSUME StreamAssumption ==
  /\ MaxEvents \in Nat
  /\ Buffer \in Nat \ {0}
  /\ QueueCap \in Nat \ {0}

VARIABLES
  status,    \* run_info["status"]
  signal,    \* abort_signal.is_set()
  exec,      \* where execute_agent_run is
  failed,    \* encountered_error
  committed, \* final_answer_committed
  log,       \* every event pushed to the stream, oldest first
  closed,    \* stream.closed
  conn,      \* per client: its connection
  replay,    \* per client: buffered events its generator has yet to send
  queue,     \* per client: its queue of new events
  late,      \* per client: was_closed_on_subscribe
  sent,      \* per client: sent_terminal_lifecycle
  got,       \* per client: ids it received, since it last started over
  told       \* per client: the terminal phase it was told, or Unknown

runVars == <<status, signal, exec, failed, committed>>
streamVars == <<log, closed>>
clientVars == <<conn, replay, queue, late, sent, got, told>>
vars == <<runVars, streamVars, clientVars>>

Outcomes == {"completed", "error", "timeout", "aborted"}
Phases == {"end", "error", "timeout", "aborted"}
Kinds == Phases \cup {"start", "data", "answered", "failure"}
Unknown == "running"
CloseMark == 0   \* the None close_stream puts on every queue

\* The lifecycle phase that announces an outcome.
Phase(outcome) == IF outcome = "completed" THEN "end" ELSE outcome
Outcome(phase) == IF phase = "end" THEN "completed" ELSE phase

Terminal(id) == log[id] \in Phases
Buffered == {id \in 1..Len(log) : id + Buffer > Len(log)}
\* Mutant of BufferedAfter: the window starts one event late.
BufferedAfterNext(id) ==
  LET from == IF Len(log) > Buffer THEN Len(log) - Buffer ELSE 0
      last == IF id > from THEN id ELSE from + 1
  IN [i \in 1..(Len(log) - last) |-> last + i]

\* The buffered events newer than id, in order.
BufferedAfter(id) ==
  LET from == IF Len(log) > Buffer THEN Len(log) - Buffer ELSE 0
      last == IF id > from THEN id ELSE from
  IN [i \in 1..(Len(log) - last) |-> last + i]

\* Mutant of Connected: the queue is registered after the replay.
LiveOnly(c) == conn[c] = "live"

LastGot(c) == IF got[c] = <<>> THEN 0 ELSE got[c][Len(got[c])]
\* A generator runs and its queue is among the stream's subscribers.
Connected(c) == conn[c] \in {"replaying", "live"}

Init ==
  /\ status = "running"
  /\ signal = FALSE
  /\ exec = "preparing"
  /\ failed = FALSE
  /\ committed = FALSE
  /\ log = <<>>
  /\ closed = FALSE
  /\ conn = [c \in Clients |-> "away"]
  /\ replay = [c \in Clients |-> <<>>]
  /\ queue = [c \in Clients |-> <<>>]
  /\ late = [c \in Clients |-> FALSE]
  /\ sent = [c \in Clients |-> FALSE]
  /\ got = [c \in Clients |-> <<>>]
  /\ told = [c \in Clients |-> Unknown]

(***************************************************************************)
(* The stream                                                              *)
(***************************************************************************)

\* put_nowait for each item in turn: a full queue drops it.
Offered(q, items) ==
  LET all == q \o items
  IN SubSeq(all, 1, IF Len(all) < QueueCap THEN Len(all) ELSE QueueCap)

\* push_event for each kind, then close_stream if last: no await in between.
\* The buffer forgets what falls out of its window; closing twice does nothing.
Publish(kinds, last) ==
  /\ log' = log \o kinds
  /\ closed' = (closed \/ last)
  /\ queue' = [c \in Clients |->
       LET ids == [i \in 1..Len(kinds) |-> Len(log) + i]
           mark == IF last /\ ~closed THEN <<CloseMark>> ELSE <<>>
       IN IF Connected(c) THEN Offered(queue[c], ids \o mark) ELSE queue[c]]
  /\ UNCHANGED <<conn, replay, late, sent, got, told>>

(***************************************************************************)
(* The run                                                                 *)
(***************************************************************************)

\* Mutant of Conclude: the phase is stored as the status.
ConcludePhase(outcome, before, last) ==
  IF status = "running"
  THEN status' = Phase(outcome) /\ Publish(Append(before, Phase(outcome)), last)
  ELSE status' = status /\ Publish(<<>>, last)

\* _transition_running_run, and the lifecycle event that goes with it: the
\* first terminal status stays.  before is pushed with it, when it succeeds.
Conclude(outcome, before, last) ==
  IF status = "running"
  THEN status' = outcome /\ Publish(Append(before, Phase(outcome)), last)
  ELSE status' = status /\ Publish(<<>>, last)

\* Mutant of Abort: the signal is not set.
AbortUnsignalled ==
  /\ status = "running"
  /\ signal' = signal
  /\ Conclude("aborted", <<>>, TRUE)
  /\ UNCHANGED <<exec, failed, committed>>

\* The abort route, while the run is running.
Abort ==
  /\ status = "running"
  /\ signal' = TRUE
  /\ Conclude("aborted", <<>>, TRUE)
  /\ UNCHANGED <<exec, failed, committed>>

\* Attachments and history are resolved; older images may draw a warning.
BeginIterating ==
  /\ exec = "preparing"
  /\ exec' = "iterating"
  /\ Publish(<<>>, FALSE) \/ Publish(<<"data">>, FALSE)
  /\ UNCHANGED <<status, signal, failed, committed>>

\* The model takes no images: the answer is fixed, and the run over.  The two
\* appends to the transcript suspend, so the run may be aborted meanwhile.
StaticAnswer ==
  /\ exec = "preparing"
  /\ exec' = "done"
  /\ Conclude("completed", <<"start", "data", "answered">>, TRUE)
  /\ UNCHANGED <<signal, failed, committed>>

Yields == exec = "iterating" /\ Len(log) < MaxEvents

\* lifecycle start: shown only while the run is running.
YieldStart ==
  /\ Yields
  /\ status = "running"
  /\ Publish(<<"start">>, FALSE)
  /\ UNCHANGED runVars

\* Assistant text, thinking, tool and runtime events: no check of the status.
YieldData ==
  /\ Yields
  /\ Publish(<<"data">>, FALSE)
  /\ UNCHANGED runVars

\* An error event, or the runtime state "failed".
YieldFailure ==
  /\ Yields
  /\ failed' = TRUE
  /\ Publish(<<"failure">>, FALSE)
  /\ UNCHANGED <<status, signal, exec, committed>>

\* The runtime state "answered" with "Final answer ready."
YieldAnswered ==
  /\ Yields
  /\ committed' = TRUE
  /\ Publish(<<"answered">>, FALSE)
  /\ UNCHANGED <<status, signal, exec, failed>>

\* Mutant of Verdict: the committed final answer is enough.
VerdictCommitted == IF ~committed THEN "error" ELSE "completed"

\* What a run without a terminal event is taken to be.
Verdict == IF failed \/ ~committed THEN "error" ELSE "completed"

\* lifecycle end, and the break that leaves the loop.
YieldEnd ==
  /\ Yields
  /\ exec' = "closing"
  /\ Conclude(Verdict, <<>>, FALSE)
  /\ UNCHANGED <<signal, failed, committed>>

\* The iterator ends without a lifecycle event.
Exhausted ==
  /\ exec = "iterating"
  /\ exec' = "closing"
  /\ UNCHANGED <<status, signal, failed, committed, streamVars, clientVars>>

\* _iterate_until_aborted: the watcher cancels the execution, and the
\* cancellation ends the loop; or the runner sees the signal first and yields
\* lifecycle aborted, and abort_run finds nothing left to do.
StopOnAbort ==
  /\ exec = "iterating"
  /\ signal
  /\ exec' = "closing"
  /\ UNCHANGED <<status, signal, failed, committed, streamVars, clientVars>>

\* The runner raises; the generators around it are closed, which suspends.
RunnerRaises ==
  /\ exec = "iterating"
  /\ exec' = "raising"
  /\ UNCHANGED <<status, signal, failed, committed, streamVars, clientVars>>

\* The generators are closed: the verdict if the loop left none, close_stream.
Finish ==
  /\ exec = "closing"
  /\ exec' = "done"
  /\ Conclude(Verdict, <<>>, TRUE)
  /\ UNCHANGED <<signal, failed, committed>>

\* The except clauses, for what the preparation or the runner raised.
HandleException(outcome) ==
  /\ exec \in {"preparing", "raising"}
  /\ exec' = "done"
  /\ Conclude(outcome, <<"failure">>, TRUE)
  /\ UNCHANGED <<signal, failed, committed>>

(***************************************************************************)
(* The clients                                                             *)
(***************************************************************************)

\* _event_generator up to its first yield: the queue is registered and the
\* missed events are taken in one step.  A client that has received an event
\* sends its id as Last-Event-ID; a known id resumes after it, an id that is no
\* longer buffered matches nothing.
Subscribe(c) ==
  LET last == LastGot(c)
      known == last \in Buffered
      acknowledged == known /\ \E id \in Buffered : id <= last /\ Terminal(id)
  IN
  /\ conn[c] = "away"
  /\ conn' = [conn EXCEPT ![c] = "replaying"]
  /\ queue' = [queue EXCEPT ![c] = <<>>]
  /\ late' = [late EXCEPT ![c] = closed]
  /\ sent' = [sent EXCEPT ![c] = acknowledged]
  /\ replay' = [replay EXCEPT ![c] = IF last = 0 \/ known THEN BufferedAfter(last) ELSE <<>>]
  /\ UNCHANGED <<runVars, streamVars, got, told>>

\* An event reaches the client; it reads a terminal phase off it.
Receive(c, id) ==
  /\ got' = [got EXCEPT ![c] = Append(@, id)]
  /\ sent' = [sent EXCEPT ![c] = @ \/ Terminal(id)]
  /\ told' = [told EXCEPT ![c] = IF Terminal(id) THEN Outcome(log[id]) ELSE @]

\* Mutant of Leave: the made-up event does not depend on what was sent.
LeaveAlways(c, phase) ==
  /\ conn' = [conn EXCEPT ![c] = "away"]
  /\ replay' = [replay EXCEPT ![c] = <<>>]
  /\ queue' = [queue EXCEPT ![c] = <<>>]
  /\ told' = [told EXCEPT ![c] = Outcome(phase)]
  /\ UNCHANGED <<late, sent, got>>

\* The generator returns; if it sent no terminal event it makes one up.
Leave(c, phase) ==
  /\ conn' = [conn EXCEPT ![c] = "away"]
  /\ replay' = [replay EXCEPT ![c] = <<>>]
  /\ queue' = [queue EXCEPT ![c] = <<>>]
  /\ told' = [told EXCEPT ![c] = IF sent[c] THEN @ ELSE Outcome(phase)]
  /\ UNCHANGED <<late, sent, got>>

SendReplay(c) ==
  /\ conn[c] = "replaying"
  /\ replay[c] # <<>>
  /\ Receive(c, Head(replay[c]))
  /\ replay' = [replay EXCEPT ![c] = Tail(@)]
  /\ UNCHANGED <<runVars, streamVars, conn, queue, late>>

GoLive(c) ==
  /\ conn[c] = "replaying"
  /\ replay[c] = <<>>
  /\ ~late[c]
  /\ conn' = [conn EXCEPT ![c] = "live"]
  /\ UNCHANGED <<runVars, streamVars, replay, queue, late, sent, got, told>>

EndReplay(c) ==
  /\ conn[c] = "replaying"
  /\ replay[c] = <<>>
  /\ late[c]
  /\ Leave(c, "end")
  /\ UNCHANGED <<runVars, streamVars>>

SendQueued(c) ==
  /\ conn[c] = "live"
  /\ queue[c] # <<>>
  /\ Head(queue[c]) # CloseMark
  /\ Receive(c, Head(queue[c]))
  /\ queue' = [queue EXCEPT ![c] = Tail(@)]
  /\ UNCHANGED <<runVars, streamVars, conn, replay, late>>

SeeClosed(c) ==
  /\ conn[c] = "live"
  /\ queue[c] # <<>>
  /\ Head(queue[c]) = CloseMark
  /\ Leave(c, "end")
  /\ UNCHANGED <<runVars, streamVars>>

\* Mutant of StreamTimeout: only an open stream times out.
StreamTimeoutOpen(c) ==
  /\ conn[c] = "live"
  /\ queue[c] = <<>>
  /\ exec = "done"
  /\ ~closed
  /\ conn' = [conn EXCEPT ![c] = "away"]
  /\ told' = [told EXCEPT ![c] = "timeout"]
  /\ UNCHANGED <<runVars, streamVars, replay, queue, late, sent, got>>

\* An hour (stream_timeout) on one connection: taken to outlast the run and
\* whatever is queued, so it is all a client whose queue lost the mark has.
StreamTimeout(c) ==
  /\ conn[c] = "live"
  /\ queue[c] = <<>>
  /\ exec = "done"
  /\ conn' = [conn EXCEPT ![c] = "away"]
  /\ told' = [told EXCEPT ![c] = "timeout"]
  /\ UNCHANGED <<runVars, streamVars, replay, queue, late, sent, got>>

\* The connection drops, or the client closes it.
Drop(c) ==
  /\ Connected(c)
  /\ conn' = [conn EXCEPT ![c] = "away"]
  /\ replay' = [replay EXCEPT ![c] = <<>>]
  /\ queue' = [queue EXCEPT ![c] = <<>>]
  /\ UNCHANGED <<runVars, streamVars, late, sent, got, told>>

\* The page is reloaded: the next connection has no Last-Event-ID.
Reload(c) ==
  /\ conn[c] = "away"
  /\ got[c] # <<>>
  /\ got' = [got EXCEPT ![c] = <<>>]
  /\ told' = [told EXCEPT ![c] = Unknown]
  /\ UNCHANGED <<runVars, streamVars, conn, replay, queue, late, sent>>

Execute ==
  \/ BeginIterating \/ StaticAnswer
  \/ YieldStart \/ YieldData \/ YieldFailure \/ YieldAnswered \/ YieldEnd
  \/ Exhausted \/ StopOnAbort \/ RunnerRaises \/ Finish
  \/ \E o \in {"error", "timeout"} : HandleException(o)

Serve(c) ==
  \/ SendReplay(c) \/ GoLive(c) \/ EndReplay(c)
  \/ SendQueued(c) \/ SeeClosed(c) \/ StreamTimeout(c)

Next ==
  \/ Abort
  \/ Execute
  \/ \E c \in Clients : Subscribe(c) \/ Serve(c) \/ Drop(c) \/ Reload(c)

Spec == Init /\ [][Next]_vars

\* The coroutine and the generators are scheduled; the runner may block.
Fairness ==
  /\ WF_vars(BeginIterating \/ StaticAnswer)
  /\ WF_vars(StopOnAbort)
  /\ WF_vars(Finish)
  /\ WF_vars(HandleException("error"))
  /\ \A c \in Clients : WF_vars(Serve(c))

FairSpec == Spec /\ Fairness

(***************************************************************************)
(* Properties                                                              *)
(***************************************************************************)

RunTypeOK ==
  /\ status \in Outcomes \cup {"running"}
  /\ signal \in BOOLEAN
  /\ exec \in {"preparing", "iterating", "raising", "closing", "done"}
  /\ failed \in BOOLEAN
  /\ committed \in BOOLEAN

StreamTypeOK ==
  /\ log \in Seq(Kinds)
  /\ closed \in BOOLEAN
  /\ conn \in [Clients -> {"away", "replaying", "live"}]
  /\ replay \in [Clients -> Seq(Nat)]
  /\ queue \in [Clients -> Seq(Nat)]
  /\ \A c \in Clients : Len(queue[c]) <= QueueCap
  /\ late \in [Clients -> BOOLEAN]
  /\ sent \in [Clients -> BOOLEAN]
  /\ got \in [Clients -> Seq(Nat)]
  /\ told \in [Clients -> Outcomes \cup {Unknown}]

\* Every variable has its type, and no queue exceeds its capacity.
TypeOK == RunTypeOK /\ StreamTypeOK

\* The stream says once how the run ended, and says what the status says,
\* whichever of the abort route, the runner, an exception and the end of the
\* coroutine came first (_transition_running_run).
OneOutcome ==
  LET last == {id \in 1..Len(log) : Terminal(id)}
  IN IF status = "running" THEN last = {}
     ELSE \E id \in last : last = {id} /\ log[id] = Phase(status)

\* A run that is "completed" showed its final answer and no failure before the
\* event that ends it (encountered_error, final_answer_committed).
CompletedMeansAnswered ==
  \A id \in 1..Len(log) : log[id] = "end" =>
    /\ \E i \in 1..(id - 1) : log[i] = "answered"
    /\ \A i \in 1..(id - 1) : log[i] # "failure"

\* Both: a client is told one outcome, the true one, and told that the run is
\* completed only when it was answered without a failure.
TrueOutcome == OneOutcome /\ CompletedMeansAnswered

\* What the stream still buffers and a connected client has not received is on
\* its way to it: nothing falls between the replay and the queue, and a client
\* that resumes gets what it missed.
NothingForgotten ==
  \A c \in Clients : Connected(c) =>
    \A id \in Buffered : id > LastGot(c) =>
      \/ \E i \in 1..Len(replay[c]) : replay[c][i] = id
      \/ \E i \in 1..Len(queue[c]) : queue[c][i] = id

\* What a client is told of the end of the run is how the run ended, also when
\* the generator makes up the terminal event.
ToldTruth == \A c \in Clients : told[c] \in {Unknown, status}

\* A full queue and a buffer that has moved on lose events, and do nothing worse:
\* no client gets an event twice or out of order, over any number of connections,
\* and a connection that has sent the terminal event, or whose client had it
\* before, ends with no other outcome than that or the timeout.
LosesOnly ==
  \A c \in Clients :
    /\ \A i, j \in 1..Len(got[c]) : i < j => got[c][i] < got[c][j]
    /\ sent[c] => told[c] \in {Unknown, status, "timeout"}

\* The stream and its clients implement the feed of RunFeed.
Feed == INSTANCE RunFeed WITH
  Readers <- Clients, Running <- Unknown, outcome <- status, length <- Len(log),
  position <- [c \in Clients |-> LastGot(c)]
ImplementsFeed == Feed!FeedSpec

\* A client that stays connected learns that the run is over, even when its
\* queue was full at the end and lost both the event and the mark.
ClientLearns ==
  \A c \in Clients : (status # "running" /\ Connected(c)) ~>
    (told[c] # Unknown \/ ~Connected(c))

\* An aborted run stops executing, even if its runner would block for ever
\* (the abort signal cancels the execution).
AbortStops == status = "aborted" ~> exec = "done"
=============================================================================
