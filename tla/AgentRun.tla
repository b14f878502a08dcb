------------------------------ MODULE AgentRun ------------------------------
(***************************************************************************)
(* One agent run: the generator AgentRunner.run (runner_tool/              *)
(* runner_execution_*.py), from the plan of the turn through the loop over *)
(* the model's responses, the choice of the final text, its showing and    *)
(* storing, to the verdict the reader is told, with the ways out of it:    *)
(* exceptions anywhere, a second attempt on another token, an abort, a     *)
(* reader that leaves at the first error.                                  *)
(*                                                                         *)
(* The record `state` is the phase_state of the current attempt: a second  *)
(* attempt is a nested run with a state of its own, after which the outer  *)
(* one only ends.  Texts are abstracted to the classes the code tells      *)
(* apart; what a model, a tool, a hook or the disk does is free.           *)
(***************************************************************************)
EXTENDS Naturals, Sequences

CONSTANTS
    MaxRequests,       \* model requests of one model session (pydantic-ai)
    MaxToolCalls,      \* max_tool_calls
    RetryLimit,        \* REASONING_ONLY_MAX_RETRIES
    MaxContinuations,  \* _MAX_SINGLE_CHOICE_CONTINUATIONS
    MaxFailovers       \* TOKEN_FAILOVER_MAX_ATTEMPTS within the pool

ASSUME LimitAssumption ==
    /\ MaxRequests \in Nat \ {0}
    /\ MaxToolCalls \in Nat
    /\ RetryLimit \in Nat
    /\ MaxContinuations \in Nat
    /\ MaxFailovers \in Nat

\* What a model may say: a usable answer, text that looks like a tool call,
\* a listing copied from a lookup, a tool's raw payload.
Sayings == {"answer", "markup", "lookup", "payload"}

\* What a run may end with besides: an answer built from tool results, one
\* the model was asked for again, one of the program's own.
Texts == Sayings \cup {"tool", "recovered", "canned"}

None == "none"

VARIABLES
    pc,        \* where the run stands
    reader,    \* who reads the events
    images,    \* the turn carries images
    attempt,   \* _token_failover_attempt of the current attempt
    state,     \* phase_state of the current attempt
    shown,     \* assistant texts of the current attempt the reader has got
    answered,  \* "answered" events so far
    failed,    \* "failed" events so far
    ended,     \* the lifecycle end event has been emitted
    effects,   \* the background task that follows an answer
    kept,      \* what the transcript holds for this turn
    aborted,   \* deps.abort_signal
    toolSeen   \* deps.extra["_chat_tool_started"]

vars == <<pc, reader, images, attempt, state, shown, answered, failed, ended,
          effects, kept, aborted, toolSeen>>

\* "web" (run_service) cancels the run once it is aborted; "channel"
\* (channels/manager, the heartbeat executor) leaves at the first error event.
Readers == {"web", "channel"}

\* "nodes": between two responses of the model; "session": a model session is
\* over; "show": the final text is settled; "leave": the answer is committed;
\* "raised": in the exception handler; "finish": in the finalize phase.
Points == {"prepare", "nodes", "session", "show", "announce", "commit",
           "failing", "leave", "raised", "finish", "done"}

\* "missed": persist_transcript raised and the turn is not in the transcript.
Keepings == Texts \cup {"nothing", "empty", "missed"}

States == [
    required:   BOOLEAN,             \* tool_execution_required
    tools:      BOOLEAN,             \* available_tools is not empty
    canned:     BOOLEAN,             \* no plan, or no capability for it
    requests:   0..MaxRequests,      \* model requests of this session
    calls:      Nat,                 \* tool_calls_count
    retries:    0..RetryLimit,       \* reasoning_retry_count
    sessions:   0..MaxContinuations, \* continuation_index
    summaries:  BOOLEAN,             \* tool_call_summaries is not empty
    executed:   BOOLEAN,             \* tools have run and left their results
    choice:     BOOLEAN,             \* an unconsumed result offers one choice
    compacted:  BOOLEAN,             \* persist_override_messages is set
    said:       Sayings \cup {None}, \* the session's last text without calls
    buffered:   Sayings \cup {None}, \* buffered_assistant_events
    streamed:   BOOLEAN,             \* assistant_output_streamed
    force:      BOOLEAN,             \* force_tool_only_finalize
    override:   {None, "tool"},      \* tool_only_answer_override
    final:      Texts \cup {None},   \* final_assistant
    unproven:   BOOLEAN,             \* should_fail_for_missing_evidence
    committed:  BOOLEAN,             \* answer_committed
    hard:       BOOLEAN ]            \* _is_hard_token_failure of the exception

TypeOK ==
    /\ pc \in Points
    /\ reader \in Readers /\ images \in BOOLEAN
    /\ attempt \in 0..MaxFailovers
    /\ state \in States
    /\ shown \in Seq(Texts)
    /\ answered \in Nat /\ failed \in Nat /\ ended \in BOOLEAN
    /\ effects \in {"none", "running", "over"}
    /\ kept \in Keepings
    /\ aborted \in BOOLEAN /\ toolSeen \in BOOLEAN

Fresh == [required |-> FALSE, tools |-> FALSE, canned |-> FALSE,
          requests |-> 0, calls |-> 0, retries |-> 0, sessions |-> 0,
          summaries |-> FALSE, executed |-> FALSE, choice |-> FALSE,
          compacted |-> FALSE, said |-> None, buffered |-> None,
          streamed |-> FALSE, force |-> FALSE, override |-> None,
          final |-> None, unproven |-> FALSE, committed |-> FALSE,
          hard |-> FALSE]

Init ==
    /\ pc = "prepare"
    /\ reader \in Readers
    /\ images \in {i \in BOOLEAN : i => reader = "web"}
    /\ attempt = 0
    /\ state = Fresh
    /\ shown = <<>>
    /\ answered = 0 /\ failed = 0 /\ ended = FALSE
    /\ effects = "none"
    /\ kept = "nothing"
    /\ aborted = FALSE /\ toolSeen = FALSE

Told == <<answered, failed, ended>>
Outside == <<reader, images, aborted>>

\* The failed and error events are out; a channel's reader leaves on them.
TellFailure(next) ==
    /\ failed' = failed + 1
    /\ pc' = IF reader = "channel" THEN "done" ELSE next
    /\ UNCHANGED <<answered, ended>>

\* A run that stops without its finalize phase emits no end event, but when
\* it is nested the outermost run does.
Stopped == IF attempt = 0 THEN "done" ELSE "finish"

-----------------------------------------------------------------------------
(* The prepare phase *)

\* The turn has a plan: tools it must use or may use, or none.  The program
\* answers by itself only when no tools are left.
Prepare ==
    /\ pc = "prepare"
    /\ \E required, tools, canned \in BOOLEAN :
        /\ required => tools
        /\ canned => ~tools
        /\ state' = [state EXCEPT !.required = required, !.tools = tools,
                                  !.canned = canned]
    /\ pc' = "nodes"
    /\ UNCHANGED <<attempt, shown, Told, effects, kept, toolSeen, Outside>>

\* The context window is too small, the turn needs tools and none remained,
\* or the phase raises.
CannotPrepare ==
    /\ pc = "prepare"
    /\ TellFailure(Stopped)
    /\ UNCHANGED <<attempt, state, shown, effects, kept, toolSeen, Outside>>

-----------------------------------------------------------------------------
(* The loop over the model's responses *)

\* At any response the history may have grown too long: it is replaced by a
\* summary, which the turn's messages then follow.
Responded(compacts) ==
    [state EXCEPT !.requests = @ + 1, !.compacted = @ \/ compacts]

Responding == pc = "nodes" /\ state.requests < MaxRequests

\* Mutant of Buffered: a turn without tools streams its draft.
BufferedForTools == state.required \/ state.summaries

\* Whether a text without tool calls is kept back until the run has settled
\* what the answer is.
Buffered == state.required \/ state.summaries \/ ~state.tools

\* The model answers in plain text, and its session is over.
SayText ==
    /\ Responding
    /\ \E text \in Sayings, compacts \in BOOLEAN :
        IF Buffered
        THEN /\ state' = [Responded(compacts) EXCEPT !.said = text,
                                                     !.buffered = text]
             /\ UNCHANGED shown
        ELSE /\ state' = [Responded(compacts) EXCEPT !.said = text,
                                                     !.streamed = TRUE]
             /\ shown' = Append(shown, text)
    /\ pc' = "session"
    /\ UNCHANGED <<attempt, Told, effects, kept, toolSeen, Outside>>

\* The text holds a tool call that could be parsed: it counts as a planned
\* call, is not executed, and ends the loop.
SayMarkup ==
    /\ Responding
    /\ \E compacts \in BOOLEAN :
        state' = [Responded(compacts) EXCEPT !.said = "markup",
                                             !.buffered = "markup",
                                             !.summaries = TRUE]
    /\ pc' = "session"
    /\ UNCHANGED <<attempt, shown, Told, effects, kept, toolSeen, Outside>>

\* What a stop of the tool loop leaves for the outcome: nothing, or the last
\* tool's result as the answer, an earlier one being forgotten.
Stash(s, answer) == [s EXCEPT !.override = answer, !.force = answer # None]

\* A call over the same-tool limit of the policy: the tools have run, but
\* their events are not told, their results may not be seen any more, and the
\* loop stops.
RepeatTool ==
    /\ Responding /\ state.tools
    /\ \E compacts, seen \in BOOLEAN, text \in {None, "answer"},
          answer \in {None, "tool"} :
        state' = Stash([Responded(compacts) EXCEPT
                            !.summaries = TRUE, !.executed = @ \/ seen,
                            !.buffered = IF text = None THEN @ ELSE text],
                       answer)
    /\ pc' = "session"
    /\ UNCHANGED <<attempt, shown, Told, effects, kept, toolSeen, Outside>>

\* Tools have run, with or without a text beside their calls.
Used(choice, compacts, text) ==
    [Responded(compacts) EXCEPT
        !.calls = @ + 1, !.summaries = TRUE, !.executed = TRUE,
        !.choice = choice, !.buffered = IF text = None THEN @ ELSE text]

\* The loop goes on, or stops because the results answer the turn, or fail
\* again and again, or bring nothing new.
AfterTools(used, stop, answer) ==
    CASE stop = "no" -> used
      [] stop = "enough" -> [used EXCEPT !.override = answer, !.force = TRUE]
      [] stop = "stuck" -> Stash(used, answer)

\* The tools' events are told, or beyond max_tool_calls an error in their
\* place, on which a channel's reader leaves.
UseTools ==
    /\ Responding /\ state.tools
    /\ \E choice, compacts \in BOOLEAN, text \in {None, "answer"},
          answer \in {None, "tool"}, stop \in {"no", "enough", "stuck"} :
        LET over == state.calls + 1 > MaxToolCalls
        IN  /\ state' = AfterTools(Used(choice, compacts, text), stop, answer)
            /\ stop = "no" => answer = None
            /\ toolSeen' = (toolSeen \/ (images /\ ~over))
            /\ pc' = IF over /\ reader = "channel" THEN "done"
                     ELSE IF stop = "no" THEN "nodes" ELSE "session"
    /\ UNCHANGED <<attempt, shown, Told, effects, kept, Outside>>

\* Mutant of Retries: one more than is configured.
RetriesOneMore == RetryLimit + 1

\* A turn that must use tools gets one retry.
Retries ==
    IF state.required /\ RetryLimit > 1 THEN 1 ELSE RetryLimit

\* The model thought and said nothing: it is asked again, up to a limit,
\* after which the session is over or the run fails.
ThinkOnly ==
    /\ Responding
    /\ \E compacts \in BOOLEAN :
        IF state.retries < Retries
        THEN /\ state' = [Responded(compacts) EXCEPT !.retries = @ + 1]
             /\ pc' = "nodes"
        ELSE /\ state' = [Responded(compacts) EXCEPT !.hard = FALSE]
             /\ pc' = IF state.required THEN "session" ELSE "raised"
    /\ UNCHANGED <<attempt, shown, Told, effects, kept, toolSeen, Outside>>

\* The model, a tool, a hook or a compaction raises; tools of the response
\* may have run.  The model session raises also at its request limit.
Raise ==
    /\ pc = "nodes"
    /\ \E hard, ran \in BOOLEAN :
        /\ ran => state.tools
        /\ state' = [state EXCEPT !.hard = hard, !.executed = @ \/ ran]
    /\ pc' = "raised"
    /\ UNCHANGED <<attempt, shown, Told, effects, kept, toolSeen, Outside>>

\* The turn's last text asks the user to choose, be it an earlier session's,
\* and its last result, read-only and not used so before, has one candidate.
OnlyChoice == state.choice /\ (state.said = "answer" \/ state.sessions > 0)

\* The run makes the only choice itself, in a new session.  A stashed tool
\* answer is not forgotten.
Continue ==
    /\ pc = "session"
    /\ state.sessions < MaxContinuations
    /\ ~state.compacted /\ OnlyChoice
    /\ state' = [state EXCEPT !.sessions = @ + 1, !.requests = 0,
                              !.choice = FALSE, !.said = None,
                              !.buffered = None, !.streamed = FALSE]
    /\ pc' = "nodes"
    /\ UNCHANGED <<attempt, shown, Told, effects, kept, toolSeen, Outside>>

-----------------------------------------------------------------------------
(* The outcome of the last session *)

\* The text found in the turn's messages.  After a compaction they are looked
\* for where they stood before it, and may not be found.
Found == IF state.compacted THEN {None, state.said} ELSE {state.said}

\* What was held back is shown after all when nothing else was found.
Flushes(found) ==
    found = None /\ state.buffered # None /\ ~state.summaries

\* Another answer is asked for in place of markup that no tool can stand for
\* and of a listing of silent lookups; when that brings none the text stays.
Regenerated(text) ==
    IF \/ text = "markup" /\ ~state.required /\ ~state.tools
       \/ text = "lookup" /\ state.executed
    THEN {text, "recovered"} ELSE {text}

\* An answer made of the tools' results, which may be unfit for one.
Built == IF state.executed THEN {None, "tool"} ELSE {None}

\* A tool's answer takes the place of the model's when the loop stopped on it.
Forced(text, built) ==
    LET tool == IF state.override # None THEN state.override ELSE built
    IN  IF state.force /\ tool # None THEN tool ELSE text

\* A call was written instead of made.
Written(text) == text = "markup" /\ state.tools /\ ~state.executed

\* The final text is settled, and whether it may be shown: not when an
\* artifact or an authorisation is missing, when a tool call was written, when
\* required tools have not run and there is no text.
Settle ==
    /\ pc = "session"
    /\ \E found \in Found, built \in Built, missing \in BOOLEAN :
        LET text == IF Flushes(found) THEN state.buffered ELSE found
            own == IF state.canned THEN "canned" ELSE Forced(text, built)
        IN  /\ \E told \in Regenerated(own) :
                LET final == IF told = "payload" \/ Written(told)
                             THEN None ELSE told
                IN  state' = [state EXCEPT
                        !.final = final,
                        !.unproven = \/ missing \/ Written(told)
                                     \/ /\ state.required /\ final = None
                                        /\ ~state.executed,
                        !.buffered = None,
                        !.streamed = @ \/ Flushes(found)]
            /\ shown' = IF Flushes(found) THEN Append(shown, text) ELSE shown
    /\ pc' = "show"
    /\ UNCHANGED <<attempt, Told, effects, kept, toolSeen, Outside>>

\* Text is shown unless the attempt has already streamed one.
Show(text) ==
    /\ shown' = IF state.streamed THEN shown ELSE Append(shown, text)
    /\ state' = [state EXCEPT !.final = text, !.streamed = TRUE]
    /\ pc' = "announce"
    /\ UNCHANGED <<attempt, Told, effects, kept, toolSeen, Outside>>

\* The final text is shown, or when it is empty one built from the results.
ShowFinal ==
    /\ pc = "show" /\ ~state.unproven
    /\ \/ state.final # None /\ Show(state.final)
       \/ state.final = None /\ "tool" \in Built /\ Show("tool")

\* The model is asked to tell the user that nothing has been executed.
ShowRecovery ==
    /\ pc = "show" /\ state.unproven
    /\ state.required /\ ~state.executed
    /\ Show("recovered")

\* Nothing to show, or nothing that may be.
NoAnswer ==
    /\ pc = "show"
    /\ state.unproven \/ state.final = None
    /\ pc' = "failing"
    /\ UNCHANGED <<attempt, state, shown, Told, effects, kept, toolSeen,
                   Outside>>

\* "Final answer ready."  The reader has it before the run goes on.
Announce ==
    /\ pc = "announce"
    /\ answered' = answered + 1
    /\ pc' = "commit"
    /\ UNCHANGED <<attempt, state, shown, failed, ended, effects, kept,
                   toolSeen, Outside>>

\* The answer is committed and the task that stores it is started.
Commit ==
    /\ pc = "commit"
    /\ state' = [state EXCEPT !.committed = TRUE]
    /\ effects' = "running"
    /\ pc' = "leave"
    /\ UNCHANGED <<attempt, shown, Told, kept, toolSeen, Outside>>

\* _run_post_success_side_effects: what it raises is logged.
StoreAnswer ==
    /\ effects = "running"
    /\ kept' \in {state.final, "missed"}
    /\ effects' = "over"
    /\ UNCHANGED <<pc, attempt, state, shown, Told, toolSeen, Outside>>

\* The turn is stored without an answer and told to have failed, unless the
\* transcript or a hook raises first.
FailTurn ==
    /\ pc = "failing"
    /\ kept' = "empty"
    /\ TellFailure("finish")
    /\ UNCHANGED <<attempt, state, shown, effects, toolSeen, Outside>>

FailTurnRaises ==
    /\ pc = "failing"
    /\ \E hard \in BOOLEAN : state' = [state EXCEPT !.hard = hard]
    /\ kept' \in {kept, "empty"}
    /\ pc' = "raised"
    /\ UNCHANGED <<attempt, shown, Told, effects, toolSeen, Outside>>

\* The model session is closed, which may raise.
LeaveSession ==
    /\ pc = "leave"
    /\ \/ pc' = "finish" /\ UNCHANGED state
       \/ /\ pc' = "raised"
          /\ \E hard \in BOOLEAN : state' = [state EXCEPT !.hard = hard]
    /\ UNCHANGED <<attempt, shown, Told, effects, kept, toolSeen, Outside>>

-----------------------------------------------------------------------------
(* Exceptions of the loop phase *)

\* An answer has been committed: what failed came after it.
Overlook ==
    /\ pc = "raised" /\ state.committed
    /\ pc' = "finish"
    /\ UNCHANGED <<attempt, state, shown, Told, effects, kept, toolSeen,
                   Outside>>

\* Mutant of Recovering: a committed answer does not stop the handler.
RecoveringAgain == pc = "raised"

Recovering == pc = "raised" /\ ~state.committed

\* Tools have run and their results make an answer.
AnswerFromTools ==
    /\ Recovering /\ state.executed
    /\ shown' = Append(shown, "tool")
    /\ state' = [state EXCEPT !.final = "tool", !.committed = TRUE,
                              !.streamed = TRUE]
    /\ kept' \in {"tool", "missed"}
    /\ answered' = answered + 1
    /\ pc' = "finish"
    /\ UNCHANGED <<attempt, failed, ended, effects, toolSeen, Outside>>

\* Mutant of NextAttempt: the nested run is told it is the first.
NextAttemptForgotten == attempt

NextAttempt == attempt + 1

\* The token is to blame and another one is found: the run runs itself once
\* more, unless a tool has been started for a turn with images.
FailOver ==
    /\ Recovering /\ state.hard
    /\ attempt < MaxFailovers /\ ~toolSeen
    /\ attempt' = NextAttempt
    /\ state' = Fresh
    /\ shown' = <<>>
    /\ pc' = "prepare"
    /\ UNCHANGED <<Told, effects, kept, toolSeen, Outside>>

\* The run has failed; a hook that raises here keeps it from its end event.
FailRun ==
    /\ Recovering
    /\ TellFailure("finish") \/ TellFailure(Stopped)
    /\ UNCHANGED <<attempt, state, shown, effects, kept, toolSeen, Outside>>

-----------------------------------------------------------------------------
(* The end of the run, and its reader *)

\* The outermost run announces the end.
Finish ==
    /\ pc = "finish"
    /\ ended' = TRUE
    /\ pc' = "done"
    /\ UNCHANGED <<attempt, state, shown, answered, failed, effects, kept,
                   toolSeen, Outside>>

Abort ==
    /\ reader = "web" /\ pc # "done" /\ ~aborted
    /\ aborted' = TRUE
    /\ UNCHANGED <<pc, reader, images, attempt, state, shown, Told, effects,
                   kept, toolSeen>>

\* The reader's task is cancelled, or meets the aborted event of the loop,
\* and closes the run where it stands.
Close ==
    /\ aborted /\ pc # "done"
    /\ pc' = "done"
    /\ UNCHANGED <<attempt, state, shown, Told, effects, kept, toolSeen,
                   Outside>>

Loop == SayText \/ SayMarkup \/ RepeatTool \/ UseTools \/ ThinkOnly \/ Raise
        \/ Continue

Outcome == Settle \/ ShowFinal \/ ShowRecovery \/ NoAnswer \/ Announce
           \/ Commit \/ FailTurn \/ FailTurnRaises \/ LeaveSession

Handler == Overlook \/ AnswerFromTools \/ FailOver \/ FailRun

Step == Prepare \/ CannotPrepare \/ Loop \/ Outcome \/ Handler \/ Finish

Next == Step \/ StoreAnswer \/ Abort \/ Close

\* The model, its tools, the hooks and the disk answer or raise; an aborted
\* run is cancelled.
Fairness == WF_vars(Step) /\ WF_vars(StoreAnswer) /\ WF_vars(Close)

Spec == Init /\ [][Next]_vars /\ Fairness

-----------------------------------------------------------------------------
(* Properties *)

\* Once a run has told that its answer is ready, the reader has been shown
\* exactly one text in this attempt and no other text is ever stored for the
\* turn, whatever was streamed, held back, rewritten, replaced by a tool's
\* answer or rescued by the exception handler.  (Unless the history was
\* compacted under the run, see the README.)
ShownIsStored ==
    answered > 0 /\ ~state.compacted =>
        /\ shown = <<state.final>>
        /\ kept \in {state.final, "nothing", "empty", "missed"}

\* Over all attempts and whatever raises where, a run tells one verdict:
\* answered or failed, once; and it does not go on after its end event.
OneVerdict ==
    /\ answered + failed <= 1
    /\ ended => pc = "done"

\* A run comes to an end, whatever fails, and the answer it announced ends up
\* in the transcript, unless storing it raises or the run is aborted.
RunEnds ==
    <>[](/\ pc = "done"
         /\ answered > 0 /\ ~aborted => kept \in {state.final, "missed"})
=============================================================================
