-------------------------- MODULE AgentRunProofs --------------------------
(***************************************************************************)
(* Proofs about AgentRun, for any limits: the types, one verdict a run,    *)
(* and that the text shown is the text stored.                             *)
(***************************************************************************)
EXTENDS AgentRun, TLAPS

\* Points at which an attempt has told nothing yet.
Unsettled == {"prepare", "nodes", "session", "show", "announce", "failing"}

\* What has been told and started at each point.  The exception handler goes by
\* answer_committed alone, so that must say what has been told.
Verdict ==
    /\ pc \in Unsettled =>
         answered = 0 /\ failed = 0 /\ effects = "none" /\ ~state.committed
    /\ pc \in {"commit", "leave"} => answered = 1 /\ failed = 0
    /\ pc = "leave" => state.committed
    /\ pc = "raised" /\ ~state.committed =>
         answered = 0 /\ failed = 0 /\ effects = "none"
    /\ pc \in {"announce", "commit"} \/ effects # "none" => state.final \in Texts
    /\ effects # "none" => answered = 1
    /\ answered + failed <= 1
    /\ ended => pc = "done"

-----------------------------------------------------------------------------
(* Types *)

\* The state an attempt starts from is a state.
LEMMA FreshIsAState == Fresh \in States
  BY LimitAssumption DEF Fresh, States, Sayings, Texts

\* A response leaves a state.
LEMMA RespondedType ==
    ASSUME state \in States, Responding, NEW c \in BOOLEAN
    PROVE  Responded(c) \in States
  <1>1. state.requests + 1 \in 0..MaxRequests
    BY LimitAssumption DEF Responding, States
  <1>2. (state.compacted \/ c) \in BOOLEAN
    OBVIOUS
  <1> QED BY <1>1, <1>2, ZenonT(40) DEF Responded, States

\* The records of the tool loop.
LEMMA StashType ==
    ASSUME NEW s \in States, NEW answer \in {None, "tool"}
    PROVE  Stash(s, answer) \in States
  <1>1. (answer # None) \in BOOLEAN
    OBVIOUS
  <1> QED BY <1>1, ZenonT(40) DEF Stash, States

\* Using tools leaves a state.
LEMMA UsedType ==
    ASSUME state \in States, Responding, NEW choice \in BOOLEAN,
           NEW c \in BOOLEAN, NEW text \in {None, "answer"}
    PROVE  Used(choice, c, text) \in States
  <1> DEFINE r == Responded(c)
             count == r.calls + 1
             held == IF text = None THEN r.buffered ELSE text
  <1>1. r \in States
    BY RespondedType
  <1>2. r.calls \in Nat /\ r.buffered \in Sayings \cup {None}
    BY <1>1, ZenonT(40) DEF States
  <1>3. count \in Nat
    BY <1>2
  <1>4. held \in Sayings \cup {None}
    BY <1>2 DEF Sayings
  <1>5. Used(choice, c, text) =
          [r EXCEPT !.calls = count, !.summaries = TRUE, !.executed = TRUE,
                    !.choice = choice, !.buffered = held]
    BY DEF Used
  <1> HIDE DEF r, count, held
  <1> QED BY <1>1, <1>3, <1>4, <1>5, ZenonT(40) DEF States

\* What follows the tools leaves a state.
LEMMA AfterToolsType ==
    ASSUME NEW used \in States, NEW answer \in {None, "tool"},
           NEW stop \in {"no", "enough", "stuck"}
    PROVE  AfterTools(used, stop, answer) \in States
  <1>1. CASE stop = "no"
    BY <1>1, Zenon DEF AfterTools
  <1>2. CASE stop = "enough"
    <2>1. [used EXCEPT !.override = answer, !.force = TRUE] \in States
      BY ZenonT(40) DEF States
    <2> QED BY <1>2, <2>1, Zenon DEF AfterTools
  <1>3. CASE stop = "stuck"
    BY <1>3, StashType, Zenon DEF AfterTools
  <1> QED BY <1>1, <1>2, <1>3

\* A stop of the loop touches nothing but what it leaves for the outcome.
LEMMA AfterToolsKeeps ==
    ASSUME NEW used \in States, NEW answer \in {None, "tool"},
           NEW stop \in {"no", "enough", "stuck"}
    PROVE  LET after == AfterTools(used, stop, answer)
           IN  /\ after.committed = used.committed
               /\ after.compacted = used.compacted
               /\ after.canned = used.canned
               /\ after.tools = used.tools
               /\ after.streamed = used.streamed
               /\ after.summaries = used.summaries
  <1>1. CASE stop = "no"
    BY <1>1, Zenon DEF AfterTools
  <1>2. CASE stop = "enough"
    BY <1>2, ZenonT(40) DEF AfterTools, States
  <1>3. CASE stop = "stuck"
    BY <1>3, ZenonT(40) DEF AfterTools, Stash, States
  <1> QED BY <1>1, <1>2, <1>3

\* A step of the model's loop leaves a state.
LEMMA LoopState ==
    ASSUME TypeOK, Loop
    PROVE  state' \in States
  <1> USE DEF TypeOK
  <1>a. None \in Sayings \cup {None} /\ "markup" \in Sayings \cup {None}
        /\ "answer" \in Sayings \cup {None}
    BY DEF Sayings
  <1>1. CASE SayText
    <2>1. PICK text \in Sayings, c \in BOOLEAN :
            \/ state' = [Responded(c) EXCEPT !.said = text, !.buffered = text]
            \/ state' = [Responded(c) EXCEPT !.said = text, !.streamed = TRUE]
      BY <1>1 DEF SayText
    <2>2. Responded(c) \in States
      BY <1>1, RespondedType DEF SayText
    <2>3. text \in Sayings \cup {None}
      OBVIOUS
    <2>4. CASE state' = [Responded(c) EXCEPT !.said = text, !.buffered = text]
      BY <2>2, <2>3, <2>4, ZenonT(40) DEF States
    <2>5. CASE state' = [Responded(c) EXCEPT !.said = text, !.streamed = TRUE]
      BY <2>2, <2>3, <2>5, ZenonT(40) DEF States
    <2> QED BY <2>1, <2>4, <2>5
  <1>2. CASE SayMarkup
    <2>1. PICK c \in BOOLEAN :
            state' = [Responded(c) EXCEPT !.said = "markup", !.buffered = "markup",
                                          !.summaries = TRUE]
      BY <1>2 DEF SayMarkup
    <2>2. Responded(c) \in States
      BY <1>2, RespondedType DEF SayMarkup
    <2> QED BY <1>a, <2>1, <2>2, ZenonT(40) DEF States
  <1>3. CASE RepeatTool
    <2>1. PICK c \in BOOLEAN, seen \in BOOLEAN, text \in {None, "answer"},
               answer \in {None, "tool"} :
            state' = Stash([Responded(c) EXCEPT
                              !.summaries = TRUE, !.executed = @ \/ seen,
                              !.buffered = IF text = None THEN @ ELSE text],
                           answer)
      BY <1>3 DEF RepeatTool
    <2>2. Responded(c) \in States
      BY <1>3, RespondedType DEF RepeatTool
    <2> DEFINE r == Responded(c)
               ran == r.executed \/ seen
               held == IF text = None THEN r.buffered ELSE text
    <2>3. ran \in BOOLEAN
      OBVIOUS
    <2>4. held \in Sayings \cup {None}
      BY <1>a, <2>2, ZenonT(40) DEF States
    <2>5. [r EXCEPT !.summaries = TRUE, !.executed = ran,
                    !.buffered = held] \in States
      <3> HIDE DEF r, ran, held
      <3>1. r \in States
        BY <2>2 DEF r
      <3> QED BY <2>3, <2>4, <3>1, ZenonT(40) DEF States
    <2> QED BY <2>1, <2>5, StashType
  <1>4. CASE UseTools
    <2>1. PICK choice \in BOOLEAN, c \in BOOLEAN, text \in {None, "answer"},
               answer \in {None, "tool"}, stop \in {"no", "enough", "stuck"} :
            state' = AfterTools(Used(choice, c, text), stop, answer)
      BY <1>4 DEF UseTools
    <2>2. Used(choice, c, text) \in States
      BY <1>4, UsedType DEF UseTools
    <2> QED BY <2>1, <2>2, AfterToolsType
  <1>5. CASE ThinkOnly
    <2>1. PICK c \in BOOLEAN :
            \/ /\ state.retries < Retries
               /\ state' = [Responded(c) EXCEPT !.retries = @ + 1]
            \/ state' = [Responded(c) EXCEPT !.hard = FALSE]
      BY <1>5 DEF ThinkOnly
    <2>2. Responded(c) \in States
      BY <1>5, RespondedType DEF ThinkOnly
    <2>3. CASE state' = [Responded(c) EXCEPT !.hard = FALSE]
      BY <2>2, <2>3, ZenonT(40) DEF States
    <2>4. CASE /\ state.retries < Retries
               /\ state' = [Responded(c) EXCEPT !.retries = @ + 1]
      <3>1. Responded(c).retries = state.retries
        BY DEF Responded, States
      <3>2. Responded(c).retries + 1 \in 0..RetryLimit
        BY <2>4, <3>1, LimitAssumption DEF Retries, States
      <3> DEFINE r == Responded(c)
                 count == r.retries + 1
      <3>3. r \in States /\ count \in 0..RetryLimit
        BY <2>2, <3>2
      <3>4. state' = [r EXCEPT !.retries = count]
        BY <2>4
      <3> HIDE DEF r, count
      <3> QED BY <3>3, <3>4, ZenonT(40) DEF States
    <2> QED BY <2>1, <2>3, <2>4
  <1>6. CASE Raise
    <2>1. PICK hard \in BOOLEAN, ran \in BOOLEAN :
            state' = [state EXCEPT !.hard = hard, !.executed = @ \/ ran]
      BY <1>6 DEF Raise
    <2>2. (state.executed \/ ran) \in BOOLEAN
      OBVIOUS
    <2> QED BY <2>1, <2>2, ZenonT(40) DEF States
  <1>7. CASE Continue
    <2>1. state.sessions + 1 \in 0..MaxContinuations
      BY <1>7, LimitAssumption DEF Continue, States
    <2>2. 0 \in 0..MaxRequests
      BY LimitAssumption
    <2> QED BY <1>7, <1>a, <2>1, <2>2, ZenonT(40) DEF Continue, States
  <1> QED BY <1>1, <1>2, <1>3, <1>4, <1>5, <1>6, <1>7 DEF Loop

\* The texts that tools and the program make are texts.
LEMMA ToolTexts ==
    /\ "tool" \in Texts /\ "recovered" \in Texts /\ "canned" \in Texts
    /\ None \notin Texts /\ Sayings \subseteq Texts
  BY DEF Texts, Sayings, None

\* What settling makes of the state.
LEMMA SettleCases ==
    ASSUME TypeOK, Settle
    PROVE  \E found \in Found, final \in Texts \cup {None},
              unproven, flushed \in BOOLEAN :
             /\ flushed <=> Flushes(found)
             /\ state' = [state EXCEPT !.final = final, !.unproven = unproven,
                                       !.buffered = None,
                                       !.streamed = @ \/ flushed]
             /\ shown' = IF flushed THEN Append(shown, state.buffered) ELSE shown
             /\ /\ state.tools /\ ~state.canned /\ ~state.force
                /\ ~state.executed /\ ~flushed
                => final \in {None, found}
  <1>1. PICK found \in Found, built \in Built, missing \in BOOLEAN :
          LET text == IF Flushes(found) THEN state.buffered ELSE found
              own == IF state.canned THEN "canned" ELSE Forced(text, built)
          IN  /\ \E told \in Regenerated(own) :
                  LET final == IF told = "payload" \/ Written(told)
                               THEN None ELSE told
                  IN  state' = [state EXCEPT
                          !.final = final,
                          !.unproven = \/ missing \/ Written(told)
                                       \/ /\ state.required /\ final = None
                                          /\ ~state.executed,
                          !.buffered = None,
                          !.streamed = @ \/ Flushes(found)]
              /\ shown' = IF Flushes(found) THEN Append(shown, text) ELSE shown
    BY DEF Settle
  <1> DEFINE text == IF Flushes(found) THEN state.buffered ELSE found
             own == IF state.canned THEN "canned" ELSE Forced(text, built)
             flushed == Flushes(found)
  <1>2. PICK told \in Regenerated(own) :
          LET final == IF told = "payload" \/ Written(told)
                       THEN None ELSE told
          IN  state' = [state EXCEPT
                  !.final = final,
                  !.unproven = \/ missing \/ Written(told)
                               \/ /\ state.required /\ final = None
                                  /\ ~state.executed,
                  !.buffered = None,
                  !.streamed = @ \/ Flushes(found)]
    BY <1>1
  <1> DEFINE final == IF told = "payload" \/ Written(told) THEN None ELSE told
             unproven == \/ missing \/ Written(told)
                         \/ state.required /\ final = None /\ ~state.executed
  <1>3. /\ state.said \in Sayings \cup {None}
        /\ state.buffered \in Sayings \cup {None}
        /\ state.override \in {None, "tool"}
        /\ state.canned \in BOOLEAN
    BY ZenonT(40) DEF TypeOK, States
  <1>4. found \in Sayings \cup {None} /\ built \in {None, "tool"}
    BY <1>3 DEF Found, Built
  <1>5. text \in Texts \cup {None}
    BY <1>3, <1>4, ToolTexts
  <1>6. own \in Texts \cup {None}
    BY <1>3, <1>4, <1>5, ToolTexts DEF Forced
  <1>7. told \in Texts \cup {None} /\ told \in {own, "recovered"}
    BY <1>6, ToolTexts DEF Regenerated
  <1>8. final \in Texts \cup {None}
    BY <1>7
  <1>9. flushed \in BOOLEAN /\ unproven \in BOOLEAN
    BY DEF Flushes
  <1>10. ASSUME state.tools, ~state.canned, ~state.force, ~state.executed,
                ~flushed
         PROVE  final \in {None, found}
    <2>1. own = found
      BY <1>10 DEF Forced
    <2>2. told = found
      BY <1>10, <2>1 DEF Regenerated
    <2> QED BY <2>2
  <1>11. state' = [state EXCEPT !.final = final, !.unproven = unproven,
                                !.buffered = None,
                                !.streamed = @ \/ flushed]
    BY <1>2
  <1>12. shown' = IF flushed THEN Append(shown, state.buffered) ELSE shown
    BY <1>1
  <1> HIDE DEF final, unproven, flushed, own, text
  <1>13. flushed <=> Flushes(found)
    BY DEF flushed
  <1> QED BY <1>8, <1>9, <1>10, <1>11, <1>12, <1>13

\* A step of the outcome leaves a state.
LEMMA OutcomeState ==
    ASSUME TypeOK, Outcome
    PROVE  state' \in States
  <1> USE DEF TypeOK
  <1>1. CASE Settle
    <2>1. PICK final \in Texts \cup {None}, unproven, flushed \in BOOLEAN :
            state' = [state EXCEPT !.final = final, !.unproven = unproven,
                                   !.buffered = None,
                                   !.streamed = @ \/ flushed]
      BY <1>1, SettleCases
    <2> DEFINE streamed == state.streamed \/ flushed
    <2>2. streamed \in BOOLEAN /\ None \in Sayings \cup {None}
      OBVIOUS
    <2>3. state' = [state EXCEPT !.final = final, !.unproven = unproven,
                                 !.buffered = None, !.streamed = streamed]
      BY <2>1
    <2> HIDE DEF streamed
    <2> QED BY <2>2, <2>3, ZenonT(40) DEF States
  <1>2. ASSUME NEW text \in Texts, Show(text) PROVE state' \in States
    <2>1. text \in Texts \cup {None}
      OBVIOUS
    <2> QED BY <1>2, <2>1, ZenonT(40) DEF Show, States
  <1>3. CASE ShowFinal
    <2>1. state.final \in Texts \cup {None}
      BY ZenonT(40) DEF States
    <2> QED BY <1>2, <1>3, <2>1, ToolTexts DEF ShowFinal
  <1>4. CASE ShowRecovery
    BY <1>2, <1>4, ToolTexts DEF ShowRecovery
  <1>5. CASE Commit
    BY <1>5, ZenonT(40) DEF Commit, States
  <1>6. ASSUME NEW hard \in BOOLEAN, state' = [state EXCEPT !.hard = hard]
        PROVE  state' \in States
    BY <1>6, ZenonT(40) DEF States
  <1>7. CASE NoAnswer \/ Announce \/ FailTurn \/ FailTurnRaises \/ LeaveSession
    BY <1>6, <1>7 DEF NoAnswer, Announce, FailTurn, FailTurnRaises, LeaveSession
  <1> QED BY <1>1, <1>3, <1>4, <1>5, <1>7 DEF Outcome

\* Every step keeps the type of the state.
LEMMA StateType ==
    ASSUME TypeOK, [Next]_vars
    PROVE  state' \in States
  <1> USE DEF TypeOK
  <1>1. CASE Prepare
    BY <1>1, ZenonT(40) DEF Prepare, States
  <1>2. CASE AnswerFromTools
    <2>1. "tool" \in Texts \cup {None}
      BY ToolTexts
    <2> QED BY <1>2, <2>1, ZenonT(40) DEF AnswerFromTools, States
  <1>3. CASE FailOver
    BY <1>3, FreshIsAState DEF FailOver
  <1>4. CASE \/ UNCHANGED vars \/ CannotPrepare \/ Overlook \/ FailRun \/ Finish
             \/ StoreAnswer \/ Abort \/ Close
    BY <1>4 DEF vars, CannotPrepare, Overlook, FailRun, Finish, StoreAnswer,
                Abort, Close
  <1> QED BY <1>1, <1>2, <1>3, <1>4, LoopState, OutcomeState
          DEF Next, Step, Handler

\* Every step keeps the type of what is shown and stored.
LEMMA ShownType ==
    ASSUME TypeOK, [Next]_vars
    PROVE  shown' \in Seq(Texts)
  <1> USE DEF TypeOK
  <1>1. ASSUME NEW text \in Texts, shown' = shown \/ shown' = Append(shown, text)
        PROVE  shown' \in Seq(Texts)
    BY <1>1
  <1>2. CASE SayText
    BY <1>1, <1>2, ToolTexts DEF SayText
  <1>3. CASE Settle
    <2>1. PICK found \in Found, flushed \in BOOLEAN :
            /\ flushed <=> Flushes(found)
            /\ shown' = IF flushed THEN Append(shown, state.buffered) ELSE shown
      BY <1>3, SettleCases
    <2>2. state.buffered \in Sayings \cup {None}
      BY ZenonT(40) DEF States
    <2>3. flushed => state.buffered \in Texts
      BY <2>1, <2>2, ToolTexts DEF Flushes
    <2> QED BY <1>1, <2>1, <2>3
  <1>4. ASSUME NEW text \in Texts, Show(text) PROVE shown' \in Seq(Texts)
    BY <1>1, <1>4 DEF Show
  <1>5. CASE ShowFinal
    <2>1. state.final \in Texts \cup {None}
      BY ZenonT(40) DEF States
    <2> QED BY <1>4, <1>5, <2>1, ToolTexts DEF ShowFinal
  <1>6. CASE ShowRecovery
    BY <1>4, <1>6, ToolTexts DEF ShowRecovery
  <1>7. CASE AnswerFromTools
    BY <1>1, <1>7, ToolTexts DEF AnswerFromTools
  <1>8. CASE FailOver
    BY <1>8 DEF FailOver
  <1>9. CASE \/ UNCHANGED vars \/ Prepare \/ CannotPrepare
             \/ SayMarkup \/ RepeatTool \/ UseTools \/ ThinkOnly \/ Raise
             \/ Continue \/ NoAnswer \/ Announce \/ Commit \/ FailTurn
             \/ FailTurnRaises \/ LeaveSession
             \/ Overlook \/ FailRun \/ Finish \/ StoreAnswer \/ Abort \/ Close
    BY <1>9 DEF vars, Prepare, CannotPrepare, SayMarkup, RepeatTool, UseTools,
          ThinkOnly, Raise, Continue, NoAnswer, Announce, Commit, FailTurn,
          FailTurnRaises, LeaveSession, Overlook, FailRun, Finish, StoreAnswer,
          Abort, Close
  <1> QED BY <1>2, <1>3, <1>5, <1>6, <1>7, <1>8, <1>9
          DEF Next, Step, Loop, Outcome, Handler

\* Every step keeps the type of the place in the code.
LEMMA PointType ==
    ASSUME TypeOK, [Next]_vars
    PROVE  /\ pc' \in Points
           /\ attempt' \in 0..MaxFailovers
  <1> USE LimitAssumption DEF TypeOK, Points
  <1>1. CASE Loop
    BY <1>1 DEF Loop, SayText, SayMarkup, RepeatTool, UseTools, ThinkOnly,
                Raise, Continue
  <1>2. CASE Outcome
    <2>1. CASE ShowFinal \/ ShowRecovery
      BY <2>1 DEF ShowFinal, ShowRecovery, Show
    <2>2. CASE FailTurn
      BY <2>2 DEF FailTurn, TellFailure
    <2> QED BY <1>2, <2>1, <2>2 DEF Outcome, Settle, NoAnswer, Announce, Commit,
                FailTurnRaises, LeaveSession
  <1>3. CASE Handler
    <2>1. CASE FailRun
      BY <2>1 DEF FailRun, TellFailure, Stopped, Outside
    <2> QED BY <1>3, <2>1 DEF Handler, Overlook, AnswerFromTools, FailOver,
                              NextAttempt
  <1>4. CASE Prepare \/ CannotPrepare \/ Finish
    BY <1>4 DEF Prepare, CannotPrepare, Finish, TellFailure, Stopped
  <1>5. CASE UNCHANGED vars \/ StoreAnswer \/ Abort \/ Close
    BY <1>5 DEF vars, StoreAnswer, Abort, Close
  <1> QED BY <1>1, <1>2, <1>3, <1>4, <1>5 DEF Next, Step

\* Every step keeps the type of what is told.
LEMMA ToldType ==
    ASSUME TypeOK, [Next]_vars
    PROVE  /\ answered' \in Nat /\ failed' \in Nat /\ ended' \in BOOLEAN
           /\ effects' \in {"none", "running", "over"}
  <1> USE DEF TypeOK, Told, Outside
  <1>1. CASE Loop
    BY <1>1 DEF Loop, SayText, SayMarkup, RepeatTool, UseTools, ThinkOnly,
                Raise, Continue
  <1>2. CASE Outcome
    <2>1. CASE ShowFinal \/ ShowRecovery
      BY <2>1 DEF ShowFinal, ShowRecovery, Show
    <2>2. CASE FailTurn
      BY <2>2 DEF FailTurn, TellFailure
    <2>3. CASE Settle
      BY <2>3 DEF Settle
    <2>4. CASE Announce
      BY <2>4 DEF Announce
    <2> QED BY <1>2, <2>1, <2>2, <2>3, <2>4
            DEF Outcome, NoAnswer, Commit, FailTurnRaises, LeaveSession
  <1>3. CASE Handler
    BY <1>3 DEF Handler, Overlook, AnswerFromTools, FailOver, FailRun, TellFailure
  <1>4. CASE Prepare
    BY <1>4 DEF Prepare
  <1>5. CASE CannotPrepare
    BY <1>5 DEF CannotPrepare, TellFailure
  <1>6. CASE Finish
    BY <1>6 DEF Finish
  <1>7. CASE UNCHANGED vars \/ StoreAnswer \/ Abort \/ Close
    BY <1>7 DEF vars, StoreAnswer, Abort, Close
  <1> QED BY <1>1, <1>2, <1>3, <1>4, <1>5, <1>6, <1>7 DEF Next, Step

\* Every step keeps the rest of the types; the background task stores a settled text.
LEMMA RestType ==
    ASSUME TypeOK, Verdict, [Next]_vars
    PROVE  /\ reader' \in Readers /\ images' \in BOOLEAN
           /\ kept' \in Keepings
           /\ aborted' \in BOOLEAN /\ toolSeen' \in BOOLEAN
  <1> USE DEF TypeOK, Outside
  <1>1. CASE Loop
    BY <1>1 DEF Loop, SayText, SayMarkup, RepeatTool, UseTools, ThinkOnly,
                Raise, Continue
  <1>2. CASE Outcome
    <2>1. CASE ShowFinal \/ ShowRecovery
      BY <2>1 DEF ShowFinal, ShowRecovery, Show
    <2>2. CASE FailTurn \/ FailTurnRaises
      BY <2>2 DEF FailTurn, FailTurnRaises, Keepings
    <2> QED BY <1>2, <2>1, <2>2 DEF Outcome, Settle, NoAnswer, Announce, Commit,
                LeaveSession
  <1>3. CASE Handler
    BY <1>3, ToolTexts
       DEF Handler, Overlook, AnswerFromTools, FailOver, FailRun, Keepings
  <1>4. CASE Prepare \/ CannotPrepare \/ Finish
    BY <1>4 DEF Prepare, CannotPrepare, Finish
  <1>5. CASE StoreAnswer
    BY <1>5 DEF StoreAnswer, Keepings, Verdict
  <1>6. CASE UNCHANGED vars \/ Abort \/ Close
    BY <1>6 DEF vars, Abort, Close
  <1> QED BY <1>1, <1>2, <1>3, <1>4, <1>5, <1>6 DEF Next, Step

\* The first state is well typed.
LEMMA TypeInit == Init => TypeOK
  <1> SUFFICES ASSUME Init PROVE TypeOK
    OBVIOUS
  <1>1. state \in States /\ 0 \in 0..MaxFailovers
    BY LimitAssumption, FreshIsAState DEF Init
  <1>2. shown \in Seq(Texts) /\ images \in BOOLEAN
    BY DEF Init
  <1> QED BY <1>1, <1>2 DEF Init, TypeOK, Points, Readers, Keepings

-----------------------------------------------------------------------------
(* What is told *)

\* The model's loop commits no answer.
LEMMA LoopCommits ==
    ASSUME TypeOK, Loop
    PROVE  state'.committed = state.committed
  <1> USE DEF TypeOK, Responded
  <1>1. CASE SayText
    BY <1>1, ZenonT(40) DEF SayText, States
  <1>2. CASE SayMarkup
    BY <1>2, ZenonT(40) DEF SayMarkup, States
  <1>3. CASE RepeatTool
    BY <1>3, ZenonT(40) DEF RepeatTool, Stash, States
  <1>4. CASE UseTools
    <2>1. PICK choice \in BOOLEAN, c \in BOOLEAN, text \in {None, "answer"},
               answer \in {None, "tool"}, stop \in {"no", "enough", "stuck"} :
            state' = AfterTools(Used(choice, c, text), stop, answer)
      BY <1>4 DEF UseTools
    <2>2. Used(choice, c, text) \in States
      BY <1>4, UsedType DEF UseTools
    <2>3. Used(choice, c, text).committed = state.committed
      BY ZenonT(40) DEF Used, States
    <2> QED BY <2>1, <2>2, <2>3, AfterToolsKeeps
  <1>5. CASE ThinkOnly
    BY <1>5, ZenonT(40) DEF ThinkOnly, States
  <1>6. CASE Raise
    BY <1>6, ZenonT(40) DEF Raise, States
  <1>7. CASE Continue
    BY <1>7, ZenonT(40) DEF Continue, States
  <1> QED BY <1>1, <1>2, <1>3, <1>4, <1>5, <1>6, <1>7 DEF Loop

\* The model's loop keeps Verdict.
LEMMA VerdictLoop ==
    ASSUME TypeOK, Verdict, Loop PROVE Verdict'
  <1>1. pc \in {"nodes", "session"} /\ pc' \in {"nodes", "session", "raised", "done"}
    BY DEF Loop, SayText, SayMarkup, RepeatTool, UseTools, ThinkOnly, Raise,
           Continue, Responding
  <1>2. UNCHANGED Told /\ UNCHANGED effects
    BY DEF Loop, SayText, SayMarkup, RepeatTool, UseTools, ThinkOnly, Raise,
           Continue
  <1> QED BY <1>1, <1>2, LoopCommits DEF Verdict, Unsettled, Told

\* What a step that shows a text changes.
LEMMA ShowSets ==
    ASSUME TypeOK, NEW text \in Texts, Show(text)
    PROVE  /\ state'.final = text
           /\ state'.committed = state.committed
           /\ state'.compacted = state.compacted
           /\ shown' = IF state.streamed THEN shown ELSE Append(shown, text)
  BY ZenonT(40) DEF Show, States, TypeOK

\* A step of the outcome keeps Verdict.
LEMMA VerdictOutcome ==
    ASSUME TypeOK, Verdict, Outcome PROVE Verdict'
  <1> USE DEF Verdict, Unsettled, Told, TypeOK
  <1>1. CASE Settle
    <2>1. state'.committed = state.committed
      BY <1>1, SettleCases, ZenonT(40) DEF States
    <2> QED BY <1>1, <2>1 DEF Settle
  <1>2. ASSUME NEW text \in Texts, Show(text), pc = "show" PROVE Verdict'
    <2>1. state'.final = text /\ state'.committed = state.committed
      BY <1>2, ShowSets
    <2> QED BY <1>2, <2>1 DEF Show
  <1>3. CASE ShowFinal
    <2>1. state.final \in Texts \cup {None}
      BY ZenonT(40) DEF States
    <2> QED BY <1>2, <1>3, <2>1, ToolTexts DEF ShowFinal
  <1>4. CASE ShowRecovery
    BY <1>2, <1>4, ToolTexts DEF ShowRecovery
  <1>5. CASE Commit
    <2>1. state'.committed /\ state'.final = state.final
      BY <1>5, ZenonT(40) DEF Commit, States
    <2> QED BY <1>5, <2>1 DEF Commit
  <1>6. CASE NoAnswer
    BY <1>6 DEF NoAnswer
  <1>7. CASE Announce
    BY <1>7 DEF Announce
  <1>8. CASE FailTurn
    BY <1>8 DEF FailTurn, TellFailure
  <1>9. ASSUME NEW hard \in BOOLEAN, state' = [state EXCEPT !.hard = hard]
        PROVE  state'.committed = state.committed /\ state'.final = state.final
    BY <1>9, ZenonT(40) DEF States
  <1>10. CASE FailTurnRaises
    BY <1>9, <1>10 DEF FailTurnRaises
  <1>11. CASE LeaveSession
    BY <1>9, <1>11 DEF LeaveSession
  <1> QED BY <1>1, <1>3, <1>4, <1>5, <1>6, <1>7, <1>8, <1>10, <1>11 DEF Outcome

\* A way out of the exception handler keeps Verdict.
LEMMA VerdictHandler ==
    ASSUME TypeOK, Verdict, Handler PROVE Verdict'
  <1> USE DEF Verdict, Unsettled, Told, TypeOK
  <1>1. CASE Overlook
    BY <1>1 DEF Overlook
  <1>2. CASE AnswerFromTools
    <2>1. state'.committed /\ state'.final = "tool"
      BY <1>2, ZenonT(40) DEF AnswerFromTools, States
    <2> QED BY <1>2, <2>1, ToolTexts DEF AnswerFromTools, Recovering
  <1>3. CASE FailOver
    BY <1>3 DEF FailOver, Recovering, Fresh
  <1>4. CASE FailRun
    BY <1>4 DEF FailRun, Recovering, TellFailure, Stopped
  <1> QED BY <1>1, <1>2, <1>3, <1>4 DEF Handler

\* Every step keeps Verdict.
LEMMA VerdictStep ==
    ASSUME TypeOK, Verdict, [Next]_vars PROVE Verdict'
  <1> USE DEF Verdict, Unsettled, Told, TypeOK
  <1>1. CASE Prepare
    <2>1. state'.committed = state.committed
      BY <1>1, ZenonT(40) DEF Prepare, States
    <2> QED BY <1>1, <2>1 DEF Prepare
  <1>2. CASE CannotPrepare
    BY <1>2 DEF CannotPrepare, TellFailure, Stopped
  <1>3. CASE Finish
    BY <1>3 DEF Finish
  <1>4. CASE StoreAnswer
    BY <1>4 DEF StoreAnswer
  <1>5. CASE Abort
    BY <1>5 DEF Abort
  <1>6. CASE Close
    BY <1>6 DEF Close
  <1>7. CASE UNCHANGED vars
    BY <1>7 DEF vars
  <1> QED BY <1>1, <1>2, <1>3, <1>4, <1>5, <1>6, <1>7,
             VerdictLoop, VerdictOutcome, VerdictHandler DEF Next, Step

\* Verdict holds at first: nothing has been told.
LEMMA VerdictInit == Init => Verdict
  BY DEF Init, Verdict, Unsettled, Fresh, None

\* TypeOK and Verdict hold in every state: they are inductive together.
LEMMA TypeAndVerdict == Spec => [](TypeOK /\ Verdict)
  <1>1. TypeOK /\ Verdict /\ [Next]_vars => TypeOK' /\ Verdict'
    BY StateType, ShownType, PointType, ToldType, RestType, VerdictStep DEF TypeOK
  <1> QED BY <1>1, TypeInit, VerdictInit, PTL DEF Spec

-----------------------------------------------------------------------------
(* What is shown and what is stored *)

\* What the reader of an attempt has been shown at each point, when its history
\* has not been compacted: nothing as long as an answer may still take another
\* form, for which tools having run (executed) keep the text back.
Showing ==
    ~state.compacted =>
    /\ state.canned => ~state.tools
    /\ pc = "prepare" => state = Fresh
    /\ pc \in {"prepare", "nodes"} => ~state.streamed /\ shown = <<>>
    /\ pc \in {"nodes", "session"} =>
         (state.executed \/ state.force \/ state.choice => state.summaries)
    /\ pc = "nodes" => state.summaries \/ state.buffered = None
    /\ pc = "session" =>
         /\ state.streamed =>
              /\ shown = <<state.said>> /\ state.buffered = None
              /\ state.tools /\ ~state.required /\ ~state.summaries
         /\ ~state.streamed => shown = <<>>
         /\ state.summaries \/ state.buffered \in {None, state.said}
    /\ pc = "show" =>
         /\ state.streamed =>
              /\ state.final # None => shown = <<state.final>>
              /\ ~state.required /\ ~state.executed
         /\ ~state.streamed => shown = <<>>
    /\ pc = "failing" => (state.executed => shown = <<>>)
    /\ pc = "raised" =>
         IF state.committed THEN shown = <<state.final>>
         ELSE state.executed => shown = <<>>
    /\ pc \in {"announce", "commit", "leave"} => shown = <<state.final>>
    /\ pc \in {"finish", "done"} => (answered > 0 => shown = <<state.final>>)

\* What is stored is what the run has settled on.
Keeping ==
    kept \in {"nothing", "empty"}
              \cup IF answered > 0 THEN {state.final, "missed"} ELSE {}

\* What no response of the model changes.
Planned(s) == <<s.tools, s.canned, s.required, s.committed, s.final>>

\* What a response leaves alone of the state.
LEMMA RespondedKeeps ==
    ASSUME state \in States, NEW c \in BOOLEAN
    PROVE  /\ Planned(Responded(c)) = Planned(state)
           /\ Responded(c).compacted = (state.compacted \/ c)
           /\ Responded(c).summaries = state.summaries
           /\ Responded(c).executed = state.executed
           /\ Responded(c).force = state.force
           /\ Responded(c).choice = state.choice
           /\ Responded(c).buffered = state.buffered
           /\ Responded(c).said = state.said
           /\ Responded(c).streamed = state.streamed
  BY ZenonT(40) DEF Responded, States, Planned

\* Showing a text while it streams keeps Showing.
LEMMA ShowingSayText ==
    ASSUME TypeOK, Showing, SayText PROVE Showing'
  <1>1. PICK text \in Sayings, c \in BOOLEAN :
          IF Buffered
          THEN /\ state' = [Responded(c) EXCEPT !.said = text, !.buffered = text]
               /\ shown' = shown
          ELSE /\ state' = [Responded(c) EXCEPT !.said = text, !.streamed = TRUE]
               /\ shown' = Append(shown, text)
    BY DEF SayText
  <1> DEFINE r == Responded(c)
  <1>2. r \in States
    BY RespondedType DEF SayText, TypeOK
  <1>3. /\ Planned(r) = Planned(state)
        /\ r.compacted = (state.compacted \/ c)
        /\ r.summaries = state.summaries
        /\ r.executed = state.executed
        /\ r.force = state.force
        /\ r.choice = state.choice
        /\ r.buffered = state.buffered
        /\ r.streamed = state.streamed
    BY RespondedKeeps DEF TypeOK
  <1> HIDE DEF r
  <1>4. CASE Buffered
    <2>1. state' = [r EXCEPT !.said = text, !.buffered = text]
      BY <1>1, <1>4 DEF r
    <2>2. /\ Planned(state') = Planned(r)
          /\ state'.compacted = r.compacted
          /\ state'.summaries = r.summaries
          /\ state'.executed = r.executed
          /\ state'.force = r.force
          /\ state'.choice = r.choice
          /\ state'.streamed = r.streamed
          /\ state'.buffered = text /\ state'.said = text
      BY <1>2, <2>1, ZenonT(40) DEF States, Planned
    <2> QED BY <1>1, <1>3, <1>4, <2>2 DEF Showing, SayText, Responding, Planned, Buffered
  <1>5. CASE ~Buffered
    <2>1. state' = [r EXCEPT !.said = text, !.streamed = TRUE]
      BY <1>1, <1>5 DEF r
    <2>2. /\ Planned(state') = Planned(r)
          /\ state'.compacted = r.compacted
          /\ state'.summaries = r.summaries
          /\ state'.executed = r.executed
          /\ state'.force = r.force
          /\ state'.choice = r.choice
          /\ state'.streamed
          /\ state'.buffered = r.buffered /\ state'.said = text
      BY <1>2, <2>1, ZenonT(40) DEF States, Planned
    <2>3. shown = <<>> => shown' = <<text>>
      BY <1>1, <1>5
    <2>4. ASSUME ~state'.compacted
          PROVE  /\ shown = <<>> /\ state.buffered = None
                 /\ state.canned => ~state.tools
                 /\ state.executed \/ state.force \/ state.choice => state.summaries
      BY <1>3, <1>5, <2>2, <2>4 DEF Showing, SayText, Responding, Buffered
    <2>5. pc' = "session"
      BY DEF SayText
    <2>6. /\ state'.tools = state.tools /\ state'.canned = state.canned
          /\ state'.required = state.required
      BY <1>3, <2>2 DEF Planned
    <2> QED BY <1>3, <1>5, <2>2, <2>3, <2>4, <2>5, <2>6 DEF Showing, Buffered
  <1> QED BY <1>4, <1>5

\* Once the turn has seen a tool call nothing is streamed.
LEMMA ShowingCalls ==
    ASSUME TypeOK, Verdict, Showing, pc = "nodes",
           pc' \in {"nodes", "session", "done"},
           shown' = shown, answered' = answered,
           state'.summaries, Planned(state') = Planned(state),
           state'.streamed = state.streamed,
           state.compacted => state'.compacted
    PROVE  Showing'
  <1>1. state'.tools = state.tools /\ state'.canned = state.canned
    BY DEF Planned
  <1>2. answered' = 0
    BY DEF Verdict, Unsettled
  <1> QED BY <1>1, <1>2 DEF Showing

\* Keeping a tool's answer for later touches no flag of the text.
LEMMA StashKeeps ==
    ASSUME NEW s \in States, NEW answer \in {None, "tool"}
    PROVE  /\ Planned(Stash(s, answer)) = Planned(s)
           /\ Stash(s, answer).compacted = s.compacted
           /\ Stash(s, answer).summaries = s.summaries
           /\ Stash(s, answer).streamed = s.streamed
  BY ZenonT(40) DEF Stash, States, Planned

\* What follows the tools shows nothing new.
LEMMA AfterToolsShows ==
    ASSUME NEW used \in States, NEW answer \in {None, "tool"},
           NEW stop \in {"no", "enough", "stuck"}
    PROVE  LET after == AfterTools(used, stop, answer)
           IN  /\ Planned(after) = Planned(used)
               /\ after.compacted = used.compacted
               /\ after.summaries = used.summaries
               /\ after.streamed = used.streamed
  <1>1. CASE stop = "no"
    BY <1>1, Zenon DEF AfterTools
  <1>2. CASE stop = "enough"
    BY <1>2, ZenonT(40) DEF AfterTools, States, Planned
  <1>3. CASE stop = "stuck"
    BY <1>3, StashKeeps, Zenon DEF AfterTools
  <1> QED BY <1>1, <1>2, <1>3

\* The model's loop keeps Showing.
LEMMA ShowingLoop ==
    ASSUME TypeOK, Verdict, Showing, Loop PROVE Showing'
  <1>1. CASE SayText
    BY <1>1, ShowingSayText
  <1>2. CASE SayMarkup
    <2>1. PICK c \in BOOLEAN :
            state' = [Responded(c) EXCEPT !.said = "markup", !.buffered = "markup",
                                          !.summaries = TRUE]
      BY <1>2 DEF SayMarkup
    <2>2. Responded(c) \in States
      BY <1>2, RespondedType DEF SayMarkup, TypeOK
    <2>3. /\ Planned(state') = Planned(Responded(c))
          /\ state'.compacted = Responded(c).compacted
          /\ state'.summaries
          /\ state'.streamed = Responded(c).streamed
      BY <2>1, <2>2, ZenonT(40) DEF States, Planned
    <2> QED BY <1>2, <2>3, RespondedKeeps, ShowingCalls
            DEF SayMarkup, Responding, TypeOK, Told
  <1>3. CASE RepeatTool
    <2>1. PICK c \in BOOLEAN, seen \in BOOLEAN, text \in {None, "answer"},
               answer \in {None, "tool"} :
            state' = Stash([Responded(c) EXCEPT
                              !.summaries = TRUE, !.executed = @ \/ seen,
                              !.buffered = IF text = None THEN @ ELSE text],
                           answer)
      BY <1>3 DEF RepeatTool
    <2> DEFINE r == Responded(c)
               ran == r.executed \/ seen
               held == IF text = None THEN r.buffered ELSE text
               next == [r EXCEPT !.summaries = TRUE, !.executed = ran,
                                 !.buffered = held]
    <2>2. r \in States /\ r.buffered \in Sayings \cup {None}
      <3>1. r \in States
        BY <1>3, RespondedType DEF RepeatTool, TypeOK
      <3> HIDE DEF r
      <3> QED BY <3>1, ZenonT(40) DEF States
    <2>3. ran \in BOOLEAN /\ held \in Sayings \cup {None}
      BY <2>2 DEF Sayings
    <2>4. state' = Stash(next, answer)
      BY <2>1
    <2>5. next \in States /\ Planned(next) = Planned(r) /\ next.summaries
          /\ next.compacted = r.compacted /\ next.streamed = r.streamed
      <3> HIDE DEF r, ran, held
      <3>1. next \in States
        BY <2>2, <2>3, ZenonT(40) DEF States
      <3> QED BY <2>2, <3>1, ZenonT(40) DEF States, Planned
    <2>6. /\ Planned(r) = Planned(state) /\ r.streamed = state.streamed
          /\ r.compacted = (state.compacted \/ c)
      BY RespondedKeeps DEF TypeOK
    <2> HIDE DEF next, r
    <2> QED BY <1>3, <2>4, <2>5, <2>6, StashKeeps, ShowingCalls
            DEF RepeatTool, Responding, TypeOK, Told
  <1>4. CASE UseTools
    <2>1. PICK choice \in BOOLEAN, c \in BOOLEAN, text \in {None, "answer"},
               answer \in {None, "tool"}, stop \in {"no", "enough", "stuck"} :
            state' = AfterTools(Used(choice, c, text), stop, answer)
      BY <1>4 DEF UseTools
    <2>2. Used(choice, c, text) \in States /\ Responded(c) \in States
      BY <1>4, UsedType, RespondedType DEF UseTools, TypeOK
    <2>3. /\ Planned(Used(choice, c, text)) = Planned(Responded(c))
          /\ Used(choice, c, text).compacted = Responded(c).compacted
          /\ Used(choice, c, text).summaries
          /\ Used(choice, c, text).streamed = Responded(c).streamed
      <3> DEFINE r == Responded(c)
                 count == r.calls + 1
                 held == IF text = None THEN r.buffered ELSE text
                 used == [r EXCEPT !.calls = count, !.summaries = TRUE,
                                   !.executed = TRUE, !.choice = choice,
                                   !.buffered = held]
      <3>1. r \in States
        BY <2>2
      <3>2. Used(choice, c, text) = used
        BY DEF Used
      <3> HIDE DEF r, count, held
      <3>3. /\ Planned(used) = Planned(r) /\ used.compacted = r.compacted
            /\ used.summaries /\ used.streamed = r.streamed
        BY <3>1, ZenonT(40) DEF States, Planned
      <3> HIDE DEF used
      <3> QED BY <3>2, <3>3 DEF r
    <2>4. /\ pc = "nodes" /\ pc' \in {"nodes", "session", "done"}
          /\ shown' = shown /\ answered' = answered
      BY <1>4 DEF UseTools, Responding, Told
    <2>5. /\ Planned(state') = Planned(Used(choice, c, text))
          /\ state'.compacted = Used(choice, c, text).compacted
          /\ state'.summaries = Used(choice, c, text).summaries
          /\ state'.streamed = Used(choice, c, text).streamed
      BY <2>1, <2>2, AfterToolsShows
    <2>6. /\ Planned(Responded(c)) = Planned(state)
          /\ Responded(c).compacted = (state.compacted \/ c)
          /\ Responded(c).streamed = state.streamed
      BY RespondedKeeps DEF TypeOK
    <2>7. /\ Planned(state') = Planned(state)
          /\ state.compacted => state'.compacted
          /\ state'.summaries
          /\ state'.streamed = state.streamed
      BY <2>3, <2>5, <2>6
    <2> QED BY <2>4, <2>7, ShowingCalls
  <1>5. ASSUME NEW r \in States, NEW hard \in BOOLEAN,
               state' = [r EXCEPT !.hard = hard]
        PROVE  /\ Planned(state') = Planned(r)
               /\ state'.compacted = r.compacted
               /\ state'.summaries = r.summaries
               /\ state'.executed = r.executed
               /\ state'.force = r.force
               /\ state'.choice = r.choice
               /\ state'.streamed = r.streamed
               /\ state'.buffered = r.buffered
    BY <1>5, ZenonT(40) DEF States, Planned
  <1>6. CASE ThinkOnly
    <2>1. PICK c \in BOOLEAN :
            \/ /\ state' = [Responded(c) EXCEPT !.retries = @ + 1]
               /\ pc' = "nodes"
            \/ /\ state' = [Responded(c) EXCEPT !.hard = FALSE]
               /\ pc' \in {"session", "raised"}
      BY <1>6 DEF ThinkOnly
    <2>2. Responded(c) \in States
      BY <1>6, RespondedType DEF ThinkOnly, TypeOK
    <2>3. /\ Planned(state') = Planned(Responded(c))
          /\ state'.compacted = Responded(c).compacted
          /\ state'.summaries = Responded(c).summaries
          /\ state'.executed = Responded(c).executed
          /\ state'.force = Responded(c).force
          /\ state'.choice = Responded(c).choice
          /\ state'.streamed = Responded(c).streamed
          /\ state'.buffered = Responded(c).buffered
      <3>1. CASE state' = [Responded(c) EXCEPT !.retries = @ + 1]
        BY <2>2, <3>1, ZenonT(40) DEF States, Planned
      <3>2. CASE state' = [Responded(c) EXCEPT !.hard = FALSE]
        BY <1>5, <2>2, <3>2
      <3> QED BY <2>1, <3>1, <3>2
    <2>4. /\ Planned(state') = Planned(state)
          /\ state'.compacted = (state.compacted \/ c)
          /\ state'.summaries = state.summaries
          /\ state'.executed = state.executed
          /\ state'.force = state.force
          /\ state'.choice = state.choice
          /\ state'.streamed = state.streamed
          /\ state'.buffered = state.buffered
      BY <2>3, RespondedKeeps DEF TypeOK
    <2>5. /\ state'.tools = state.tools /\ state'.canned = state.canned
          /\ state'.committed = state.committed
      BY <2>4 DEF Planned
    <2>6. /\ pc = "nodes" /\ pc' \in {"nodes", "session", "raised"}
          /\ shown' = shown /\ ~state.committed
      BY <1>6 DEF ThinkOnly, Responding, Verdict, Unsettled
    <2> QED BY <2>4, <2>5, <2>6 DEF Showing
  <1>7. CASE Raise
    <2>1. PICK hard \in BOOLEAN, ran \in BOOLEAN :
            state' = [state EXCEPT !.hard = hard, !.executed = @ \/ ran]
      BY <1>7 DEF Raise
    <2>2. /\ Planned(state') = Planned(state)
          /\ state'.compacted = state.compacted
      BY <2>1, ZenonT(40) DEF States, Planned, TypeOK
    <2>3. /\ state'.tools = state.tools /\ state'.canned = state.canned
          /\ state'.committed = state.committed
      BY <2>2 DEF Planned
    <2>4. pc = "nodes" /\ pc' = "raised" /\ shown' = shown /\ ~state.committed
      BY <1>7 DEF Raise, Verdict, Unsettled
    <2> QED BY <2>2, <2>3, <2>4 DEF Showing
  <1>8. CASE Continue
    <2>1. /\ Planned(state') = Planned(state)
          /\ state'.compacted = state.compacted
          /\ state'.summaries = state.summaries
          /\ state'.executed = state.executed
          /\ state'.force = state.force
          /\ ~state'.choice /\ ~state'.streamed /\ state'.buffered = None
      BY <1>8, ZenonT(40) DEF Continue, States, Planned, TypeOK
    <2>2. state'.tools = state.tools /\ state'.canned = state.canned
      BY <2>1 DEF Planned
    <2>3. /\ pc = "session" /\ pc' = "nodes" /\ shown' = shown
          /\ state.choice /\ ~state.compacted
      BY <1>8 DEF Continue, OnlyChoice
    <2> QED BY <2>1, <2>2, <2>3 DEF Showing
  <1> QED BY <1>1, <1>2, <1>3, <1>4, <1>6, <1>7, <1>8 DEF Loop

\* The first text shown is the whole of what is shown.
LEMMA FirstText == \A text : Append(<<>>, text) = <<text>>
  OBVIOUS

\* Showing the settled text keeps Showing.
LEMMA ShowingShow ==
    ASSUME TypeOK, Showing, NEW text \in Texts, Show(text), pc = "show",
           ~state.compacted => (state.streamed => shown = <<text>>)
    PROVE  Showing'
  <1>1. /\ state'.final = text /\ state'.compacted = state.compacted
        /\ state'.tools = state.tools /\ state'.canned = state.canned
    BY ZenonT(40) DEF Show, States, TypeOK
  <1>2. ASSUME ~state.compacted PROVE shown' = <<text>>
    <2>1. CASE state.streamed
      BY <1>2, <2>1 DEF Show
    <2>2. CASE ~state.streamed
      <3>1. shown = <<>>
        BY <1>2, <2>2 DEF Showing
      <3>2. shown' = Append(shown, text)
        BY <2>2 DEF Show
      <3> QED BY <3>1, <3>2
    <2> QED BY <2>1, <2>2
  <1>3. pc' = "announce"
    BY DEF Show
  <1> QED BY <1>1, <1>2, <1>3 DEF Showing

\* A step of the outcome keeps Showing.
LEMMA ShowingOutcome ==
    ASSUME TypeOK, Verdict, Showing, Outcome PROVE Showing'
  <1>1. CASE Settle
    <2>1. PICK found \in Found, final \in Texts \cup {None},
               unproven, flushed \in BOOLEAN :
             /\ flushed <=> Flushes(found)
             /\ state' = [state EXCEPT !.final = final, !.unproven = unproven,
                                       !.buffered = None,
                                       !.streamed = @ \/ flushed]
             /\ shown' = IF flushed THEN Append(shown, state.buffered) ELSE shown
             /\ /\ state.tools /\ ~state.canned /\ ~state.force
                /\ ~state.executed /\ ~flushed
                => final \in {None, found}
      BY <1>1, SettleCases
    <2>2. /\ state'.final = final
          /\ state'.streamed = (state.streamed \/ flushed)
          /\ state'.compacted = state.compacted
          /\ state'.tools = state.tools /\ state'.canned = state.canned
          /\ state'.required = state.required
          /\ state'.executed = state.executed
      BY <2>1, ZenonT(40) DEF States, TypeOK
    <2>3. pc = "session" /\ pc' = "show"
      BY <1>1 DEF Settle
    <2>4. ASSUME ~state.compacted
          PROVE  found = state.said /\ ~flushed
      <3>1. found = state.said
        BY <2>4 DEF Found
      <3>2. state.summaries \/ state.buffered \in {None, state.said}
        BY <2>3, <2>4 DEF Showing
      <3> QED BY <2>1, <3>1, <3>2 DEF Flushes
    <2>5. ASSUME ~state.compacted, state.streamed
          PROVE  /\ final # None => shown' = <<final>>
                 /\ ~state.required /\ ~state.executed
      <3>1. /\ state.tools /\ ~state.canned /\ ~state.force /\ ~state.executed
            /\ ~state.required /\ shown = <<state.said>>
        BY <2>3, <2>5 DEF Showing
      <3> QED BY <2>1, <2>4, <2>5, <3>1
    <2>6. ASSUME ~state.compacted, ~state.streamed PROVE shown' = <<>>
      BY <2>1, <2>3, <2>4, <2>6 DEF Showing
    <2> QED BY <2>2, <2>3, <2>4, <2>5, <2>6 DEF Showing
  <1>2. CASE ShowFinal
    <2>1. state.final \in Texts \cup {None}
      BY ZenonT(40) DEF States, TypeOK
    <2>2. CASE state.final # None /\ Show(state.final)
      BY <1>2, <2>1, <2>2, ShowingShow DEF ShowFinal, Showing
    <2>3. CASE "tool" \in Built /\ Show("tool")
      <3>1. state.executed
        BY <2>3 DEF Built, None
      <3> QED BY <1>2, <2>3, <3>1, ShowingShow, ToolTexts DEF ShowFinal, Showing
    <2> QED BY <1>2, <2>2, <2>3 DEF ShowFinal
  <1>3. CASE ShowRecovery
    BY <1>3, ShowingShow, ToolTexts DEF ShowRecovery, Showing
  <1>4. CASE NoAnswer
    BY <1>4 DEF NoAnswer, Showing
  <1>5. CASE Announce
    BY <1>5 DEF Announce, Showing
  <1>6. CASE Commit
    <2>1. /\ state'.final = state.final /\ state'.compacted = state.compacted
          /\ state'.tools = state.tools /\ state'.canned = state.canned
      BY <1>6, ZenonT(40) DEF Commit, States, TypeOK
    <2> QED BY <1>6, <2>1 DEF Commit, Showing
  <1>7. CASE FailTurn
    BY <1>7 DEF FailTurn, TellFailure, Showing, Verdict, Unsettled
  <1>8. ASSUME NEW hard \in BOOLEAN, state' = [state EXCEPT !.hard = hard]
        PROVE  /\ state'.final = state.final /\ state'.compacted = state.compacted
               /\ state'.tools = state.tools /\ state'.canned = state.canned
               /\ state'.committed = state.committed
               /\ state'.executed = state.executed
    BY <1>8, ZenonT(40) DEF States, TypeOK
  <1>9. CASE FailTurnRaises
    BY <1>8, <1>9 DEF FailTurnRaises, Showing, Verdict, Unsettled
  <1>10. CASE LeaveSession
    BY <1>8, <1>10 DEF LeaveSession, Showing, Verdict
  <1> QED BY <1>1, <1>2, <1>3, <1>4, <1>5, <1>6, <1>7, <1>9, <1>10 DEF Outcome

\* Every step keeps Showing.
LEMMA ShowingStep ==
    ASSUME TypeOK, Verdict, Showing, [Next]_vars PROVE Showing'
  <1> USE DEF Showing
  <1>1. CASE Prepare
    <2>1. PICK required \in BOOLEAN, tools \in BOOLEAN, canned \in BOOLEAN :
            /\ canned => ~tools
            /\ state' = [state EXCEPT !.required = required, !.tools = tools,
                                      !.canned = canned]
      BY <1>1 DEF Prepare
    <2>2. /\ state'.tools = tools /\ state'.canned = canned
          /\ state'.compacted = state.compacted
          /\ state'.summaries = state.summaries
          /\ state'.executed = state.executed
          /\ state'.force = state.force
          /\ state'.choice = state.choice
          /\ state'.streamed = state.streamed
          /\ state'.buffered = state.buffered
      BY <2>1, ZenonT(40) DEF States, TypeOK
    <2>3. pc = "prepare" /\ pc' = "nodes" /\ shown' = shown
      BY <1>1 DEF Prepare
    <2> QED BY <2>1, <2>2, <2>3 DEF Fresh
  <1>2. CASE CannotPrepare
    BY <1>2 DEF CannotPrepare, TellFailure, Stopped, Verdict, Unsettled, Told
  <1>3. CASE Finish
    BY <1>3 DEF Finish
  <1>4. CASE StoreAnswer
    BY <1>4 DEF StoreAnswer, Told
  <1>5. CASE Abort
    BY <1>5 DEF Abort, Told
  <1>6. CASE Close
    <2>1. answered > 0 => pc \in {"commit", "leave", "raised", "finish"}
      BY <1>6 DEF Close, Verdict, Unsettled, TypeOK, Points
    <2>2. answered > 0 /\ pc = "raised" => state.committed
      BY DEF Verdict
    <2> QED BY <1>6, <2>1, <2>2 DEF Close, Told
  <1>7. CASE Overlook
    BY <1>7 DEF Overlook
  <1>8. CASE AnswerFromTools
    <2>1. /\ state'.final = "tool" /\ state'.compacted = state.compacted
          /\ state'.tools = state.tools /\ state'.canned = state.canned
      BY <1>8, ZenonT(40) DEF AnswerFromTools, States, TypeOK
    <2>2. ~state.compacted => shown = <<>>
      BY <1>8 DEF AnswerFromTools, Recovering
    <2>3. shown' = Append(shown, "tool") /\ pc' = "finish"
      BY <1>8 DEF AnswerFromTools
    <2>4. ~state.compacted => shown' = <<"tool">>
      BY <2>2, <2>3, FirstText
    <2> HIDE DEF Showing
    <2>5. state'.canned => ~state'.tools \/ state.compacted
      BY <2>1 DEF Showing
    <2> QED BY <2>1, <2>3, <2>4, <2>5 DEF Showing
  <1>9. CASE FailOver
    BY <1>9 DEF FailOver, Fresh
  <1>10. CASE FailRun
    BY <1>10 DEF FailRun, TellFailure, Stopped, Recovering, Verdict, Told
  <1>11. CASE UNCHANGED vars
    BY <1>11 DEF vars
  <1> QED BY <1>1, <1>2, <1>3, <1>4, <1>5, <1>6, <1>7, <1>8, <1>9, <1>10,
             <1>11, ShowingLoop, ShowingOutcome DEF Next, Step, Handler

\* Once an answer has been announced its text stays.
LEMMA LoopFinal ==
    ASSUME TypeOK, Verdict, [Next]_vars, answered > 0
    PROVE  state'.final = state.final /\ answered' = answered
  <1>1. pc \notin Unsettled
    BY DEF Verdict, TypeOK
  <1>2. ~Recovering
    BY DEF Recovering, Verdict, TypeOK
  <1>3. ~Loop
    BY <1>1 DEF Loop, SayText, SayMarkup, RepeatTool, UseTools, ThinkOnly,
                Raise, Continue, Responding, Unsettled
  <1>4. /\ ~Prepare /\ ~CannotPrepare /\ ~Settle /\ ~ShowFinal /\ ~ShowRecovery
        /\ ~NoAnswer /\ ~Announce /\ ~FailTurn /\ ~FailTurnRaises
    BY <1>1 DEF Prepare, CannotPrepare, Settle, ShowFinal, ShowRecovery, NoAnswer,
                Announce, FailTurn, FailTurnRaises, Unsettled
  <1>5. ~AnswerFromTools /\ ~FailOver /\ ~FailRun
    BY <1>2 DEF AnswerFromTools, FailOver, FailRun
  <1>6. CASE Commit
    BY <1>6, ZenonT(40) DEF Commit, States, TypeOK, Told
  <1>7. CASE LeaveSession
    BY <1>7, ZenonT(40) DEF LeaveSession, States, TypeOK, Told
  <1>8. CASE Overlook \/ Finish \/ StoreAnswer \/ Abort \/ Close \/ UNCHANGED vars
    BY <1>8 DEF Overlook, Finish, StoreAnswer, Abort, Close, vars, Told
  <1> QED BY <1>3, <1>4, <1>5, <1>6, <1>7, <1>8
          DEF Next, Step, Outcome, Handler

\* Every step keeps Keeping: what is stored is not replaced.
LEMMA KeepingStep ==
    ASSUME TypeOK, TypeOK', Verdict, Keeping, [Next]_vars PROVE Keeping'
  <1>1. CASE StoreAnswer
    BY <1>1 DEF StoreAnswer, Keeping, Verdict, Told, TypeOK
  <1>2. CASE FailTurn \/ FailTurnRaises
    BY <1>2 DEF FailTurn, FailTurnRaises, Keeping, Verdict, Unsettled
  <1>3. CASE AnswerFromTools
    <2>1. state'.final = "tool"
      BY <1>3, ZenonT(40) DEF AnswerFromTools, States, TypeOK
    <2>2. answered' > 0
      BY <1>3 DEF AnswerFromTools, TypeOK
    <2> QED BY <1>3, <2>1, <2>2 DEF AnswerFromTools, Keeping
  <1>4. ASSUME ~StoreAnswer, ~FailTurn, ~FailTurnRaises, ~AnswerFromTools
        PROVE  kept' = kept
    <2>1. CASE Loop
      BY <2>1 DEF Loop, SayText, SayMarkup, RepeatTool, UseTools, ThinkOnly,
                  Raise, Continue
    <2>2. CASE ShowFinal \/ ShowRecovery
      BY <2>2 DEF ShowFinal, ShowRecovery, Show
    <2>3. CASE Settle \/ NoAnswer \/ Announce \/ Commit \/ LeaveSession
      BY <2>3 DEF Settle, NoAnswer, Announce, Commit, LeaveSession
    <2>4. CASE Overlook \/ FailOver \/ FailRun \/ Prepare \/ CannotPrepare
               \/ Finish
      BY <2>4 DEF Overlook, FailOver, FailRun, Prepare, CannotPrepare, Finish
    <2>5. CASE Abort \/ Close \/ UNCHANGED vars
      BY <2>5 DEF Abort, Close, vars
    <2> QED BY <1>4, <2>1, <2>2, <2>3, <2>4, <2>5
            DEF Next, Step, Outcome, Handler
  <1>5. CASE kept' = kept
    <2>1. CASE answered > 0
      BY <1>5, <2>1, LoopFinal DEF Keeping
    <2>2. CASE ~(answered > 0)
      BY <1>5, <2>2 DEF Keeping
    <2> QED BY <2>1, <2>2
  <1> QED BY <1>1, <1>2, <1>3, <1>4, <1>5

\* Showing and Keeping hold at first.
LEMMA ShowingInit == Init => Showing /\ Keeping
  BY DEF Init, Showing, Keeping, Fresh

\* The types hold: no counter of an attempt passes its limit, and what is
\* stored for the turn is one of the texts a run can end with.
THEOREM TypeCorrect == Spec => []TypeOK
  BY TypeAndVerdict, PTL

\* A run tells one verdict over all its attempts (encountered in the loop, the
\* outcome or the exception handler), and its end event is the last thing.
THEOREM RunTellsOneVerdict == Spec => []OneVerdict
  <1>1. Verdict => OneVerdict
    BY DEF Verdict, OneVerdict
  <1> QED BY <1>1, TypeAndVerdict, PTL

\* Whatever is streamed, held back, rewritten, replaced by a tool's answer or
\* rescued by the exception handler: an answer that has been announced is the
\* one text the reader was shown and the only one that is stored, unless the
\* history was compacted.
THEOREM AnswerShownIsStored == Spec => []ShownIsStored
  <1>1. TypeOK /\ Verdict /\ Showing /\ Keeping => ShownIsStored
    <2> SUFFICES ASSUME TypeOK, Verdict, Showing, Keeping,
                        answered > 0, ~state.compacted
                 PROVE  shown = <<state.final>>
      BY DEF ShownIsStored, Keeping
    <2>1. pc \in {"commit", "leave", "raised", "finish", "done"}
      BY DEF Verdict, Unsettled, TypeOK, Points
    <2>2. pc = "raised" => state.committed
      BY DEF Verdict
    <2> QED BY <2>1, <2>2 DEF Showing
  <1>2. TypeOK /\ TypeOK' /\ Verdict /\ Showing /\ Keeping /\ [Next]_vars
          => Showing' /\ Keeping'
    BY ShowingStep, KeepingStep
  <1> QED BY <1>1, <1>2, ShowingInit, TypeAndVerdict, PTL DEF Spec
=============================================================================
