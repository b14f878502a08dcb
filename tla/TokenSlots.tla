----------------------------- MODULE TokenSlots -----------------------------
(***************************************************************************)
(* Which model token an agent run uses, and the slot it holds while it     *)
(* uses it.  An agent instance is bound to one token and carries a         *)
(* semaphore (agent/agent_pool.py); a session is pinned to one token       *)
(* (agent/token_policy.py); a run that fails hard on its token blames it,  *)
(* gives its slot back and runs itself once more on the session's new      *)
(* token (runner_execution_retry.py).  The nested run has its own slot;    *)
(* the outer run still remembers the slot it gave back until the nested    *)
(* stream has been read to its end (runner_execution_flow_error.py).       *)
(*                                                                         *)
(* Who reads the stream matters, for an async generator that is dropped    *)
(* runs its `finally` at the yield where it stands.  Three kinds of reader *)
(* exist, see Callers.                                                     *)
(*                                                                         *)
(* Abstracted: the model and its tools (a run in "model" ends in any of    *)
(* the ways the code distinguishes), the wording of errors, the provider   *)
(* and model filters of a selection (no caller sets them), and rate limit  *)
(* headers (no code records any, so health is only ever lost).             *)
(***************************************************************************)
EXTENDS Naturals, FiniteSets, Sequences

CONSTANTS
    Runs,           \* the agent runs
    Sessions,
    Tokens,         \* the registered tokens of the pool
    None,           \* no token
    MaxConcurrent,  \* max_concurrent_per_instance
    Primary,        \* primary_token_id, set by main.py to a registered token
    Rank,           \* the pool's order by priority and weight, higher first
    SessionOf,      \* the session a run belongs to
    Caller,         \* who reads a run's events
    Eligible        \* _chat_vision_tokens of a run; all tokens without images

\* "api" stops at the first terminal lifecycle event and may be aborted
\* (run_service), "channel" stops at the first error event (channels/manager,
\* the heartbeat executor of main), "webhook" reads to the end.
Callers == {"api", "channel", "webhook"}

ASSUME FiniteAssumption == IsFiniteSet(Runs) /\ IsFiniteSet(Tokens)
ASSUME SlotAssumption == MaxConcurrent \in Nat \ {0}
ASSUME TokenAssumption == Primary \in Tokens /\ None \notin Tokens
ASSUME RankAssumption ==
    /\ Rank \in [Tokens -> Nat]
    /\ \A t, u \in Tokens : Rank[t] = Rank[u] => t = u
ASSUME RunAssumption ==
    /\ SessionOf \in [Runs -> Sessions]
    /\ Caller \in [Runs -> Callers]
    /\ Eligible \in [Runs -> SUBSET Tokens]

VARIABLES
    unhealthy,  \* tokens whose health has no request left
    pin,        \* _session_token_map
    permits,    \* value of each instance's semaphore
    waiting,    \* waiters of each semaphore, in order of arrival
    pc,         \* where each run stands
    token,      \* the token the current attempt of a run was resolved to
    gaveBack    \* the token of the outer attempt of a run that failed over

vars == <<unhealthy, pin, permits, waiting, pc, token, gaveBack>>

\* "idle": not started; "queued": waits for a slot; "prepare", "model": holds
\* one; "retry": gave its slot back, the nested run has not resolved a token;
\* "done": the stream is closed.
Phases == {"idle", "queued", "prepare", "model", "retry", "done"}

\* A run that waits for a slot or holds one has been resolved to a token.
Placed == \A r \in Runs :
    pc[r] \in {"queued", "prepare", "model"} => token[r] \in Tokens

TypeOK ==
    /\ unhealthy \in SUBSET Tokens
    /\ pin \in [Sessions -> Tokens \cup {None}]
    /\ permits \in [Tokens -> Nat]
    /\ waiting \in [Tokens -> Seq(Runs)]
    /\ pc \in [Runs -> Phases]
    /\ token \in [Runs -> Tokens \cup {None}]
    /\ gaveBack \in [Runs -> Tokens \cup {None}]
    /\ Placed

Init ==
    /\ unhealthy = {}
    /\ pin = [s \in Sessions |-> None]
    /\ permits = [t \in Tokens |-> MaxConcurrent]
    /\ waiting = [t \in Tokens |-> <<>>]
    /\ pc = [r \in Runs |-> "idle"]
    /\ token = [r \in Runs |-> None]
    /\ gaveBack = [r \in Runs |-> None]

-----------------------------------------------------------------------------
(* Selection *)

\* Mutant of Best: the order of the pool alone, whatever a token's health.
BestByPriority(candidates, bad) ==
    {t \in candidates : \A u \in candidates \ {t} : Rank[t] > Rank[u]}

\* select_token over `candidates` with the health strategy: the healthy come
\* first, then priority and weight.  Empty when there is no candidate.
Best(candidates, bad) ==
    {t \in candidates : \A u \in candidates \ {t} :
        IF (t \in bad) = (u \in bad) THEN Rank[t] > Rank[u] ELSE u \in bad}

\* What a session would be given: its pin whatever its health, the primary
\* token while it is healthy, the best token of the pool.
TokenFor(s) ==
    IF pin[s] # None THEN {pin[s]}
    ELSE IF Primary \notin unhealthy THEN {Primary}
    ELSE Best(Tokens, unhealthy)

\* Two calls of mark_session_token_unhealthy: the first blames the session's
\* present pin and looks elsewhere; when that finds nothing, a second call
\* has no pin to blame or to exclude.  Both leave the session on what they
\* found.
Replacement(r, bad) ==
    LET elsewhere == Eligible[r] \ {pin[SessionOf[r]]}
    IN  IF elsewhere # {} THEN Best(elsewhere, bad)
        ELSE Best(Eligible[r], bad)

-----------------------------------------------------------------------------
(* Slots *)

Nested(r) == gaveBack[r] # None

Holds(r, t) == pc[r] \in {"prepare", "model"} /\ token[r] = t

Holders(t) == {r \in Runs : Holds(r, t)}

One(b) == IF b THEN 1 ELSE 0

\* Mutant of Close: only a first attempt gives its slot back.
CloseKeepsNested(r, returned, forgotten) ==
    /\ pc' = [pc EXCEPT ![r] = "done"]
    /\ permits' = [t \in Tokens |->
         permits[t] + One(returned /\ Holds(r, t) /\ ~Nested(r))
                    + One(~forgotten /\ gaveBack[r] = t)]

\* Mutant of Close: the outer attempt never forgets the slot it gave back.
CloseRemembers(r, returned, forgotten) ==
    /\ pc' = [pc EXCEPT ![r] = "done"]
    /\ permits' = [t \in Tokens |->
         permits[t] + One(returned /\ Holds(r, t)) + One(gaveBack[r] = t)]

\* The stream of r is over, or its reader has dropped it.  `returned`: the
\* attempt r is in gives its own slot back.  `forgotten`: the outer attempt
\* got to forget the slot it gave back before (flow_error clears it when the
\* nested stream has been read to its end); otherwise the `finally` of the
\* outer run gives that slot back again.
Close(r, returned, forgotten) ==
    /\ pc' = [pc EXCEPT ![r] = "done"]
    /\ permits' = [t \in Tokens |->
         permits[t] + One(returned /\ Holds(r, t))
                    + One(~forgotten /\ gaveBack[r] = t)]

-----------------------------------------------------------------------------
(* Actions *)

\* _resolve_runtime_agent up to the wait for the semaphore.  The token is
\* chosen and pinned; the instance is created on first use with a full
\* semaphore; an image run on a token without vision fails before it waits.
Resolve(r) ==
    /\ pc[r] \in {"idle", "retry"}
    /\ \E t \in TokenFor(SessionOf[r]) :
         /\ pin' = [pin EXCEPT ![SessionOf[r]] = t]
         /\ token' = [token EXCEPT ![r] = t]
         /\ \/ /\ t \in Eligible[r]
               /\ waiting' = [waiting EXCEPT ![t] = Append(@, r)]
               /\ pc' = [pc EXCEPT ![r] = "queued"]
               /\ UNCHANGED permits
            \/ /\ t \notin Eligible[r]
               /\ Close(r, FALSE, Caller[r] = "webhook")
               /\ UNCHANGED waiting
    /\ UNCHANGED <<unhealthy, gaveBack>>

\* Mutant of Acquire: a slot is taken whether or not there is one.
AcquireAnyway(r) ==
    /\ pc[r] = "queued"
    /\ LET t == token[r] IN
         /\ waiting[t] # <<>> /\ Head(waiting[t]) = r
         /\ permits' = [permits EXCEPT ![t] = @ - 1]
         /\ waiting' = [waiting EXCEPT ![t] = Tail(@)]
    /\ pc' = [pc EXCEPT ![r] = "prepare"]
    /\ UNCHANGED <<unhealthy, pin, token, gaveBack>>

\* The semaphore serves its waiters in order.
Acquire(r) ==
    /\ pc[r] = "queued"
    /\ LET t == token[r] IN
         /\ permits[t] > 0
         /\ waiting[t] # <<>> /\ Head(waiting[t]) = r
         /\ permits' = [permits EXCEPT ![t] = @ - 1]
         /\ waiting' = [waiting EXCEPT ![t] = Tail(@)]
    /\ pc' = [pc EXCEPT ![r] = "prepare"]
    /\ UNCHANGED <<unhealthy, pin, token, gaveBack>>

\* The prepare phase hands the slot to the run's state when it ends.
Prepared(r) ==
    /\ pc[r] = "prepare"
    /\ pc' = [pc EXCEPT ![r] = "model"]
    /\ UNCHANGED <<unhealthy, pin, permits, waiting, token, gaveBack>>

SlotLostByReader(r) == Caller[r] = "channel"

\* The prepare phase yields an error event (context window too small, no
\* executable tool left) while only its own local variable knows the slot.  A
\* reader that stops there closes the run before that variable reaches the
\* run's state: nobody gives the slot back.
PrepareError(r) ==
    /\ pc[r] = "prepare"
    /\ Close(r, ~SlotLostByReader(r), Caller[r] = "webhook")
    /\ UNCHANGED <<unhealthy, pin, waiting, token, gaveBack>>

\* The run ends with an answer.  After a failover the last event is the
\* lifecycle end that _retry_after_hard_token_failure yields, and "api" stops
\* reading right there.
Answer(r) ==
    /\ pc[r] = "model"
    /\ Close(r, TRUE, Caller[r] # "api")
    /\ UNCHANGED <<unhealthy, pin, waiting, token, gaveBack>>

\* The run ends with an error event: a failure that is not the token's, one
\* after a tool has run, or a second one (TOKEN_FAILOVER_MAX_ATTEMPTS is 1).
Fail(r) ==
    /\ pc[r] = "model"
    /\ Close(r, TRUE, Caller[r] = "webhook")
    /\ UNCHANGED <<unhealthy, pin, waiting, token, gaveBack>>

\* Mutant of HardFail: the run goes for a second slot and keeps the first.
HardFailHolding(r) ==
    /\ pc[r] = "model"
    /\ ~Nested(r)
    /\ Cardinality(Tokens) > 1
    /\ LET s == SessionOf[r]
           bad == unhealthy \cup {token[r]} \cup ({pin[s]} \ {None})
       IN  /\ unhealthy' = bad
           /\ \E t \in Replacement(r, bad) \ {token[r]} :
                 /\ pin' = [pin EXCEPT ![s] = t]
                 /\ gaveBack' = [gaveBack EXCEPT ![r] = token[r]]
                 /\ pc' = [pc EXCEPT ![r] = "retry"]
    /\ UNCHANGED <<permits, waiting, token>>

\* The model refuses the token of a first attempt.  The token is blamed, and
\* so is the token the session is pinned to by now, which another run of the
\* session may have changed; the session is pinned to the replacement.  When
\* that is no other token than the one that failed the run ends as in Fail,
\* otherwise its slot is given back and it runs itself again.
HardFail(r) ==
    /\ pc[r] = "model"
    /\ ~Nested(r)
    /\ Cardinality(Tokens) > 1
    /\ LET s == SessionOf[r]
           bad == unhealthy \cup {token[r]} \cup ({pin[s]} \ {None})
           next == Replacement(r, bad)
       IN  /\ unhealthy' = bad
           /\ \/ /\ next \ {token[r]} = {}
                 /\ pin' = [pin EXCEPT ![s] = IF next = {} THEN None ELSE token[r]]
                 /\ Close(r, TRUE, TRUE)
                 /\ UNCHANGED gaveBack
              \/ \E t \in next \ {token[r]} :
                   /\ pin' = [pin EXCEPT ![s] = t]
                   /\ permits' = [permits EXCEPT ![token[r]] = @ + 1]
                   /\ gaveBack' = [gaveBack EXCEPT ![r] = token[r]]
                   /\ pc' = [pc EXCEPT ![r] = "retry"]
    /\ UNCHANGED <<waiting, token>>

\* abort_run cancels the task that reads the stream: the cancellation unwinds
\* the nested and the outer run, and a queued run leaves the semaphore.
Abort(r) ==
    /\ Caller[r] = "api"
    /\ pc[r] \in {"queued", "prepare", "model", "retry"}
    /\ Close(r, TRUE, FALSE)
    /\ \/ pc[r] # "queued" /\ UNCHANGED waiting
       \/ /\ pc[r] = "queued"
          /\ \E i \in 1..Len(waiting[token[r]]) :
               /\ waiting[token[r]][i] = r
               /\ waiting' = [waiting EXCEPT ![token[r]] =
                    SubSeq(@, 1, i - 1) \o SubSeq(@, i + 1, Len(@))]
    /\ UNCHANGED <<unhealthy, pin, token, gaveBack>>

Step(r) ==
    \/ Resolve(r) \/ Acquire(r) \/ Prepared(r) \/ PrepareError(r)
    \/ Answer(r) \/ Fail(r) \/ HardFail(r)

Next == \E r \in Runs : Step(r) \/ Abort(r)

\* The event loop runs every task that can go on, the semaphore wakes its
\* waiters in order, and a model call or a tool ends: the stream of a model
\* has a timeout for its first and for every further event.
Fairness == \A r \in Runs : WF_vars(Step(r))

Spec == Init /\ [][Next]_vars
LiveSpec == Spec /\ Fairness

-----------------------------------------------------------------------------
(* Properties *)

Surplus(t) == {r \in Runs :
    Caller[r] # "webhook" /\ pc[r] = "done" /\ gaveBack[r] = t}

\* A slot too many comes from nowhere but a run that failed over and whose
\* reader dropped the stream before the run could forget the slot it had
\* given back: without such a run an instance has the slots it began with.
SurplusExplained == \A t \in Tokens :
    permits[t] + Cardinality(Holders(t))
        <= MaxConcurrent + Cardinality(Surplus(t))

\* An instance never serves more runs than its limit
\* (docs/MODULE-DETAILS.MD: "a semaphore limiting concurrent requests").
SlotsBounded == \A t \in Tokens : Cardinality(Holders(t)) <= MaxConcurrent

\* A run that is over has left its slot behind.
NoSlotLost == \A t \in Tokens :
    permits[t] + Cardinality(Holders(t)) >= MaxConcurrent

\* Some run of the session that has begun has no token left that is healthy.
Exhausted(s) == \E q \in Runs :
    SessionOf[q] = s /\ pc[q] # "idle" /\ Eligible[q] \subseteq unhealthy

\* "Rotate away from a hard-failed token and retry the same run once": the
\* second attempt of a run is not made on the token its first one failed on,
\* unless a run of the session has run out of tokens: another turn that fails
\* may then put the session back before the attempt is resolved.
RetryElsewhere == \A r \in Runs :
    /\ Nested(r)
    /\ pc[r] \in {"queued", "prepare", "model"}
    /\ token[r] = gaveBack[r]
    => Exhausted(SessionOf[r])

\* Every run ends: no run waits for ever for a slot, though a failover takes
\* a second slot and the first may be wanted by another failover.
RunsEnd == \A r \in Runs : <>(pc[r] = "done")

=============================================================================
