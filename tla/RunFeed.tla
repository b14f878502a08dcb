------------------------------- MODULE RunFeed -------------------------------
(***************************************************************************)
(* What the chat promises about one agent run, apart from how events are   *)
(* buffered and queued: the run is decided once; its events form one feed; *)
(* every reader reads the feed from the start, or from where it stopped,   *)
(* one event after the other with none left out and none repeated; and     *)
(* what a reader is told about the end of the run is how it ended.         *)
(***************************************************************************)
EXTENDS Naturals

CONSTANTS Readers, Running, Outcomes

VARIABLES
  outcome,  \* Running until the run is decided
  length,   \* events in the feed
  position, \* per reader: the last event it has read
  told      \* per reader: what it knows of the outcome

feedVars == <<outcome, length, position, told>>

FeedInit ==
  /\ outcome = Running
  /\ length = 0
  /\ position = [r \in Readers |-> 0]
  /\ told = [r \in Readers |-> Running]

\* The run adds events; with them it may be decided, once.
Extend ==
  /\ length' \in Nat
  /\ length' > length
  /\ outcome' = outcome \/ (outcome = Running /\ outcome' \in Outcomes)
  /\ UNCHANGED <<position, told>>

\* A reader reads the next event, and learns the outcome if the event says it.
Read(r) ==
  /\ position[r] < length
  /\ position' = [position EXCEPT ![r] = @ + 1]
  /\ \/ told' = told
     \/ outcome # Running /\ told' = [told EXCEPT ![r] = outcome]
  /\ UNCHANGED <<outcome, length>>

\* A reader starts over.
Restart(r) ==
  /\ position' = [position EXCEPT ![r] = 0]
  /\ told' = [told EXCEPT ![r] = Running]
  /\ UNCHANGED <<outcome, length>>

FeedNext == Extend \/ \E r \in Readers : Read(r) \/ Restart(r)

FeedSpec == FeedInit /\ [][FeedNext]_feedVars
=============================================================================
