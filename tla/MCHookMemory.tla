---------------------------- MODULE MCHookMemory ----------------------------
(***************************************************************************)
(* Instances of HookMemory for TLC: an event that leaves an item, two      *)
(* clients who decide on it and the background task of a turn.             *)
(***************************************************************************)
EXTENDS HookMemory, TLC

CONSTANTS e1, yes, no, t1, i1, i2

MCDecisions == e1 :> "event" @@ yes :> "confirm" @@ no :> "reject" @@ t1 :> "turn"
=============================================================================
