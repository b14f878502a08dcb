----------------------------- MODULE MCHeartbeat -----------------------------
(***************************************************************************)
(* Instances of HeartbeatJobs for TLC: two users, one with a connection.   *)
(***************************************************************************)
EXTENDS HeartbeatJobs, TLC

CONSTANTS a1, a2, c1, u1, u2

MCOwner == a1 :> u1 @@ c1 :> u1 @@ a2 :> u2
MCBackoff == <<1, 2>>
=============================================================================
