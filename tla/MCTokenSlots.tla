---------------------------- MODULE MCTokenSlots ----------------------------
(***************************************************************************)
(* Instances of TokenSlots for TLC: r1, r2 and r4 are turns of one session *)
(* and r3 is a turn of another; t1 is the primary token and t3 the last in *)
(* the pool's order; r2 carries an image only t1 and t2 can see, r3 one    *)
(* only t1 can.                                                            *)
(***************************************************************************)
EXTENDS TokenSlots, TLC

CONSTANTS r1, r2, r3, r4, s1, s2, t1, t2, t3

MCRank == t1 :> 3 @@ t2 :> 2 @@ t3 :> 1
MCSessionOf == r1 :> s1 @@ r2 :> s1 @@ r3 :> s2 @@ r4 :> s1
MCEligible == r1 :> Tokens @@ r2 :> {t1, t2} @@ r3 :> {t1} @@ r4 :> Tokens
MCMixed == r1 :> "webhook" @@ r2 :> "api" @@ r3 :> "api" @@ r4 :> "webhook"
=============================================================================
