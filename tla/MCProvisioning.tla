--------------------------- MODULE MCProvisioning ---------------------------
(***************************************************************************)
(* Instances of Provisioning for TLC.  Requests differ in nothing but      *)
(* their name, and no liveness is checked.                                 *)
(***************************************************************************)
EXTENDS Provisioning, TLC

Symmetry == Permutations(Requests)
=============================================================================
