----------------------------- MODULE MCRunStream -----------------------------
(* RunStream with a few clients that are interchangeable. *)
EXTENDS RunStream, TLC

Symmetry == Permutations(Clients)
=============================================================================
