------------------------------ MODULE MCSession ------------------------------
(* SessionStore with a few keys and calls that are interchangeable. *)
EXTENDS SessionStore, TLC

Symmetry == Permutations(Calls)
==============================================================================
