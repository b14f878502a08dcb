------------------------------- MODULE MCChannel -------------------------------
(* Instances of ChannelManager for TLC.                                       *)
EXTENDS ChannelManager, TLC

\* Requests are interchangeable, and so are the tasks named after them.
Symmetry == Permutations(Requests)
================================================================================
