----------------------------- MODULE MCElection -----------------------------
(* Election for TLC: the replicas are interchangeable. *)
EXTENDS Election, TLC

Symmetry == Permutations(Replica)
=============================================================================
