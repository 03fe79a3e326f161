---------------------------- MODULE MCReplication ----------------------------
(* Replication for TLC: replicas and calls are interchangeable. *)
EXTENDS Replication, TLC

Symmetry == Permutations(Replica) \cup Permutations(Call)

\* Bound on the goroutines and messages under way: both of one call and one of another.
MaxUnderWay == 3

\* The properties promise nothing once something is broken.
Bounded ==
    /\ Broken = {}
    /\ Cardinality(starts) + Cardinality(sent) + Cardinality(answers) <= MaxUnderWay
=============================================================================
