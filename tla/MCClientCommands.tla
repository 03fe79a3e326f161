-------------------------- MODULE MCClientCommands --------------------------
(* ClientCommands for TLC: requests and clients are interchangeable. *)
EXTENDS ClientCommands, TLC

Symmetry == Permutations(Client) \cup Permutations(Value)
=============================================================================
