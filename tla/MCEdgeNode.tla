----------------------------- MODULE MCEdgeNode -----------------------------
(* TLC instance of EdgeNode. *)
EXTENDS EdgeNode, TLC
GoalSymmetry == Permutations(Sendable)
=============================================================================
