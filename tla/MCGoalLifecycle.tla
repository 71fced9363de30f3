-------------------------- MODULE MCGoalLifecycle --------------------------
(* Small instances of GoalLifecycle for TLC.                                *)
EXTENDS GoalLifecycle, TLC

Symmetry == Permutations(Frontier)

\* The points of every frontier are quantised apart, or all alike.
OwnBuckets == [f \in Frontier |-> f]
OneBucket == [f \in Frontier |-> "near"]

=============================================================================
