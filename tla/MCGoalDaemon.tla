---------------------------- MODULE MCGoalDaemon ----------------------------
(* A small instance of GoalDaemon: one goal that may be retried once and one that may not. *)
EXTENDS GoalDaemon, TLC

CONSTANTS g1, g2

MCMaxRetries == [g \in Goal |-> IF g = g1 THEN 2 ELSE 1]
Symmetry == Permutations(Run)
MCPriority == [g \in Goal |-> 1]
=============================================================================
