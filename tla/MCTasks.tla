------------------------------ MODULE MCTasks ------------------------------
(* TLC instances of Tasks.                                                 *)
EXTENDS TasksRefinement, TLC

MCSymmetry == Permutations(TaskIds) \cup Permutations(Keys)
                 \cup Permutations(Submits) \cup Permutations(Cancels)

=============================================================================
