--------------------------- MODULE MCQueueThreads ----------------------------
(* QueueThreads on small instances. *)
EXTENDS QueueThreads, TLC

CONSTANTS e1, e2, w1, w2, j1

MCExperts == {e1, e2}
MCTasks == {[expert |-> e1, priority |-> 1], [expert |-> e2, priority |-> 2]}

Symmetry == Permutations({w1, w2})
=============================================================================
