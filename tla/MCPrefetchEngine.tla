-------------------------- MODULE MCPrefetchEngine ---------------------------
(* Instances of PrefetchEngine for TLC.                                    *)
EXTENDS PrefetchEngine, TLC
CONSTANTS e1, e2, w1, w2, c1, c2

OneExpert == {e1}
TwoExperts == {e1, e2}
TwoWorkers == {w1, w2}

TwoTasks == {[expert |-> e1, priority |-> 1], [expert |-> e2, priority |-> 2]}
(* One expert with two priorities, another one with the lower of them.     *)
ThreeTasks == TwoTasks \cup {[expert |-> e2, priority |-> 1]}
OneTask == {[expert |-> e1, priority |-> 1]}

Threads == Permutations(TwoWorkers)
=============================================================================
