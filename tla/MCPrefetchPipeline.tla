------------------------- MODULE MCPrefetchPipeline --------------------------
(* Instances of PrefetchPipeline for TLC.                                  *)
EXTENDS PrefetchPipeline, TLC
CONSTANTS e1, e2, w1, w2, c1, p1

BothExperts == {e1, e2}
TwoWorkers == {w1, w2}

Ask(e, priority, confidence) == [expert |-> e, priority |-> priority, confidence |-> confidence]

(* A good plan for both experts, one that fails each threshold, none.      *)
GoodPlan == <<Ask(e1, 2, 1), Ask(e2, 1, 1)>>
OnePlan == <<Ask(e1, 1, 1)>>
WeakPlan == <<Ask(e2, 0, 1), Ask(e1, 1, 0)>>
AllPlans == {GoodPlan, OnePlan, WeakPlan, <<>>}
PlannedTasks == {TaskOf(plan[i]) : plan \in {GoodPlan, WeakPlan}, i \in {1, 2}}
                    \cup {TaskOf(OnePlan[1])}
Threads == Permutations(TwoWorkers)
=============================================================================
