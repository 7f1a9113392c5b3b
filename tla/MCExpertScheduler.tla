-------------------------- MODULE MCExpertScheduler --------------------------
(* ExpertScheduler on small instances: up to three predictions of three    *)
(* experts, of two sizes and costs or of one, with and without a capacity; *)
(* and evictions among three experts.                                      *)
EXTENDS ExpertScheduler

MCExperts == 1 .. 3
Sizes == [e \in MCExperts |-> IF e = 1 THEN 2 ELSE 1]
Costs == [e \in MCExperts |-> IF e = 3 THEN 2 ELSE 1]
Ones == [e \in MCExperts |-> 1]

MCPredictions(scores, distances) == [expert : MCExperts, score : scores, distance : distances]

Given(predictions, limits, sizes, costs) ==
    {c \in [predictions : predictions, resident : {{}, {2}},
            capacity : {l[1] : l \in limits}, used : {l[2] : l \in limits},
            size : {sizes}, cost : {costs}] :
        <<c.capacity, c.used>> \in limits}

UpTo(n, P) == UNION {[1 .. k -> P] : k \in 0 .. n}

(* Score 5 is out of range, as is a used_mb of 2 in a capacity of 1.       *)
MCCalls ==
    Given(UpTo(3, MCPredictions({2, 4}, {NoDistance, 2})),
          {<<NoCapacity, 0>>, <<3, 0>>, <<3, 1>>}, Sizes, Costs)
    \cup Given(UpTo(2, MCPredictions({2, 4, 5}, {2})),
               {<<NoCapacity, 0>>, <<3, 1>>, <<1, 2>>}, Sizes, Costs)
    \cup Given(UpTo(3, MCPredictions({2, 3, 4}, {NoDistance})),
               {<<NoCapacity, 0>>, <<3, 1>>, <<2, 1>>}, Ones, Ones)

(* Three experts of three sizes and two priorities, on the GPU or not;     *)
(* from nothing to more than all of them has to be freed.                  *)
MCStates ==
    {<<[expert |-> 1, size |-> a[1], priority |-> a[2], onGpu |-> a[3]],
       [expert |-> 2, size |-> b[1], priority |-> b[2], onGpu |-> b[3]],
       [expert |-> 3, size |-> c[1], priority |-> c[2], onGpu |-> c[3]]>> :
        a, b, c \in (1 .. 3) \X (0 .. 1) \X BOOLEAN}

MCEvictionCalls == [states : MCStates, size : {1, 3, 5, 7}, free : 0 .. 1]
=============================================================================
