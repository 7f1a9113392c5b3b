--------------------------- MODULE ExpertScheduler ---------------------------
(***************************************************************************)
(* ExpertScheduler.plan_predictions() (predictive_cache/scheduler.py) with *)
(* the policy, the cost model and the capacity manager it asks             *)
(* (predictive_scheduler/): one call at a time, first the loop that        *)
(* removes duplicates, then the loop that evaluates the candidates.        *)
(*                                                                         *)
(* Scores are integers, ScoreScale stands for 1.0; costs are milliseconds, *)
(* sizes megabytes.  A priority is benefit / (1 + distance) and is         *)
(* compared crosswise.  CapacityManager is immutable: "used" is the field  *)
(* of the one that the loop has by now.                                    *)
(***************************************************************************)
EXTENDS EvictionSelection

CONSTANTS Experts,            (* expert ids                                 *)
          ScoreScale,         (* the score 1.0                              *)
          ReuseCost,          (* reuse_cost_ms                              *)
          MinimumBenefit,     (* minimum_benefit                            *)
          NoDistance,         (* estimated_distance = None                  *)
          NoCapacity,         (* cache_capacity_mb = None                   *)
          Calls               (* the calls that are made                    *)

Prediction == [expert : Experts, score : Nat, distance : Nat \cup {NoDistance}]

(* The arguments of a call: besides the predictions the residents, the     *)
(* space, and for each expert its size (expert_sizes_mb) and what loading  *)
(* it and evicting for it cost together (transfer_costs, eviction_costs).  *)
Call == [predictions : Seq(Prediction), resident : SUBSET Experts,
         capacity : (Nat \ {0}) \cup {NoCapacity}, used : Nat,
         size : [Experts -> Nat \ {0}], cost : [Experts -> Nat]]

ASSUME SchedulerAssumption ==
       /\ Experts \subseteq Nat
       /\ ScoreScale \in Nat \ {0}
       /\ ReuseCost \in Nat
       /\ MinimumBenefit \in Nat
       /\ NoDistance \notin Nat /\ NoCapacity \notin Nat
       /\ Calls \subseteq Call

VARIABLES pc,         (* where plan_predictions() is, or how it ended       *)
          call,       (* its arguments                                      *)
          todo,       (* the predictions not yet looked at                  *)
          unique,     (* unique, a dict in the order of its insertions      *)
          used,       (* used_mb of the capacity manager                    *)
          requests    (* requests, which is returned in the end             *)

planVars == <<pc, call, todo, unique, used, requests>>
vars == <<planVars, evictionVars>>

NoCall == [predictions |-> <<>>, resident |-> {}, capacity |-> NoCapacity, used |-> 0,
           size |-> [e \in Experts |-> 1], cost |-> [e \in Experts |-> 0]]

Init ==
    /\ pc = "idle" /\ call = NoCall
    /\ todo = <<>> /\ unique = <<>> /\ used = 0 /\ requests = <<>>
    /\ EvictionInit
-----------------------------------------------------------------------------
(* CostModel.benefit(), CapacityManager.can_fit(), _distance_factor().     *)
Benefit(p) == p.score * ReuseCost - call.cost[p.expert] * ScoreScale

IsWorthIt(p) == Benefit(p) > MinimumBenefit * ScoreScale

CanFit(size) == size <= call.capacity - used

(* SchedulerPrediction's __post_init__.                                    *)
IsValid(p) == p.score <= ScoreScale

Slowdown(p) == IF p.distance = NoDistance THEN 1 ELSE 1 + p.distance

Before(p, q) ==
    LET x == Benefit(p) * Slowdown(q)
        y == Benefit(q) * Slowdown(p) IN
    x > y \/ (x = y /\ p.expert < q.expert)
-----------------------------------------------------------------------------
(* SchedulerPolicy.decide(); without a capacity the benefit alone decides. *)
Decide(p) ==
    IF ~IsWorthIt(p) THEN "WAIT"
    ELSE IF call.capacity = NoCapacity \/ CanFit(call.size[p.expert]) THEN "PREFETCH" ELSE "EVICT"

Raise == pc' = "raised" /\ requests' = <<>>

Plan(c) ==
    /\ call' = c
    /\ todo' = c.predictions
    /\ used' = c.used
    /\ \/ c.capacity # NoCapacity /\ c.used > c.capacity /\ Raise
       \/ ~(c.capacity # NoCapacity /\ c.used > c.capacity)
          /\ pc' = "deduplicate" /\ UNCHANGED requests
    /\ UNCHANGED unique

(* Mutant: the later of two predictions is kept.                           *)
KeepLater(p) ==
    LET same == {i \in DOMAIN unique : unique[i].expert = p.expert} IN
    IF same = {} THEN Append(unique, p) ELSE [unique EXCEPT ![CHOOSE i \in same : TRUE] = p]

(* The first of the strongest predictions of an expert stays, at the place *)
(* of the expert's first one.                                              *)
KeepStrongest(p) ==
    LET same == {i \in DOMAIN unique : unique[i].expert = p.expert}
        i == CHOOSE j \in same : TRUE IN
    IF same = {} THEN Append(unique, p)
    ELSE IF p.score > unique[i].score THEN [unique EXCEPT ![i] = p] ELSE unique

Deduplicate ==
    /\ pc = "deduplicate" /\ todo # <<>>
    /\ todo' = Tail(todo)
    /\ unique' = IF Head(todo).expert \in call.resident THEN unique ELSE KeepStrongest(Head(todo))
    /\ UNCHANGED <<pc, call, used, requests>>

(* Mutant: the candidates are taken from the end.                          *)
BeginWithLast ==
    /\ pc = "deduplicate" /\ todo = <<>>
    /\ pc' = "evaluate" /\ todo' = Reverse(unique)
    /\ UNCHANGED <<call, unique, used, requests>>

BeginEvaluation ==
    /\ pc = "deduplicate" /\ todo = <<>>
    /\ pc' = "evaluate" /\ todo' = unique
    /\ UNCHANGED <<call, unique, used, requests>>

(* Mutant: nothing is reserved.                                            *)
ReserveNothing(size) == UNCHANGED used

Reserve(size) == used' = used + size

(* One candidate; reserve() looks at the space again and raises when there *)
(* is too little.                                                          *)
Evaluate ==
    LET p == Head(todo)
        size == call.size[p.expert] IN
    /\ pc = "evaluate" /\ todo # <<>>
    /\ todo' = Tail(todo)
    /\ \/ ~IsValid(p) /\ Raise /\ UNCHANGED used
       \/ /\ IsValid(p) /\ Decide(p) # "PREFETCH"
          /\ UNCHANGED <<pc, used, requests>>
       \/ /\ IsValid(p) /\ Decide(p) = "PREFETCH"
          /\ IF call.capacity = NoCapacity
                THEN requests' = Append(requests, p) /\ UNCHANGED <<pc, used>>
                ELSE IF CanFit(size)
                        THEN requests' = Append(requests, p) /\ Reserve(size) /\ UNCHANGED pc
                        ELSE Raise /\ UNCHANGED used
    /\ UNCHANGED <<call, unique>>

Rank ==
    /\ pc = "evaluate" /\ todo = <<>>
    /\ pc' = "returned"
    /\ requests' = StableSort(requests, OrderOn(ToSet(requests), Before))
    /\ UNCHANGED <<call, todo, unique, used>>

(* The next call starts from nothing: the scheduler keeps no state.        *)
Return ==
    /\ pc \in {"returned", "raised"}
    /\ pc' = "idle" /\ call' = NoCall
    /\ todo' = <<>> /\ unique' = <<>> /\ used' = 0 /\ requests' = <<>>

PlanNext ==
    \/ pc = "idle" /\ \E c \in Calls : Plan(c)
    \/ Deduplicate
    \/ BeginEvaluation
    \/ Evaluate
    \/ Rank
    \/ Return

(* The two functions share no state; one call is made at a time.           *)
Next ==
    \/ phase = "idle" /\ PlanNext /\ UNCHANGED evictionVars
    \/ pc = "idle" /\ EvictionNext /\ UNCHANGED planVars

Spec == Init /\ [][Next]_vars
-----------------------------------------------------------------------------
TotalSize(s) == SumFunction([i \in DOMAIN s |-> call.size[s[i].expert]])

(* The prediction of an expert that a caller who knows nothing of the two  *)
(* loops would take: of all those given, the first of the strongest.       *)
Strongest(e) ==
    LET s == call.predictions
        mine == {i \in DOMAIN s : s[i].expert = e}
        best == {i \in mine : \A j \in mine : s[j].score <= s[i].score} IN
    s[CHOOSE i \in best : \A j \in best : i <= j]

Predicted == {p.expert : p \in ToSet(call.predictions)} \ call.resident
Wanted == {Strongest(e) : e \in {x \in Predicted : IsWorthIt(Strongest(x))}}

(* What is returned is the strongest prediction of experts that are not    *)
(* resident, each once, and an expert worth it is left out only when it    *)
(* does not even fit beside what was taken (scheduler.py:244-264,          *)
(* 311-382).                                                               *)
PlanIsFull ==
    pc = "returned" =>
        /\ ToSet(requests) \subseteq Wanted
        /\ Len(requests) = Cardinality(ToSet(requests))
        /\ \A p \in Wanted \ ToSet(requests) :
              call.capacity # NoCapacity /\ ~CanFit(call.size[p.expert])

(* Strongest predictions first and all experts of one size, as the         *)
(* predictor and a model with equal experts give them: the capacity goes   *)
(* to the strongest of the experts worth it (scheduler.py:272, 357-382).   *)
StrongestGetTheSpace ==
    LET s == call.predictions IN
    /\ pc = "returned"
    /\ \A i, j \in DOMAIN s : i <= j => s[i].score >= s[j].score
    /\ \A e, f \in Experts : call.size[e] = call.size[f]
    => \A p \in ToSet(requests), q \in Wanted \ ToSet(requests) : p.score >= q.score

(* Requests and what the cache held before fit in the cache together, at   *)
(* every moment of the loop (scheduler.py:378-382).  The call fails only   *)
(* for what it was given, a used_mb above the capacity or a prediction out *)
(* of range: the ValueError of reserve() cannot come (capacity.py:96-101   *)
(* after policy.py:92).                                                    *)
NoOvercommit ==
    /\ call.capacity # NoCapacity /\ pc # "raised" =>
          /\ used = call.used + TotalSize(requests)
          /\ used <= call.capacity
    /\ pc = "raised" =>
          \/ call.capacity # NoCapacity /\ call.used > call.capacity
          \/ \E e \in Predicted : ~IsValid(Strongest(e))
=============================================================================
