--------------------------- MODULE RoutingAnalysis ---------------------------
(***************************************************************************)
(* The analysis of a routing history in predictive_cache/routing: access   *)
(* patterns, transitions, features, scores and the best of them, and the   *)
(* adapter that hands these to the scheduler.  All of it is pure.          *)
(*                                                                         *)
(* A history is a sequence of events [step, layer, experts].  A number of  *)
(* [0, 1] is its numerator over a denominator common to all experts, as in *)
(* ExpertPredictor, and a configuration w has the fields frequency,        *)
(* recency, transition (the weights), decay (exp(-age / recency_decay),    *)
(* times the scale, for an age of 0 and more) and scale.                   *)
(***************************************************************************)
EXTENDS Ordering

ExpertsOf(history) == UNION {ToSet(history[i].experts) : i \in DOMAIN history}

(* by_expert() and by_step() of the history.                               *)
ByExpert(history, e) ==
    SubSequence(history, {i \in DOMAIN history : e \in ToSet(history[i].experts)})
ByStep(history, s) == SubSequence(history, {i \in DOMAIN history : history[i].step = s})
-----------------------------------------------------------------------------
NewPattern(event) ==
    [count |-> 1, first |-> event.step, last |-> event.step, layers |-> {event.layer}]

(* The first step kept is that of the first event, not the smallest one.   *)
Again(pattern, event) ==
    [pattern EXCEPT !.count = @ + 1, !.last = Max({@, event.step}),
                    !.layers = @ \cup {event.layer}]

AddEvent(patterns, event) ==
    [e \in DOMAIN patterns \cup ToSet(event.experts) |->
        IF e \notin ToSet(event.experts) THEN patterns[e]
        ELSE IF e \in DOMAIN patterns THEN Again(patterns[e], event)
        ELSE NewPattern(event)]

AccessPatterns(history) == FoldLeft(AddEvent, <<>>, history)

Follows(experts, p, e) ==
    \E j \in 1 .. Len(experts) - 1 : experts[j] = p /\ experts[j + 1] = e

(* How often an expert comes right after another within one event.         *)
TransitionCounts(history) ==
    LET experts == ExpertsOf(history) IN
    [p \in experts |-> [e \in experts |->
        Cardinality({i \in DOMAIN history : Follows(history[i].experts, p, e)})]]

(* Mutant: the pairs are added up, not their counts.                       *)
PairsFrom(counts) == [p \in DOMAIN counts |-> Cardinality({e \in DOMAIN counts : counts[p][e] > 0})]

TotalsFrom(counts) == [p \in DOMAIN counts |-> SumFunction(counts[p])]
-----------------------------------------------------------------------------
(* The features raise ValueError for a step before the last of an expert.  *)
FeaturesRaise(history, now) ==
    LET patterns == AccessPatterns(history) IN
    now < 0 \/ \E e \in DOMAIN patterns : now < patterns[e].last

(* The common denominator of the transitions from the current experts.     *)
Common(totals, current) == FoldSet(LAMBDA p, n : n * Max({1, totals[p]}), 1, current)

(* The strongest transition from a current expert.                         *)
StrongestTransition(counts, totals, current, e) ==
    Max({0} \cup {counts[p][e] * (Common(totals, current) \div totals[p]) :
                     p \in {q \in current : totals[q] > 0}})

CandidateFeatures(history, now, current) ==
    LET patterns == AccessPatterns(history)
        counts == TransitionCounts(history)
        totals == TotalsFrom(counts) IN
    [e \in DOMAIN patterns |->
        [frequency |-> patterns[e].count, recency |-> now - patterns[e].last,
         transition |-> StrongestTransition(counts, totals, current \cap DOMAIN totals, e)]]

MaxFrequencyOf(features) == Max({features[e].frequency : e \in DOMAIN features})

(* The weights are divided by their sum: a full score is that of three     *)
(* parts of 1, over the denominator n of the transitions.                  *)
FullScore(features, n, w) ==
    (w.frequency + w.recency + w.transition) * MaxFrequencyOf(features) * n * w.scale

HistoryScore(features, n, e, w) ==
    LET m == MaxFrequencyOf(features) IN
    w.frequency * features[e].frequency * n * w.scale
      + w.recency * w.decay[features[e].recency] * m * n
      + w.transition * features[e].transition * m * w.scale

(* select_top_k_predictions(), for topK > 0.                               *)
SelectTopK(scores, topK, minScore) ==
    LET eligible == {e \in DOMAIN scores : scores[e] >= minScore}
        ordered == Ordered(eligible, OrderOn(eligible, LAMBDA x, y :
                       scores[x] > scores[y] \/ (scores[x] = scores[y] /\ x < y))) IN
    SubSeq(ordered, 1, Min({topK, Len(ordered)}))

(* The adapter keeps the order; every expert has a positive size, it       *)
(* raises otherwise.                                                       *)
SchedulerPredictions(selected, scores, sizes) ==
    [i \in DOMAIN selected |->
        [expert |-> selected[i], probability |-> scores[selected[i]], size |-> sizes[selected[i]]]]
=============================================================================
