--------------------------- MODULE ExpertPredictor ---------------------------
(***************************************************************************)
(* The statistics and the scores of predictive_cache/predictor.py.  The    *)
(* predictor belongs to one PredictiveExpertCache and is called by one     *)
(* thread; ExpertCache composes the two.                                   *)
(*                                                                         *)
(* A score is a weighted sum of three numbers of [0, 1].  Here they are    *)
(* integers over one common denominator, the same for all candidates of a  *)
(* prediction, and exp(-age / recency_decay) is a decreasing table.        *)
(***************************************************************************)
EXTENDS Ordering

CONSTANTS Experts,          (* expert ids                                   *)
          RecentWindow,     (* recent_window                                *)
          MaxStep,          (* bound: how many router events are observed   *)
          FrequencyWeight, RecencyWeight, TransitionWeight,
          Recency, RecencyScale, (* exp(-age / decay), times the scale      *)
          Events,           (* the router events that are observed          *)
          MaxLookups        (* bound: how many cache lookups are recorded   *)

ASSUME PredictorAssumption ==
       /\ Experts \subseteq Nat /\ IsFiniteSet(Experts)
       /\ RecentWindow \in Nat \ {0}
       /\ MaxStep \in Nat
       /\ {FrequencyWeight, RecencyWeight, TransitionWeight} \subseteq Nat
       /\ FrequencyWeight + RecencyWeight + TransitionWeight > 0
       /\ RecencyScale \in Nat \ {0}
       /\ Recency \in [1 .. MaxStep -> 0 .. RecencyScale - 1]
       /\ \A a \in 2 .. MaxStep : Recency[a] <= Recency[a - 1]
       /\ Events \subseteq Seq(Experts)
       /\ MaxLookups \in Nat

VARIABLES step,          (* _step                                           *)
          known,         (* the experts that have an entry in _stats        *)
          stats,         (* _stats                                          *)
          maxFrequency,  (* _max_frequency                                  *)
          transitions,   (* _transitions                                    *)
          totals,        (* _transition_totals                              *)
          recent,        (* _recent                                         *)
          previous       (* _previous_experts                               *)

predictorVars == <<step, known, stats, maxFrequency, transitions, totals, recent, previous>>
routingVars == <<step, maxFrequency, transitions, totals, recent, previous>>

NewStats == [frequency |-> 0, first |-> -1, last |-> -1, hits |-> 0, misses |-> 0,
             distanceSum |-> 0, distanceCount |-> 0]

PredictorInit ==
    /\ step = 0
    /\ known = {}
    /\ stats = [e \in Experts |-> NewStats]
    /\ maxFrequency = 0
    /\ transitions = [p \in Experts |-> [e \in Experts |-> 0]]
    /\ totals = [p \in Experts |-> 0]
    /\ recent = <<>>
    /\ previous = <<>>
-----------------------------------------------------------------------------
(* dict.fromkeys(): every expert once, where it comes first.               *)
Distinct(s) == SubSequence(s, {i \in DOMAIN s : \A j \in 1 .. i - 1 : s[j] # s[i]})

LastOf(n, s) == SubSeq(s, IF Len(s) > n THEN Len(s) - n + 1 ELSE 1, Len(s))

(* Mutant: a second first observation is no distance.                      *)
SeenAgainWithoutGap(s) ==
    [s EXCEPT !.frequency = @ + 1, !.last = step,
              !.distanceCount = IF s.last >= 0 THEN @ + 1 ELSE @]

Seen(s) ==
    [s EXCEPT !.frequency = @ + 1, !.last = step,
              !.distanceSum = IF s.last >= 0 THEN @ + step - s.last ELSE @,
              !.distanceCount = IF s.last >= 0 THEN @ + 1 ELSE @]

(* An expert that has no entry yet gets one with its first step; one that  *)
(* a cache lookup has entered before keeps first_seen_step = -1.           *)
SeenNow(e) == Seen(IF e \in known THEN stats[e] ELSE [NewStats EXCEPT !.first = step])

NewMaximum(current) == Max({maxFrequency} \cup {SeenNow(e).frequency : e \in current})

(* Mutant: one transition per event is counted.                            *)
CountEvent(current) ==
    [p \in Experts |-> IF p \in ToSet(previous) THEN totals[p] + 1 ELSE totals[p]]

CountTransitions(current) ==
    [p \in Experts |-> IF p \in ToSet(previous) THEN totals[p] + Cardinality(current) ELSE totals[p]]

(* observe(); an event without experts changes nothing.                    *)
Observe(experts) ==
    LET event == Distinct(experts)
        current == ToSet(event) IN
    /\ event # <<>>
    /\ step < MaxStep
    /\ stats' = [e \in Experts |-> IF e \in current THEN SeenNow(e) ELSE stats[e]]
    /\ known' = known \cup current
    /\ maxFrequency' = NewMaximum(current)
    /\ recent' = LastOf(RecentWindow, recent \o event)
    /\ transitions' = [p \in Experts |-> [e \in Experts |->
                          IF p \in ToSet(previous) /\ e \in current
                             THEN transitions[p][e] + 1 ELSE transitions[p][e]]]
    /\ totals' = CountTransitions(current)
    /\ previous' = event
    /\ step' = step + 1

Lookups == SumFunction([e \in Experts |-> stats[e].hits + stats[e].misses])

(* record_hit() and record_miss() of the cache's lookups.                  *)
RecordHit(e) ==
    /\ Lookups < MaxLookups
    /\ known' = known \cup {e}
    /\ stats' = [stats EXCEPT ![e].hits = @ + 1]
    /\ UNCHANGED routingVars

RecordMiss(e) ==
    /\ Lookups < MaxLookups
    /\ known' = known \cup {e}
    /\ stats' = [stats EXCEPT ![e].misses = @ + 1]
    /\ UNCHANGED routingVars
-----------------------------------------------------------------------------
(* Scores, over the denominator maxFrequency * Denominator(current) *      *)
(* RecencyScale.                                                           *)

Denominator(current) == FoldSet(LAMBDA c, n : n * (IF totals[c] = 0 THEN 1 ELSE totals[c]), 1, current)

TransitionScore(current, e) ==
    Max({0} \cup {transitions[c][e] * (Denominator(current) \div totals[c]) :
                     c \in {d \in current : totals[d] > 0}})

RecencyScore(e) == IF stats[e].last < 0 THEN 0 ELSE Recency[step - stats[e].last]

(* Mutant: the frequency alone counts.                                     *)
ScoreOfFrequencyOnly(current, e) == FrequencyWeight * stats[e].frequency

Score(current, e) ==
    LET n == Denominator(current)
        m == IF maxFrequency = 0 THEN 1 ELSE maxFrequency IN
    FrequencyWeight * stats[e].frequency * n * RecencyScale
      + RecencyWeight * RecencyScore(e) * m * n
      + TransitionWeight * TransitionScore(current, e) * m * RecencyScale

Before(current, x, y) ==
    LET a == Score(current, x)
        b == Score(current, y) IN
    a > b \/ (a = b /\ x < y)

Ranked(current) ==
    Ordered(known \ current, OrderOn(known \ current, LAMBDA x, y : Before(current, x, y)))

(* Mutant: one too few.                                                    *)
PredictFewer(current, topK) ==
    LET ranked == Ranked(current) IN
    SubSeq(ranked, 1, IF topK < Len(ranked) THEN topK - 1 ELSE Len(ranked))

(* predict(): the best topK of the known experts that are not current.     *)
Predict(current, topK) ==
    LET ranked == Ranked(current) IN
    SubSeq(ranked, 1, IF topK < Len(ranked) THEN topK ELSE Len(ranked))
-----------------------------------------------------------------------------
Statistics == [frequency : 0 .. MaxStep, first : -1 .. MaxStep, last : -1 .. MaxStep,
               hits : Nat, misses : Nat, distanceSum : 0 .. MaxStep, distanceCount : 0 .. MaxStep]

PredictorTypeOK ==
    /\ step \in 0 .. MaxStep
    /\ known \subseteq Experts
    /\ stats \in [Experts -> Statistics]
    /\ maxFrequency \in 0 .. MaxStep
    /\ transitions \in [Experts -> [Experts -> 0 .. MaxStep]]
    /\ totals \in [Experts -> Nat]
    /\ recent \in Seq(Experts) /\ Len(recent) <= RecentWindow
    /\ previous \in Seq(Experts)

(* Probabilities are probabilities: the maximum and the totals, which are  *)
(* kept on the side, are the maximum of the frequencies and the sums of    *)
(* the transitions, so the three scores stay within [0, 1] and those of    *)
(* the successors of an expert add up to 1 (predictor.py:153-170,          *)
(* 230-279).  The scheduler raises ValueError for a score above 1.         *)
CountersAgree ==
    /\ maxFrequency = Max({0} \cup {stats[e].frequency : e \in Experts})
    /\ \A p \in Experts : totals[p] = SumFunction(transitions[p])

(* The distances of an expert add up to the way from its first observation *)
(* to its last, one less than its observations and none below 1            *)
(* (predictor.py:134-151), also of an expert whose entry a lookup has made *)
(* before its first observation: that keeps first_seen_step = -1, and only *)
(* that does (predictor.py:183-226).                                       *)
DistancesAddUp ==
    \A e \in Experts : LET s == stats[e] IN
        /\ s.distanceCount = IF s.frequency = 0 THEN 0 ELSE s.frequency - 1
        /\ s.first >= 0 => s.distanceSum = s.last - s.first
        /\ s.frequency > 0 => s.distanceSum \in s.frequency - 1 .. s.last
        /\ e \in known /\ s.first = -1 => s.hits + s.misses > 0
        /\ s.frequency = 0 <=> s.last = -1

(* With weights like the default ones, for which the transition weighs as  *)
(* much as the other two, an expert that has always followed the current   *)
(* one is predicted first (predictor.py:313-421).                          *)
SureSuccessorFirst ==
    TransitionWeight >= FrequencyWeight + RecencyWeight =>
        \A p, e \in Experts :
            p # e /\ totals[p] > 0 /\ transitions[p][e] = totals[p] =>
                Head(Predict({p}, 1)) = e
=============================================================================
