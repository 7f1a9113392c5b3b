----------------------------- MODULE ExpertCache -----------------------------
(***************************************************************************)
(* PredictiveExpertCache (predictive_cache/cache.py) with its ExpertLRU    *)
(* (lru.py) and its predictor.  The cache keeps metadata only: an expert   *)
(* becomes resident by insert(), whoever loads it.  Its _step is the       *)
(* predictor's, set at each observation.                                   *)
(***************************************************************************)
EXTENDS ExpertPredictor

CONSTANT Capacity       (* config.capacity                                  *)

ASSUME CacheAssumption == Capacity \in Nat \ {0}   (* ValueError otherwise *)

VARIABLES order,    (* the keys of _items, oldest first                     *)
          entries,  (* the CacheEntry of each cached expert                 *)
          touched   (* history: all experts inserted or hit since the last  *)
                    (* clear(), the latest last                             *)

cacheVars == <<order, entries, touched>>
vars == <<predictorVars, cacheVars>>

NoEntry == [inserted |-> -1, lastAccess |-> -1, accesses |-> 0, hits |-> 0]
NewEntry == [NoEntry EXCEPT !.inserted = step, !.lastAccess = step]

Init ==
    /\ PredictorInit
    /\ order = <<>>
    /\ entries = [e \in Experts |-> NoEntry]
    /\ touched = <<>>
-----------------------------------------------------------------------------
Cached == ToSet(order)
MoveToEnd(e, s) == Append(RemoveFirst(s, e), e)
Touch(e) == touched' = MoveToEnd(e, touched)

HitMoves(e) == order' = MoveToEnd(e, order)

(* Mutant: the newest goes.                                                *)
EvictNewest(e) ==
    /\ order' = Append(Front(order), e)
    /\ entries' = [entries EXCEPT ![e] = NewEntry, ![Last(order)] = NoEntry]

EvictOldest(e) ==
    /\ order' = Append(Tail(order), e)
    /\ entries' = [entries EXCEPT ![e] = NewEntry, ![Head(order)] = NoEntry]

IsFull == Len(order) >= Capacity

(* Mutant: an insert of a cached expert makes a new entry and no room.     *)
InsertForgets(e) ==
    /\ \/ ~IsFull
          /\ order' = Append(order, e) /\ entries' = [entries EXCEPT ![e] = NewEntry]
       \/ IsFull /\ EvictOldest(e)
    /\ Touch(e)
    /\ UNCHANGED predictorVars

(* insert(): a cached expert is touched, another may push out the oldest.  *)
Insert(e) ==
    /\ \/ /\ e \in Cached
          /\ HitMoves(e)
          /\ entries' = [entries EXCEPT ![e].lastAccess = step]
       \/ /\ e \notin Cached /\ ~IsFull
          /\ order' = Append(order, e)
          /\ entries' = [entries EXCEPT ![e] = NewEntry]
       \/ e \notin Cached /\ IsFull /\ EvictOldest(e)
    /\ Touch(e)
    /\ UNCHANGED predictorVars

GetHit(e) ==
    /\ e \in Cached
    /\ Lookups < MaxLookups
    /\ HitMoves(e)
    /\ entries' = [entries EXCEPT ![e].lastAccess = step, ![e].accesses = @ + 1, ![e].hits = @ + 1]
    /\ RecordHit(e)
    /\ Touch(e)

GetMiss(e) ==
    /\ e \notin Cached
    /\ Lookups < MaxLookups
    /\ RecordMiss(e)
    /\ UNCHANGED cacheVars

ObserveEvent(experts) == Observe(experts) /\ UNCHANGED cacheVars

Clear ==
    /\ order' = <<>>
    /\ entries' = [e \in Experts |-> NoEntry]
    /\ touched' = <<>>
    /\ UNCHANGED predictorVars

(* predict() and prefetch_candidates(): the best topK that score enough,   *)
(* and of these the ones that are not cached.                              *)
Predictions(current, topK, minScore) ==
    LET best == Predict(current, topK) IN
    SubSequence(best, {i \in DOMAIN best : Score(current, best[i]) >= minScore})
PrefetchCandidates(current, topK, minScore) ==
    LET predicted == Predictions(current, topK, minScore) IN
    SubSequence(predicted, {i \in DOMAIN predicted : predicted[i] \notin Cached})

Next ==
    \/ \E s \in Events : ObserveEvent(s)
    \/ \E e \in Experts : Insert(e) \/ GetHit(e) \/ GetMiss(e)
    \/ Clear

Spec == Init /\ [][Next]_vars
-----------------------------------------------------------------------------
TypeOK ==
    /\ PredictorTypeOK
    /\ order \in Seq(Experts) /\ Len(order) <= Capacity
    /\ entries \in [Experts -> [inserted : -1 .. MaxStep, lastAccess : -1 .. MaxStep,
                                accesses : Nat, hits : Nat]]
    /\ touched \in Seq(Experts)

(* The cache holds the Capacity experts touched last, in the order of the  *)
(* touches, whatever was inserted, hit, missed and pushed out in between:  *)
(* it is the top of the stack of all touches (lru.py:35-58,                *)
(* cache.py:96-172).                                                      *)
HoldsTheLastTouched == order = LastOf(Capacity, touched)

(* The order of the keys and the steps of the entries tell the same story, *)
(* and no entry outlives its key.                                          *)
OrderedByAccess ==
    /\ \A i, j \in DOMAIN order : i < j =>
          /\ order[i] # order[j]
          /\ entries[order[i]].lastAccess <= entries[order[j]].lastAccess
    /\ \A e \in Experts : e \notin Cached <=> entries[e] = NoEntry
    /\ \A e \in Cached : 0 <= entries[e].inserted /\ entries[e].inserted <= entries[e].lastAccess

(* An expert that could be prefetched and is no candidate has topK others  *)
(* that score no less, and a long list has room for more than the cached.  *)
NotStarved(current, topK, candidates) ==
    LET open == known \ (current \cup Cached)
        others == (known \ current) \cap (candidates \cup Cached) IN
    open # {} =>
        /\ \A e \in open \ candidates :
              Cardinality({x \in others : Score(current, x) >= Score(current, e)}) >= topK
        /\ topK > Capacity => candidates # {}
        /\ Cardinality(candidates) >= Min({topK - Len(order), Cardinality(open)})

(* prefetch_candidates() after an event takes the best top_k first and     *)
(* drops the cached ones afterwards (cache.py:166-222). With a top_k below *)
(* the capacity, as by default, the cached experts can thus use up the     *)
(* list: an expert that could be prefetched is left out, but only if there *)
(* are top_k others, cached or candidates, that score no less. With a      *)
(* top_k above the capacity there is always a candidate if any known       *)
(* expert is neither current nor cached, and at least as many as the cache *)
(* leaves room for.                                                        *)
CandidatesNotStarved ==
    LET current == ToSet(previous) IN
    \A topK \in 1 .. Capacity + 1 :
        NotStarved(current, topK, ToSet(PrefetchCandidates(current, topK, 0)))
=============================================================================
