--------------------------- MODULE RoutingCapture ---------------------------
(***************************************************************************)
(* QwenMoeRoutingCapture and QwenRoutingBridge (routing/integration.py):   *)
(* hooks on the gates of a model, the rows they capture during a forward,  *)
(* and the events that go from there into the collector and the predictor  *)
(* of the cache.  All calls are one thread's.                              *)
(*                                                                         *)
(* A behaviour belongs to one driver: "caller" is ExpertCache by itself,   *)
(* with its lookups and insertions; "capture" feeds the same predictor     *)
(* through captures, and leaves the LRU alone as the code of this module   *)
(* does.  The analysis of RoutingAnalysis reads the collector.             *)
(***************************************************************************)
EXTENDS ExpertCache, RoutingAnalysis

CONSTANTS Models, Layers,
          Gates,        (* the layers that have a gate, for each model      *)
          CallerSteps,  (* the steps that callers pass                      *)
          Rows,         (* rows of router indices, valid and not            *)
          MaxTokens,    (* bound: tokens of one forward                     *)
          MaxCalls      (* bound: forwards and direct observations          *)

ValidRow(row) == row # <<>> /\ IsInjective(row) /\ \A i \in DOMAIN row : row[i] >= 0

ASSUME CaptureAssumption ==
       /\ Models # {} /\ Layers \subseteq Nat /\ IsFiniteSet(Layers)
       /\ Gates \in [Models -> SUBSET Layers]
       /\ CallerSteps \subseteq Int
       /\ Rows \subseteq Seq(Int)
       /\ \A row \in Rows : ValidRow(row) => ToSet(row) \subseteq Experts
       /\ MaxTokens \in Nat \ {0} /\ MaxCalls \in Nat

VARIABLES driver,
          hooks,       (* _hooks, as the gates they are on                  *)
          registered,  (* how many hooks of this capture a gate has         *)
          asked,       (* history: the gates the caller wants hooked        *)
          captured,    (* _layer_router_indices: rows, and of which call    *)
          collector,   (* the collector's events; of, call and position are *)
                       (* history: the forward a row is from, the call and  *)
                       (* the token it was observed for                     *)
          calls,       (* how many calls have begun                         *)
          call         (* the capture_forward() in progress                 *)

captureVars == <<hooks, registered, asked, captured, collector, calls, call>>
allVars == <<vars, driver, captureVars>>

AllGates == {<<m, l>> : m \in Models, l \in Layers}
GatesOf(m) == {<<m, l>> : l \in Gates[m]}
Idle == [phase |-> "idle", model |-> CHOOSE m \in Models : TRUE, left |-> {},
         base |-> 0, tokens |-> 0, position |-> 0]

CaptureInit ==
    /\ Init
    /\ driver \in {"caller", "capture"}
    /\ hooks = {}
    /\ registered = [g \in AllGates |-> 0]
    /\ asked = {}
    /\ captured = <<>>
    /\ collector = <<>>
    /\ calls = 0
    /\ call = Idle
-----------------------------------------------------------------------------
(* The bridge.                                                             *)

(* Mutant: the events of a forward have its step, all of them.             *)
EventsAtBase(id, base, position, rows, of) ==
    LET layers == Ascending(DOMAIN rows) IN
    [i \in DOMAIN layers |->
        [step |-> base, layer |-> layers[i], experts |-> rows[layers[i]],
         of |-> of[layers[i]], call |-> id, position |-> position]]

(* One event for each layer, in the order in which the layers ran.         *)
EventsOf(id, base, position, rows, of) ==
    LET layers == Ascending(DOMAIN rows) IN
    [i \in DOMAIN layers |->
        [step |-> base + position, layer |-> layers[i], experts |-> rows[layers[i]],
         of |-> of[layers[i]], call |-> id, position |-> position]]

Accepted(base, position, rows) ==
    base + position >= 0 /\ \A l \in DOMAIN rows : ValidRow(rows[l])

(* Mutant: only the first layer is observed.                               *)
ObserveFirstLayer(id, base, position, rows, of) ==
    LET events == EventsOf(id, base, position, rows, of) IN
    /\ collector' = collector \o events
    /\ Observe(events[1].experts)

(* All layers of a token go to the collector and, as one step, to the      *)
(* predictor.                                                              *)
ObserveToken(id, base, position, rows, of) ==
    LET events == EventsOf(id, base, position, rows, of) IN
    /\ collector' = collector \o events
    /\ Observe(Distinct(FlattenSeq([i \in DOMAIN events |-> events[i].experts])))

(* observe(), adapt_and_observe() and adapt_and_observe_step() called by   *)
(* themselves; one that raises changes nothing.                            *)
BridgeObserves ==
    /\ call = Idle /\ calls < MaxCalls
    /\ calls' = calls + 1
    /\ \E base \in CallerSteps, layers \in SUBSET Layers \ {{}} : \E rows \in [layers -> Rows] :
          /\ Accepted(base, 0, rows)
          /\ ObserveToken(calls + 1, base, 0, rows, [l \in layers |-> calls + 1])
    /\ UNCHANGED <<cacheVars, hooks, registered, asked, captured, call>>
-----------------------------------------------------------------------------
(* The hooks.                                                              *)

(* Mutant: the handles of a capture are forgotten, the hooks stay.         *)
SetHooksKeepingOld(gates) ==
    /\ hooks' = gates
    /\ registered' = [g \in AllGates |-> registered[g] + (IF g \in gates THEN 1 ELSE 0)]

(* install() removes the hooks of _hooks first; remove() adds none.        *)
SetHooks(gates) ==
    /\ hooks' = gates
    /\ registered' = [g \in AllGates |-> registered[g] - (IF g \in hooks THEN 1 ELSE 0)
                                                       + (IF g \in gates THEN 1 ELSE 0)]

(* install() and remove() by the caller.  A model without a gate raises    *)
(* ValueError, after the hooks of the earlier one have been removed.       *)
Install(m) ==
    /\ call = Idle
    /\ SetHooks(GatesOf(m))
    /\ asked' = GatesOf(m)
    /\ UNCHANGED <<vars, captured, collector, calls, call>>

RemoveHooks ==
    /\ call = Idle
    /\ SetHooks({})
    /\ asked' = {}
    /\ UNCHANGED <<vars, captured, collector, calls, call>>

ClearCaptured ==
    /\ call = Idle
    /\ captured' = <<>>
    /\ UNCHANGED <<vars, hooks, registered, asked, collector, calls, call>>

(* The hooks on these layers keep the rows of the forward of that call.    *)
Capture(id, layers, rows) ==
    captured' = [l \in layers \cup DOMAIN captured |->
                    IF l \in layers THEN [of |-> id, rows |-> rows] ELSE captured[l]]

(* A forward of the caller's own: hooks it has installed capture rows that *)
(* nobody reads, until clear().                                            *)
PlainForward ==
    /\ call = Idle /\ calls < MaxCalls
    /\ calls' = calls + 1
    /\ \E m \in Models, rows \in 1 .. MaxTokens : \E ran \in SUBSET Gates[m] :
          Capture(calls + 1, {l \in ran : registered[<<m, l>>] > 0}, rows)
    /\ UNCHANGED <<vars, hooks, registered, asked, collector, call>>
-----------------------------------------------------------------------------
(* capture_forward().                                                      *)

(* Mutant: rows of earlier forwards stay.                                  *)
BeginWithoutClear(m, base, n) ==
    /\ call = Idle /\ calls < MaxCalls
    /\ step + n <= MaxStep
    /\ calls' = calls + 1
    /\ asked' = {}
    /\ SetHooks(GatesOf(m))
    /\ call' = IF Gates[m] = {} THEN Idle
               ELSE [phase |-> "forward", model |-> m, left |-> Gates[m],
                     base |-> base, tokens |-> n, position |-> 0]
    /\ UNCHANGED <<vars, captured, collector>>

(* clear() and install(); ValueError for a model without gates, which is   *)
(* raised before the try block.  All tokens fit under the bound MaxStep.   *)
Begin(m, base, n) ==
    /\ call = Idle /\ calls < MaxCalls
    /\ step + n <= MaxStep
    /\ calls' = calls + 1
    /\ asked' = {}
    /\ captured' = <<>>
    /\ SetHooks(GatesOf(m))
    /\ call' = IF Gates[m] = {} THEN Idle
               ELSE [phase |-> "forward", model |-> m, left |-> Gates[m],
                     base |-> base, tokens |-> n, position |-> 0]
    /\ UNCHANGED <<vars, collector>>

(* Mutant: a call that fails leaves its hooks.                             *)
FinishWithoutRemove ==
    /\ captured' = <<>>
    /\ call' = Idle
    /\ UNCHANGED <<hooks, registered>>

(* The finally block, after a return and after any exception.              *)
Finish ==
    /\ SetHooks({})
    /\ captured' = <<>>
    /\ call' = Idle

NextGate == [call EXCEPT !.left = @ \ {Min(call.left)}]

(* The model calls the next gate, whose hook keeps its indices, or goes    *)
(* on without it.  The number of rows is the model's.                      *)
GateRuns ==
    /\ call.phase = "forward" /\ call.left # {}
    /\ \/ UNCHANGED captured
       \/ \E rows \in 1 .. MaxTokens :
             Capture(calls, {l \in {Min(call.left)} : registered[<<call.model, l>>] > 0}, rows)
    /\ call' = NextGate
    /\ UNCHANGED <<vars, hooks, registered, asked, collector, calls>>

(* The model raises, or a hook does: a gate's output that is no triple or  *)
(* has indices of another shape.                                           *)
ForwardRaises ==
    /\ call.phase = "forward"
    /\ Finish
    /\ UNCHANGED <<vars, asked, collector, calls>>

AllRowsThere == captured # <<>> /\ \A l \in DOMAIN captured : captured[l].rows = call.tokens

(* RuntimeError when nothing was captured, ValueError for a wrong number   *)
(* of rows, before any token is observed.                                  *)
ForwardReturns ==
    /\ call.phase = "forward" /\ call.left = {}
    /\ \/ AllRowsThere /\ call' = [call EXCEPT !.phase = "tokens"]
          /\ UNCHANGED <<captured, hooks, registered>>
       \/ ~AllRowsThere /\ Finish
    /\ UNCHANGED <<vars, asked, collector, calls>>

(* The next token.  What the rows hold is chosen when they are read; an    *)
(* invalid one raises before anything of its token is kept, but the tokens *)
(* before it have been observed.                                           *)
TokenObserved ==
    /\ call.phase = "tokens"
    /\ UNCHANGED calls
    /\ \E rows \in [DOMAIN captured -> Rows] :
          \/ /\ Accepted(call.base, call.position, rows)
             /\ ObserveToken(calls, call.base, call.position, rows, [l \in DOMAIN captured |-> captured[l].of])
             /\ \/ /\ call.position + 1 < call.tokens
                   /\ call' = [call EXCEPT !.position = @ + 1]
                   /\ UNCHANGED <<captured, hooks, registered>>
                \/ call.position + 1 = call.tokens /\ Finish
          \/ /\ ~Accepted(call.base, call.position, rows)
             /\ Finish
             /\ UNCHANGED <<predictorVars, collector>>
    /\ UNCHANGED <<cacheVars, asked>>

CaptureStep ==
    \/ BridgeObserves \/ RemoveHooks \/ ClearCaptured \/ PlainForward
    \/ \E m \in Models : Install(m)
    \/ \E m \in Models, base \in CallerSteps, n \in 1 .. MaxTokens : Begin(m, base, n)
    \/ GateRuns \/ ForwardRaises \/ ForwardReturns \/ TokenObserved

CaptureNext ==
    /\ UNCHANGED driver
    /\ \/ driver = "caller" /\ Next /\ UNCHANGED captureVars
       \/ driver = "capture" /\ CaptureStep

CaptureSpec == CaptureInit /\ [][CaptureNext]_allVars
-----------------------------------------------------------------------------
(* The properties.                                                         *)

Tokens == {<<collector[i].call, collector[i].position>> : i \in DOMAIN collector}
EventsOfToken(t) ==
    SubSequence(collector, {i \in DOMAIN collector : <<collector[i].call, collector[i].position>> = t})
LayersOf(events) == {events[i].layer : i \in DOMAIN events}

CaptureTypeOK ==
    /\ TypeOK
    /\ driver \in {"caller", "capture"}
    /\ hooks \subseteq AllGates /\ asked \subseteq AllGates
    /\ registered \in [AllGates -> 0 .. 1]
    /\ DOMAIN captured \subseteq Layers
    /\ \A i \in DOMAIN collector :
          /\ collector[i].step \in Nat /\ collector[i].layer \in Layers
          /\ ValidRow(collector[i].experts)
    /\ calls \in 0 .. MaxCalls

(* A token is one step of the predictor, however many layers it has, and   *)
(* it is in the collector whole or not at all, also when a later token of  *)
(* its forward is invalid (integration.py:51-160, 289-301; the docstrings  *)
(* at 60-64 and 119-124).  An expert that several layers of a token choose *)
(* counts once, and the experts of the last token are those from which the *)
(* next transitions start.                                                 *)
OneTokenOneStep ==
    driver = "capture" =>
        /\ step = Cardinality(Tokens)
        /\ \A t \in Tokens : t[2] > 0 =>
              /\ <<t[1], t[2] - 1>> \in Tokens
              /\ LayersOf(EventsOfToken(t)) = LayersOf(EventsOfToken(<<t[1], t[2] - 1>>))
        /\ \A e \in Experts :
              stats[e].frequency = Cardinality({t \in Tokens : e \in ExpertsOf(EventsOfToken(t))})
        /\ collector # <<>> =>
              ToSet(previous) = ExpertsOf(EventsOfToken(<<Last(collector).call, Last(collector).position>>))

(* What is observed for a forward was captured during that forward: rows   *)
(* of an earlier one, of a call that failed or of a forward of the         *)
(* caller's own never stand in for a gate that did not run                 *)
(* (integration.py:225, 262, 271, 304-306).                                *)
OwnForwardOnly == \A i \in DOMAIN collector : collector[i].of = collector[i].call

(* Between calls exactly those gates have a hook whose hooks the caller    *)
(* asked for and has not lost by a later install(), remove() or            *)
(* capture_forward(), whichever way that one ended; no gate ever has two,  *)
(* which would go on capturing after remove() (integration.py:180-243,     *)
(* 304-306).                                                               *)
HooksReleased ==
    call = Idle => \A g \in AllGates : registered[g] = IF g \in asked THEN 1 ELSE 0

(* The caller has numbered its steps as the predictor does.                *)
Aligned ==
    \A i \in DOMAIN collector : collector[i].position = 0 =>
        collector[i].step = Cardinality({t \in Tokens : t[1] < collector[i].call})

(* The history that is analysed later and the predictor that learns at     *)
(* once tell the same: the same experts are known, an expert is accessed   *)
(* once per layer of the tokens that count for its frequency, it has at    *)
(* most one successor per access, and, if callers number their steps by    *)
(* the tokens observed before, a step is one token and first and last      *)
(* steps agree (access_pattern.py:42-78, transition.py:33-76,              *)
(* integration.py:296-301, predictor.py:93-206).  Callers that pass steps  *)
(* which overlap lose the last part.                                       *)
HistoryAgreesWithPredictor ==
    LET patterns == AccessPatterns(collector)
        sums == TotalsFrom(TransitionCounts(collector)) IN
    driver = "capture" =>
        /\ DOMAIN patterns = known
        /\ \A e \in known :
              /\ stats[e].frequency <= patterns[e].count
              /\ patterns[e].count <= stats[e].frequency * Cardinality(patterns[e].layers)
              /\ sums[e] <= patterns[e].count
              /\ Len(ByExpert(collector, e)) = patterns[e].count
        /\ Aligned =>
              /\ \A e \in known : patterns[e].first = stats[e].first /\ patterns[e].last = stats[e].last
              /\ \A s \in 0 .. step : Cardinality(ToSet(ByStep(collector, s))) = 
                    Cardinality({l \in Layers : \E i \in DOMAIN collector :
                                    collector[i].layer = l /\ collector[i].step = s})

(* The weights of the scorer and its decay. The table of recencies ends at *)
(* MaxStep; for greater ages, which steps of the caller's choice can have, *)
(* the decay is 0, the limit of the exponential function.                  *)
Weights == [frequency |-> FrequencyWeight, recency |-> RecencyWeight,
            transition |-> TransitionWeight, scale |-> RecencyScale,
            decay |-> [a \in Nat |-> IF a = 0 THEN RecencyScale
                                     ELSE IF a <= MaxStep THEN Recency[a] ELSE 0]]

(* Any history that a capture leaves can be scored, at any step from its   *)
(* last one on: every score is within [0, 1], which PredictionScore and    *)
(* the scheduler's ExpertPrediction insist on, also after steps that       *)
(* overlap or go back, and the selection that goes to the scheduler leaves *)
(* out nothing better than what it has (features.py:108-240,               *)
(* normalization.py:46-92, scoring.py:91-163, top_k.py:6-31,               *)
(* predictive_scheduler/adapter.py:9-62).                                  *)
ScoresAreAccepted ==
    call = Idle /\ collector # <<>> =>
        LET last == Max({collector[i].step : i \in DOMAIN collector})
            sums == TotalsFrom(TransitionCounts(collector)) IN
        /\ FeaturesRaise(collector, last - 1)
        /\ \A now \in {last, last + 1}, current \in {ToSet(previous)} \cup {{e} : e \in known} :
            LET features == CandidateFeatures(collector, now, current)
                n == Common(sums, current)
                scores == [e \in known |-> HistoryScore(features, n, e, Weights)]
                selected == SelectTopK(scores, 2, 1)
                sent == SchedulerPredictions(selected, scores, [e \in known |-> 1]) IN
            /\ ~FeaturesRaise(collector, now)
            /\ \A i \in DOMAIN sent : sent[i].probability \in 0 .. FullScore(features, n, Weights)
            /\ \A e \in known \ ToSet(selected), i \in DOMAIN selected : scores[e] <= scores[selected[i]]
=============================================================================
