------------------------- MODULE RoutingCaptureProofs -------------------------
(***************************************************************************)
(* Proofs about the capture, the predictor that it feeds and the cache     *)
(* that asks the predictor: any models, layers, rows, experts and lookups, *)
(* in any interleaving.                                                    *)
(*                                                                         *)
(* The inductive invariant has a part for each piece of state, and each    *)
(* part uses those before it:                                              *)
(*   HooksInv, RowsInv   the hooks of a call and the rows it captured      *)
(*   DistanceInv         the distances an expert was seen at               *)
(*   CacheInv            the keys are the last touched, in that order      *)
(*   CollectorInv        what is collected is of its own forward           *)
(*   CountersInv         frequencies, transitions and what sums them up    *)
(*   TokenInv            a token is a step                                 *)
(*   TransitionsInv      a transition is an observation                    *)
(*   HistoryInv          what is known is collected, no layer of a token   *)
(*                       twice, and aligned steps are in order             *)
(* The scores of the predictor are functions of the counters; what they    *)
(* rank is proved for every state that CountersInv allows, as what the     *)
(* analysis says of a history is for every history of such events.         *)
(***************************************************************************)
EXTENDS RoutingCapture, CollectionLemmas

(* A gate has one hook if it is in _hooks and none otherwise; between      *)
(* calls _hooks is what the caller asked for, and during one the caller's  *)
(* earlier hooks are gone.                                                 *)
HooksInv ==
    /\ hooks \subseteq AllGates
    /\ registered = [g \in AllGates |-> IF g \in hooks THEN 1 ELSE 0]
    /\ call \in [phase : {"idle", "forward", "tokens"}, model : Models, left : SUBSET Layers,
                 base : Int, tokens : Nat, position : Nat]
    /\ call.phase = "idle" <=> call = Idle
    /\ asked = IF call = Idle THEN hooks ELSE {}

(* During a capture_forward() every captured row is of its own forward.    *)
RowsInv == call # Idle => \A l \in DOMAIN captured : captured[l].of = calls

(* The gates of a model are gates.                                         *)
LEMMA GatesTyped ==
    ASSUME NEW m \in Models
    PROVE  GatesOf(m) \subseteq AllGates /\ Gates[m] \subseteq Layers
  BY CaptureAssumption DEF GatesOf, AllGates

(* install() and remove() leave one hook on the gates given and no other.  *)
LEMMA SetHooksExact ==
    ASSUME HooksInv, NEW gates \in SUBSET AllGates, SetHooks(gates)
    PROVE  /\ hooks' = gates
           /\ registered' = [g \in AllGates |-> IF g \in hooks' THEN 1 ELSE 0]
<1>1. \A g \in AllGates : registered[g] - (IF g \in hooks THEN 1 ELSE 0) = 0
  BY DEF HooksInv
<1> QED
  BY <1>1 DEF SetHooks, HooksInv

(* A capture_forward() that ends leaves no hook.                           *)
LEMMA FinishExact ==
    ASSUME HooksInv, Finish, call # Idle, UNCHANGED asked
    PROVE  HooksInv' /\ RowsInv'
<1>1. hooks' = {} /\ registered' = [g \in AllGates |-> IF g \in hooks' THEN 1 ELSE 0]
  BY SetHooksExact DEF Finish
<1>2. Idle \in [phase : {"idle", "forward", "tokens"}, model : Models, left : SUBSET Layers,
                base : Int, tokens : Nat, position : Nat]
  BY CaptureAssumption DEF Idle
<1> QED
  BY <1>1, <1>2 DEF HooksInv, RowsInv, Finish, Idle

(* Every step keeps the hooks and the rows in order.                       *)
LEMMA HooksStep ==
    ASSUME HooksInv, RowsInv, [CaptureNext]_allVars
    PROVE  HooksInv' /\ RowsInv'
<1>1. CASE UNCHANGED captureVars
  BY <1>1 DEF HooksInv, RowsInv, captureVars
<1>2. ASSUME NEW m \in Models, Install(m)
      PROVE  HooksInv' /\ RowsInv'
  <2>1. hooks' = GatesOf(m) /\ registered' = [g \in AllGates |-> IF g \in hooks' THEN 1 ELSE 0]
    BY <1>2, GatesTyped, SetHooksExact DEF Install
  <2> QED
    BY <1>2, <2>1, GatesTyped DEF Install, HooksInv, RowsInv
<1>3. CASE RemoveHooks
  <2>1. hooks' = {} /\ registered' = [g \in AllGates |-> IF g \in hooks' THEN 1 ELSE 0]
    BY <1>3, SetHooksExact DEF RemoveHooks
  <2> QED
    BY <1>3, <2>1 DEF RemoveHooks, HooksInv, RowsInv
<1>4. CASE ClearCaptured \/ PlainForward \/ BridgeObserves
  BY <1>4 DEF ClearCaptured, PlainForward, BridgeObserves, HooksInv, RowsInv
<1>5. ASSUME NEW m \in Models, NEW base \in CallerSteps, NEW n \in 1 .. MaxTokens, Begin(m, base, n)
      PROVE  HooksInv' /\ RowsInv'
  <2>1. hooks' = GatesOf(m) /\ registered' = [g \in AllGates |-> IF g \in hooks' THEN 1 ELSE 0]
    BY <1>5, GatesTyped, SetHooksExact DEF Begin
  <2>2. RowsInv'
    BY <1>5 DEF Begin, RowsInv
  <2>3. CASE Gates[m] = {}
    BY <1>5, <2>1, <2>2, <2>3, GatesTyped DEF Begin, GatesOf, HooksInv
  <2>4. CASE Gates[m] # {}
    <3>1. call' = [phase |-> "forward", model |-> m, left |-> Gates[m],
                   base |-> base, tokens |-> n, position |-> 0]
      BY <1>5, <2>4 DEF Begin
    <3>2. call'.phase # "idle" /\ call' # Idle
      BY <3>1 DEF Idle
    <3>3. base \in Int /\ n \in Nat
      BY CaptureAssumption
    <3> QED
      BY <1>5, <2>1, <2>2, <3>1, <3>2, <3>3, GatesTyped DEF Begin, HooksInv
  <2> QED
    BY <2>3, <2>4
<1>6. CASE GateRuns
  <2>1. /\ call.phase = "forward" /\ call' = [call EXCEPT !.left = @ \ {Min(call.left)}]
        /\ UNCHANGED <<hooks, registered, asked, calls>>
    BY <1>6 DEF GateRuns, NextGate
  <2>2. call # Idle /\ call'.phase = "forward" /\ call' # Idle
    BY <2>1 DEF HooksInv, Idle
  <2>3. HooksInv'
    BY <2>1, <2>2 DEF HooksInv
  <2>4. \A l \in DOMAIN captured' : captured'[l].of = calls
    <3>1. CASE UNCHANGED captured
      BY <2>2, <3>1 DEF RowsInv
    <3>2. ASSUME NEW rows \in 1 .. MaxTokens,
                 NEW layers, Capture(calls, layers, rows)
          PROVE  \A l \in DOMAIN captured' : captured'[l].of = calls
      BY <2>2, <3>2 DEF RowsInv, Capture
    <3> QED
      BY <1>6, <3>1, <3>2 DEF GateRuns
  <2> QED
    BY <2>1, <2>3, <2>4 DEF RowsInv
<1>7. CASE ForwardRaises
  BY <1>7, FinishExact DEF ForwardRaises, HooksInv
<1>8. CASE ForwardReturns
  <2>1. call.phase = "forward" /\ call # Idle
    BY <1>8 DEF ForwardReturns, HooksInv
  <2>2. CASE AllRowsThere
    <3>1. call' = [call EXCEPT !.phase = "tokens"]
          /\ UNCHANGED <<captured, hooks, registered, asked, calls>>
      BY <1>8, <2>2 DEF ForwardReturns
    <3>2. call'.phase = "tokens" /\ call' # Idle
      BY <3>1 DEF HooksInv, Idle
    <3> QED
      BY <2>1, <3>1, <3>2 DEF HooksInv, RowsInv
  <2>3. CASE ~AllRowsThere
    BY <1>8, <2>1, <2>3, FinishExact DEF ForwardReturns
  <2> QED
    BY <2>2, <2>3
<1>9. CASE TokenObserved
  <2>1. call.phase = "tokens" /\ call # Idle /\ UNCHANGED <<asked, calls>>
    BY <1>9 DEF TokenObserved, HooksInv
  <2>2. CASE call' = [call EXCEPT !.position = @ + 1] /\ UNCHANGED <<captured, hooks, registered>>
    <3>1. call'.phase = "tokens" /\ call' # Idle
      BY <2>1, <2>2 DEF HooksInv, Idle
    <3> QED
      BY <2>1, <2>2, <3>1 DEF HooksInv, RowsInv
  <2>3. CASE Finish
    BY <2>1, <2>3, FinishExact
  <2> QED
    BY <1>9, <2>2, <2>3 DEF TokenObserved
<1> QED
  BY <1>1, <1>2, <1>3, <1>4, <1>5, <1>6, <1>7, <1>8, <1>9
     DEF CaptureNext, CaptureStep, allVars

(* The hooks are those asked for or those of the call, and the rows are    *)
(* those of the call (integration.py:180-306).                             *)
THEOREM CaptureInvariance == CaptureSpec => [](HooksInv /\ RowsInv)
<1>1. CaptureInit => HooksInv /\ RowsInv
  <2>1. Idle \in [phase : {"idle", "forward", "tokens"}, model : Models, left : SUBSET Layers,
                  base : Int, tokens : Nat, position : Nat]
    BY CaptureAssumption DEF Idle
  <2> QED
    BY <2>1 DEF CaptureInit, HooksInv, RowsInv, Idle
<1>2. HooksInv /\ RowsInv /\ [CaptureNext]_allVars => (HooksInv /\ RowsInv)'
  BY HooksStep
<1> QED
  BY <1>1, <1>2, PTL DEF CaptureSpec

(* Whichever way a capture_forward() ends, no gate keeps a hook, and none  *)
(* ever has two (integration.py:180-243, 304-306).                         *)
THEOREM HooksAreReleased == CaptureSpec => []HooksReleased
<1>1. HooksInv => HooksReleased
  BY DEF HooksInv, HooksReleased
<1> QED
  BY <1>1, CaptureInvariance, PTL

(* When a capture reads the captured rows, all are of its own forward: the *)
(* reason why OwnForwardOnly holds (integration.py:225, 262, 304-306).     *)
THEOREM RowsAreOfTheirForward == CaptureSpec => [](call # Idle => \A l \in DOMAIN captured : captured[l].of = calls)
<1>1. RowsInv => (call # Idle => \A l \in DOMAIN captured : captured[l].of = calls)
  BY DEF RowsInv
<1> QED
  BY <1>1, CaptureInvariance, PTL
-----------------------------------------------------------------------------
(* The statistics of the predictor.  An expert that has no entry yet has   *)
(* no numbers either, and no observation is later than the step.           *)
StatsTyped ==
    /\ step \in Nat
    /\ stats \in [Experts -> [frequency : Nat, first : Int, last : Int, hits : Nat, misses : Nat,
                              distanceSum : Int, distanceCount : Nat]]

(* The sum of the distances is that of the first and the last access, and  *)
(* what has no entry has no numbers.                                       *)
DistanceInv ==
    /\ StatsTyped
    /\ DistancesAddUp
    /\ \A e \in Experts :
          /\ stats[e].last >= -1 /\ stats[e].last < step
          /\ stats[e].first >= 0 => stats[e].frequency > 0
          /\ stats[e].frequency = 0 => stats[e].distanceSum = 0
          /\ e \notin known => stats[e] = NewStats

(* observe() of any set of experts.                                        *)
LEMMA SeenNowExact ==
    ASSUME DistanceInv, NEW e \in Experts
    PROVE  LET s == SeenNow(e) IN
           /\ s \in [frequency : Nat, first : Int, last : Int, hits : Nat, misses : Nat,
                     distanceSum : Int, distanceCount : Nat]
           /\ s.frequency > 0 /\ s.last = step /\ s.distanceCount = s.frequency - 1
           /\ s.first >= 0 => s.distanceSum = s.last - s.first
           /\ s.distanceSum \in s.frequency - 1 .. s.last
           /\ s.first = -1 => s.hits + s.misses > 0
<1> DEFINE T == [frequency : Nat, first : Int, last : Int, hits : Nat, misses : Nat,
                 distanceSum : Int, distanceCount : Nat]
<1>1. ASSUME NEW s \in T, s.last >= -1, s.frequency = 0 <=> s.last = -1,
             s.distanceCount = IF s.frequency = 0 THEN 0 ELSE s.frequency - 1,
             s.frequency > 0 /\ s.first >= 0 => s.distanceSum = s.last - s.first,
             s.frequency = 0 /\ s.first >= 0 => s.first = step,
             s.frequency = 0 => s.distanceSum = 0, s.last < step,
             s.frequency > 0 => s.distanceSum \in s.frequency - 1 .. s.last,
             s.first = -1 => s.hits + s.misses > 0
      PROVE  /\ Seen(s) \in T
             /\ Seen(s).frequency > 0 /\ Seen(s).last = step
             /\ Seen(s).distanceCount = Seen(s).frequency - 1
             /\ Seen(s).first >= 0 => Seen(s).distanceSum = Seen(s).last - Seen(s).first
             /\ Seen(s).distanceSum \in Seen(s).frequency - 1 .. Seen(s).last
             /\ Seen(s).first = -1 => Seen(s).hits + Seen(s).misses > 0
  <2>1. step \in Nat
    BY DEF DistanceInv, StatsTyped
  <2>2. /\ Seen(s).frequency = s.frequency + 1 /\ Seen(s).last = step
        /\ Seen(s).first = s.first /\ Seen(s).hits = s.hits /\ Seen(s).misses = s.misses
        /\ Seen(s).distanceSum = IF s.last >= 0 THEN s.distanceSum + step - s.last ELSE s.distanceSum
        /\ Seen(s).distanceCount = IF s.last >= 0 THEN s.distanceCount + 1 ELSE s.distanceCount
    BY <1>1 DEF Seen
  <2> HIDE DEF T
  <2>3. /\ s.frequency \in Nat /\ s.first \in Int /\ s.last \in Int /\ s.hits \in Nat
        /\ s.misses \in Nat /\ s.distanceSum \in Int /\ s.distanceCount \in Nat
    BY <1>1 DEF T
  <2>4. s.last >= 0 <=> s.frequency > 0
    BY <1>1, <2>3
  <2>5. Seen(s) \in T
    <3> DEFINE sum == IF s.last >= 0 THEN s.distanceSum + step - s.last ELSE s.distanceSum
               count == IF s.last >= 0 THEN s.distanceCount + 1 ELSE s.distanceCount
    <3>1. s.frequency + 1 \in Nat /\ step \in Int /\ sum \in Int /\ count \in Nat
      BY <2>1, <2>3
    <3>2. Seen(s) = [s EXCEPT !.frequency = s.frequency + 1, !.last = step,
                              !.distanceSum = sum, !.distanceCount = count]
      BY Zenon DEF Seen
    <3> HIDE DEF sum, count
    <3> QED
      BY <1>1, <3>1, <3>2 DEF T
  <2>6. CASE s.last >= 0
    <3>1. Seen(s).distanceCount = s.distanceCount + 1 /\ Seen(s).distanceSum = s.distanceSum + step - s.last
      BY <2>2, <2>6
    <3>2. s.distanceCount = s.frequency - 1
      BY <1>1, <2>3, <2>4, <2>6
    <3>3. Seen(s).frequency = s.frequency + 1 /\ Seen(s).last = step /\ Seen(s).first = s.first
      BY <2>2
    <3>4. s.first >= 0 => s.distanceSum = s.last - s.first
      BY <1>1, <2>4, <2>6
    <3>5. s.distanceSum \in s.frequency - 1 .. s.last /\ s.last < step
      BY <1>1, <2>4, <2>6
    <3>6. Seen(s).distanceSum \in Seen(s).frequency - 1 .. Seen(s).last
      BY <2>1, <2>3, <3>1, <3>3, <3>5
    <3>7. Seen(s).first = -1 => Seen(s).hits + Seen(s).misses > 0
      BY <1>1, <2>2
    <3> QED
      BY <2>1, <2>3, <2>5, <3>1, <3>2, <3>3, <3>4, <3>6, <3>7
  <2>7. CASE ~(s.last >= 0)
    <3>1. s.frequency = 0
      BY <2>3, <2>4, <2>7
    <3>2. Seen(s).distanceCount = 0 /\ Seen(s).distanceSum = s.distanceSum
      BY <1>1, <2>2, <2>7, <3>1
    <3>3. Seen(s).frequency = 1 /\ Seen(s).last = step /\ Seen(s).first = s.first
      BY <2>2, <3>1
    <3>4. Seen(s).distanceSum \in Seen(s).frequency - 1 .. Seen(s).last
      BY <1>1, <2>1, <3>1, <3>2, <3>3
    <3>5. Seen(s).first = -1 => Seen(s).hits + Seen(s).misses > 0
      BY <1>1, <2>2
    <3> QED
      BY <1>1, <2>1, <2>5, <3>1, <3>2, <3>3, <3>4, <3>5
  <2> QED
    BY <2>6, <2>7
<1>2. CASE e \in known
  BY <1>1, <1>2 DEF SeenNow, DistanceInv, StatsTyped, DistancesAddUp
<1>3. CASE e \notin known
  <2>1. SeenNow(e) = Seen([NewStats EXCEPT !.first = step])
    BY <1>3 DEF SeenNow
  <2> QED
    BY <1>1, <2>1 DEF NewStats, DistanceInv, StatsTyped
<1> QED
  BY <1>2, <1>3

(* Every step of the predictor adds the distance it should.                *)
LEMMA DistanceStep ==
    ASSUME DistanceInv, [CaptureNext]_allVars
    PROVE  DistanceInv'
<1>1. CASE UNCHANGED <<step, known, stats>>
  BY <1>1 DEF DistanceInv, StatsTyped, DistancesAddUp
<1>2. ASSUME NEW s, Observe(s)
      PROVE  DistanceInv'
  <2>1. PICK current : /\ stats' = [e \in Experts |-> IF e \in current THEN SeenNow(e) ELSE stats[e]]
                       /\ known' = known \cup current /\ step' = step + 1
    BY <1>2 DEF Observe
  <2>2. StatsTyped'
    BY <2>1, SeenNowExact DEF DistanceInv, StatsTyped
  <2>3. ASSUME NEW e \in Experts
        PROVE  /\ stats'[e].distanceCount =
                     IF stats'[e].frequency = 0 THEN 0 ELSE stats'[e].frequency - 1
               /\ stats'[e].first >= 0 => stats'[e].distanceSum = stats'[e].last - stats'[e].first
               /\ stats'[e].frequency > 0 =>
                     stats'[e].distanceSum \in stats'[e].frequency - 1 .. stats'[e].last
               /\ e \in known' /\ stats'[e].first = -1 => stats'[e].hits + stats'[e].misses > 0
               /\ stats'[e].frequency = 0 => stats'[e].distanceSum = 0
               /\ stats'[e].frequency = 0 <=> stats'[e].last = -1
               /\ stats'[e].last >= -1 /\ stats'[e].last < step'
               /\ stats'[e].first >= 0 => stats'[e].frequency > 0
               /\ e \notin known' => stats'[e] = NewStats
    <3>1. CASE e \in current
      <4>1. stats'[e] = SeenNow(e) /\ e \in known'
        BY <2>1, <3>1
      <4>2. step \in Nat
        BY DEF DistanceInv, StatsTyped
      <4> QED
        BY <2>1, <4>1, <4>2, SeenNowExact
    <3>2. CASE e \notin current
      BY <2>1, <3>2 DEF DistanceInv, DistancesAddUp, StatsTyped
    <3> QED
      BY <3>1, <3>2
  <2> QED
    BY <2>2, <2>3 DEF DistanceInv, DistancesAddUp
<1>3. ASSUME NEW e \in Experts, RecordHit(e) \/ RecordMiss(e)
      PROVE  DistanceInv'
  <2>1. step' = step /\ known' = known \cup {e}
    BY <1>3 DEF RecordHit, RecordMiss, routingVars
  <2>2. \/ stats' = [stats EXCEPT ![e].hits = @ + 1]
        \/ stats' = [stats EXCEPT ![e].misses = @ + 1]
    BY <1>3 DEF RecordHit, RecordMiss
  <2>3. StatsTyped'
    BY <2>1, <2>2 DEF DistanceInv, StatsTyped
  <2>4. ASSUME NEW x \in Experts
        PROVE  /\ stats'[x].frequency = stats[x].frequency
               /\ stats'[x].first = stats[x].first
               /\ stats'[x].last = stats[x].last
               /\ stats'[x].distanceSum = stats[x].distanceSum
               /\ stats'[x].distanceCount = stats[x].distanceCount
               /\ x # e => stats'[x] = stats[x]
               /\ stats'[x].hits + stats'[x].misses >= stats[x].hits + stats[x].misses
    BY <2>2 DEF DistanceInv, StatsTyped
  <2>5. stats'[e].hits + stats'[e].misses > 0
    BY <2>2 DEF DistanceInv, StatsTyped
  <2> QED
    BY <2>1, <2>3, <2>4, <2>5 DEF DistanceInv, DistancesAddUp
<1>4. CASE driver = "caller" /\ Next
  <2>1. \/ UNCHANGED <<step, known, stats>>
        \/ \E s : Observe(s)
        \/ \E e \in Experts : RecordHit(e) \/ RecordMiss(e)
    <3>1. \A s : ObserveEvent(s) => Observe(s)
      BY DEF ObserveEvent
    <3>2. \A e : Insert(e) => UNCHANGED <<step, known, stats>>
      BY DEF Insert, predictorVars
    <3>3. \A e : GetHit(e) => RecordHit(e)
      BY DEF GetHit
    <3>4. \A e : GetMiss(e) => RecordMiss(e)
      BY DEF GetMiss
    <3>5. Clear => UNCHANGED <<step, known, stats>>
      BY DEF Clear, predictorVars
    <3> QED
      BY <1>4, <3>1, <3>2, <3>3, <3>4, <3>5, Zenon DEF Next
  <2> QED
    BY <1>1, <1>2, <1>3, <2>1, Zenon
<1>5. CASE CaptureStep
  BY <1>1, <1>2, <1>5 DEF CaptureStep, BridgeObserves, ObserveToken, RemoveHooks, ClearCaptured,
     PlainForward, Install, Begin, GateRuns, ForwardRaises, ForwardReturns, TokenObserved, vars,
     predictorVars
<1> QED
  BY <1>1, <1>4, <1>5 DEF CaptureNext, allVars, vars, predictorVars

(* The distances of an expert add up to the way from its first observation *)
(* to its last, whichever lookups come in between and whoever observes     *)
(* (predictor.py:134-151).                                                 *)
THEOREM DistancesCorrect == CaptureSpec => []DistancesAddUp
<1>1. CaptureInit => DistanceInv
  BY DEF CaptureInit, Init, PredictorInit, DistanceInv, StatsTyped, DistancesAddUp, NewStats
<1>2. DistanceInv /\ [CaptureNext]_allVars => DistanceInv'
  BY DistanceStep
<1>3. DistanceInv => DistancesAddUp
  BY DEF DistanceInv
<1> QED
  BY <1>1, <1>2, <1>3, PTL DEF CaptureSpec
-----------------------------------------------------------------------------
(* The LRU, as the top of the stack of all touches.                        *)
LEMMA MovedPresent ==
    ASSUME NEW T, NEW s \in Seq(T), NEW p \in DOMAIN s, IsInjective(s)
    PROVE  LET r == MoveToEnd(s[p], s) IN
           /\ r \in Seq(T) /\ Len(r) = Len(s) /\ r[Len(s)] = s[p]
           /\ \A i \in 1 .. Len(s) - 1 : r[i] = IF i < p THEN s[i] ELSE s[i + 1]
<1> DEFINE a == RemoveFirst(s, s[p])
<1>1. Len(s) \in Nat /\ DOMAIN s = 1 .. Len(s) /\ s[p] \in T
  OBVIOUS
<1>2. /\ a \in Seq(T) /\ Len(a) = Len(s) - 1
      /\ \A i \in 1 .. Len(s) - 1 : a[i] = IF i < p THEN s[i] ELSE s[i + 1]
  <2>1. \A q \in DOMAIN s : s[q] = s[p] => q = p
    BY DEF IsInjective
  <2> QED
    BY <2>1, RemoveFirstExact
<1> HIDE DEF a
<1>3. /\ Append(a, s[p]) \in Seq(T) /\ Len(Append(a, s[p])) = Len(a) + 1
      /\ \A i \in 1 .. Len(a) : Append(a, s[p])[i] = a[i]
      /\ Append(a, s[p])[Len(a) + 1] = s[p]
  <2> DEFINE e == s[p]
  <2>1. e \in T /\ a \in Seq(T)
    BY <1>1, <1>2
  <2> HIDE DEF e
  <2>2. /\ Append(a, e) \in Seq(T) /\ Len(Append(a, e)) = Len(a) + 1
        /\ \A i \in 1 .. Len(a) : Append(a, e)[i] = a[i]
        /\ Append(a, e)[Len(a) + 1] = e
    BY <2>1, AppendProperties
  <2> QED
    BY <2>2 DEF e
<1>4. Len(a) + 1 = Len(s)
  BY <1>1, <1>2
<1>5. MoveToEnd(s[p], s) = Append(a, s[p])
  BY DEF MoveToEnd, a
<1> QED
  BY <1>2, <1>3, <1>4, <1>5

(* A new key goes to the end.                                              *)
LEMMA MovedAbsent ==
    ASSUME NEW T, NEW s \in Seq(T), NEW e, e \notin ToSet(s)
    PROVE  MoveToEnd(e, s) = Append(s, e)
  BY RemoveFirstAbsent DEF MoveToEnd

(* r is s with its element e of place p at the end.                        *)
Moved(s, p, e, r) ==
    /\ Len(r) = Len(s) /\ r[Len(s)] = e
    /\ \A i \in 1 .. Len(s) - 1 : r[i] = IF i < p THEN s[i] ELSE s[i + 1]

(* A key that is there is moved to the end, and the others keep their      *)
(* order.                                                                  *)
LEMMA MoveToEndExact ==
    ASSUME NEW T, NEW s \in Seq(T), NEW p \in DOMAIN s, IsInjective(s), NEW e, s[p] = e
    PROVE  MoveToEnd(e, s) \in Seq(T) /\ Moved(s, p, e, MoveToEnd(e, s))
<1>1. LET r == MoveToEnd(s[p], s) IN
      /\ r \in Seq(T) /\ Len(r) = Len(s) /\ r[Len(s)] = s[p]
      /\ \A i \in 1 .. Len(s) - 1 : r[i] = IF i < p THEN s[i] ELSE s[i + 1]
  BY MovedPresent
<1> QED
  BY <1>1 DEF Moved

(* Every key stays there once.                                             *)
LEMMA MovedOnce ==
    ASSUME NEW T, NEW s \in Seq(T), NEW e \in T, IsInjective(s)
    PROVE  MoveToEnd(e, s) \in Seq(T) /\ IsInjective(MoveToEnd(e, s))
<1> DEFINE r == MoveToEnd(e, s)
           n == Len(s)
<1>1. n \in Nat /\ DOMAIN s = 1 .. n
  OBVIOUS
<1>2. CASE e \notin ToSet(s)
  <2>1. r = Append(s, e)
    BY <1>2, MovedAbsent
  <2>2. \A i \in 1 .. n : s[i] # e
    BY <1>1, <1>2 DEF ToSet
  <2> HIDE DEF r
  <2>3. r \in Seq(T) /\ DOMAIN r = 1 .. n + 1 /\ r[n + 1] = e /\ \A i \in 1 .. n : r[i] = s[i]
    BY <1>1, <2>1
  <2>4. \A i \in 1 .. n + 1 : i = n + 1 \/ i \in 1 .. n
    BY <1>1
  <2> HIDE DEF n
  <2>5. \A i, j \in 1 .. n + 1 : r[i] = r[j] => i = j
    BY <1>1, <2>2, <2>3, <2>4 DEF IsInjective
  <2> QED
    BY <2>3, <2>5 DEF r, IsInjective
<1>3. CASE e \in ToSet(s)
  <2>1. PICK p \in 1 .. n : s[p] = e
    BY <1>1, <1>3 DEF ToSet
  <2>2. /\ r \in Seq(T) /\ Len(r) = n /\ r[n] = s[p]
        /\ \A i \in 1 .. n - 1 : r[i] = IF i < p THEN s[i] ELSE s[i + 1]
    BY <1>1, <2>1, MovedPresent
  <2> HIDE DEF r
  <2>3. DOMAIN r = 1 .. n
    BY <1>1, <2>2
  <2> DEFINE at(i) == IF i = n THEN p ELSE IF i < p THEN i ELSE i + 1
  <2> HIDE DEF n
  <2>4. \A i \in 1 .. n : at(i) \in 1 .. n /\ r[i] = s[at(i)]
    <3> TAKE i \in 1 .. n
    <3>1. CASE i = n
      BY <2>1, <2>2, <3>1
    <3>2. CASE i # n
      <4>1. i \in 1 .. n - 1
        BY <1>1, <3>2
      <4>2. r[i] = IF i < p THEN s[i] ELSE s[i + 1]
        BY <2>2, <4>1
      <4> QED
        BY <1>1, <3>2, <4>1, <4>2
    <3> QED
      BY <3>1, <3>2
  <2>5. \A i, j \in 1 .. n : at(i) = at(j) => i = j
    BY <1>1, <2>1
  <2> HIDE DEF at
  <2>6. \A i, j \in 1 .. n : r[i] = r[j] => i = j
    BY <1>1, <2>4, <2>5 DEF IsInjective
  <2> QED
    BY <2>2, <2>3, <2>6 DEF r, IsInjective
<1> QED
  BY <1>2, <1>3

(* o is the last c elements of s, or all if they are fewer.                *)
TopOf(c, s, o) ==
    /\ Len(o) = IF Len(s) > c THEN c ELSE Len(s)
    /\ \A i \in 1 .. Len(o) : o[i] = s[(Len(s) - Len(o)) + i]

(* What LastOf() takes.                                                    *)
LEMMA LastOfExact ==
    ASSUME NEW T, NEW s \in Seq(T), NEW c \in Nat \ {0}
    PROVE  LastOf(c, s) \in Seq(T) /\ TopOf(c, s, LastOf(c, s))
<1> DEFINE l == Len(s)
           n == IF l > c THEN c ELSE l
           m == IF l > c THEN l - c + 1 ELSE 1
           o == SubSeq(s, m, l)
<1>1. l \in Nat /\ m \in Int /\ m >= 1 /\ n \in Nat /\ m = l - n + 1 /\ \A i \in 1 .. l : s[i] \in T
  OBVIOUS
<1> HIDE DEF l, m, n
<1>2. \A i \in m .. l : s[i] \in T
  BY <1>1
<1>3. /\ o \in Seq(T) /\ Len(o) = IF m <= l THEN l - m + 1 ELSE 0
      /\ \A i \in 1 .. l - m + 1 : o[i] = s[m + i - 1]
  BY <1>1, <1>2, SubSeqProperties
<1>4. l - m + 1 = n
  BY <1>1
<1>5. Len(o) = n
  BY <1>1, <1>3, <1>4
<1>6. ASSUME NEW i \in 1 .. n
      PROVE  o[i] = s[(l - n) + i]
  <2>1. m + i - 1 = (l - n) + i
    BY <1>1
  <2> QED
    BY <1>3, <1>4, <2>1
<1>7. LastOf(c, s) = o
  BY DEF LastOf, l, m, o
<1> HIDE DEF o
<1> QED
  BY <1>3, <1>5, <1>6, <1>7 DEF n, l, TopOf

(* The three ways in which a touch moves the keys of the cache: to the     *)
(* last c of the stack they are all the same.                              *)
LEMMA TouchMovesTheTop ==
    ASSUME NEW T, NEW s \in Seq(T), IsInjective(s), NEW e \in T, NEW c \in Nat \ {0}
    PROVE  LET o == LastOf(c, s)
               top == LastOf(c, MoveToEnd(e, s)) IN
           /\ e \in ToSet(o) => top = MoveToEnd(e, o)
           /\ e \notin ToSet(o) /\ Len(o) < c => top = Append(o, e)
           /\ e \notin ToSet(o) /\ Len(o) >= c => top = Append(Tail(o), e)
<1> DEFINE o == LastOf(c, s)
           r == MoveToEnd(e, s)
           top == LastOf(c, r)
           l == Len(s)
           n == Len(o)
<1>1. /\ l \in Nat /\ n \in Nat /\ n = (IF l > c THEN c ELSE l) /\ o \in Seq(T)
      /\ DOMAIN s = 1 .. l /\ DOMAIN o = 1 .. n
      /\ \A i \in 1 .. n : o[i] = s[(l - n) + i]
  <2>1. o \in Seq(T) /\ TopOf(c, s, o)
    BY LastOfExact
  <2> HIDE DEF o
  <2>2. l \in Nat /\ n \in Nat /\ DOMAIN s = 1 .. l /\ DOMAIN o = 1 .. n
    BY <2>1
  <2>3. n = (IF l > c THEN c ELSE l) /\ \A i \in 1 .. n : o[i] = s[(l - n) + i]
    BY <2>1 DEF TopOf
  <2> QED
    BY <2>1, <2>2, <2>3
<1>2. \A i \in 1 .. n : (l - n) + i \in 1 .. l
  BY <1>1
<1>3. r \in Seq(T) /\ IsInjective(r)
  BY MovedOnce
<1> HIDE DEF o, l, n
<1>4. IsInjective(o)
  <2>1. \A i, j \in 1 .. n : s[(l - n) + i] = s[(l - n) + j] => (l - n) + i = (l - n) + j
    BY <1>1, <1>2 DEF IsInjective
  <2>2. \A i, j \in 1 .. n : o[i] = o[j] => i = j
    BY <1>1, <2>1
  <2> QED
    BY <1>1, <2>2 DEF IsInjective
<1>5. ASSUME NEW p \in 1 .. l, s[p] = e
      PROVE  /\ Len(r) = l /\ r[l] = e
             /\ \A i \in 1 .. l - 1 : r[i] = IF i < p THEN s[i] ELSE s[i + 1]
             /\ top \in Seq(T) /\ Len(top) = n /\ \A i \in 1 .. n : top[i] = r[(l - n) + i]
  <2>1. Moved(s, p, e, r)
    BY <1>1, <1>5, MoveToEndExact
  <2>2. TopOf(c, r, top) /\ top \in Seq(T)
    <3> HIDE DEF r
    <3> QED
      BY <1>3, LastOfExact
  <2> HIDE DEF r, top
  <2>3. Len(r) = l /\ r[l] = e /\ \A i \in 1 .. l - 1 : r[i] = IF i < p THEN s[i] ELSE s[i + 1]
    BY <2>1 DEF Moved, l
  <2>4. Len(top) = n
    BY <1>1, <2>2, <2>3 DEF TopOf
  <2>5. \A i \in 1 .. n : top[i] = r[(l - n) + i]
    BY <2>2, <2>3, <2>4 DEF TopOf
  <2> QED
    BY <2>2, <2>3, <2>4, <2>5
<1>6. ASSUME e \notin ToSet(s)
      PROVE  /\ Len(r) = l + 1 /\ r[l + 1] = e /\ \A i \in 1 .. l : r[i] = s[i]
             /\ top \in Seq(T) /\ Len(top) = IF l + 1 > c THEN c ELSE l + 1
             /\ \A i \in 1 .. Len(top) : top[i] = r[((l + 1) - Len(top)) + i]
  <2>1. r = Append(s, e)
    BY <1>6, MovedAbsent
  <2>2. Len(r) = Len(s) + 1 /\ r[Len(s) + 1] = e /\ \A i \in 1 .. Len(s) : r[i] = s[i]
    <3> HIDE DEF r
    <3> QED
      BY <2>1, AppendProperties
  <2>3. TopOf(c, r, top) /\ top \in Seq(T)
    <3> HIDE DEF r
    <3> QED
      BY <1>3, LastOfExact
  <2> HIDE DEF r, top
  <2>4. Len(r) = l + 1 /\ r[l + 1] = e /\ \A i \in 1 .. l : r[i] = s[i]
    BY <2>2 DEF l
  <2>5. Len(top) = IF l + 1 > c THEN c ELSE l + 1
    BY <2>3, <2>4 DEF TopOf
  <2>6. \A i \in 1 .. Len(top) : top[i] = r[((l + 1) - Len(top)) + i]
    <3>1. \A i \in 1 .. Len(top) : top[i] = r[(Len(r) - Len(top)) + i]
      BY <2>3 DEF TopOf
    <3>2. Len(r) = l + 1
      BY <2>4
    <3> QED
      BY <3>1, <3>2
  <2> QED
    BY <2>3, <2>4, <2>5, <2>6
<1>7. ASSUME e \in ToSet(o)
      PROVE  top = MoveToEnd(e, o)
  <2>1. PICK q \in 1 .. n : o[q] = e
    BY <1>1, <1>7 DEF ToSet
  <2> DEFINE p == (l - n) + q
             m == MoveToEnd(e, o)
  <2>2. p \in 1 .. l /\ s[p] = e
    BY <1>1, <1>2, <2>1
  <2>3. /\ m \in Seq(T) /\ Len(m) = n /\ m[n] = e
        /\ \A i \in 1 .. n - 1 : m[i] = IF i < q THEN o[i] ELSE o[i + 1]
    <3>1. m \in Seq(T) /\ Moved(o, q, e, m)
      BY <1>1, <1>4, <2>1, MoveToEndExact
    <3> QED
      BY <3>1 DEF Moved, n
  <2>4. /\ r[l] = e
        /\ \A i \in 1 .. l - 1 : r[i] = IF i < p THEN s[i] ELSE s[i + 1]
        /\ top \in Seq(T) /\ Len(top) = n /\ \A i \in 1 .. n : top[i] = r[(l - n) + i]
    BY <1>5, <2>2
  <2> HIDE DEF m, top, r
  <2>5. ASSUME NEW i \in 1 .. n
        PROVE  top[i] = m[i]
    <3>1. CASE i = n
      <4>1. (l - n) + n = l
        BY <1>1
      <4> QED
        BY <2>3, <2>4, <3>1, <4>1
    <3>2. CASE i # n
      <4>1. i \in 1 .. n - 1 /\ (l - n) + i \in 1 .. l - 1 /\ i + 1 \in 1 .. n
            /\ ((l - n) + i) + 1 = (l - n) + (i + 1)
            /\ ((l - n) + i < p <=> i < q)
        BY <1>1, <2>1, <3>2
      <4>2. top[i] = IF i < q THEN s[(l - n) + i] ELSE s[(l - n) + (i + 1)]
        BY <2>4, <4>1
      <4>3. o[i] = s[(l - n) + i] /\ o[i + 1] = s[(l - n) + (i + 1)]
        BY <1>1, <4>1
      <4> QED
        BY <2>3, <4>1, <4>2, <4>3
    <3> QED
      BY <3>1, <3>2
  <2> QED
    BY <2>3, <2>4, <2>5, SeqEqual DEF m, top
<1>8. ASSUME e \notin ToSet(o), n < c
      PROVE  top = Append(o, e)
  <2>1. n = l /\ l < c /\ e \notin ToSet(s)
    <3>1. n = l /\ l < c
      BY <1>1, <1>8
    <3>2. \A i \in 1 .. n : o[i] = s[i]
      BY <1>1, <3>1
    <3> QED
      BY <1>1, <1>8, <3>1, <3>2 DEF ToSet
  <2>2. /\ r[l + 1] = e /\ \A i \in 1 .. l : r[i] = s[i]
        /\ top \in Seq(T) /\ Len(top) = l + 1 /\ \A i \in 1 .. l + 1 : top[i] = r[i]
    <3>1. ~(l + 1 > c)
      BY <1>1, <2>1
    <3>2. \A i \in 1 .. l + 1 : ((l + 1) - (l + 1)) + i = i
      BY <1>1
    <3> QED
      BY <1>6, <2>1, <3>1, <3>2
  <2> DEFINE a == Append(o, e)
  <2>3. a \in Seq(T) /\ Len(a) = l + 1 /\ a[l + 1] = e /\ \A i \in 1 .. l : a[i] = s[i]
    <3>1. \A i \in 1 .. n : o[i] = s[i]
      BY <1>1, <2>1
    <3> QED
      BY <1>1, <2>1, <3>1, AppendProperties DEF n
  <2> HIDE DEF a, top, r
  <2>4. \A i \in 1 .. l + 1 : top[i] = a[i]
    <3>1. \A i \in 1 .. l + 1 : i = l + 1 \/ i \in 1 .. l
      BY <1>1
    <3> QED
      BY <2>2, <2>3, <3>1
  <2> QED
    BY <2>2, <2>3, <2>4, SeqEqual DEF a, top
<1>9. ASSUME e \notin ToSet(o), n >= c
      PROVE  top = Append(Tail(o), e)
  <2>1. n = c /\ l >= c /\ n >= 1
    BY <1>1, <1>9
  <2> DEFINE t == Tail(o)
             a == Append(t, e)
  <2>2. t \in Seq(T) /\ Len(t) = n - 1 /\ \A i \in 1 .. n - 1 : t[i] = o[i + 1]
    BY <1>1, <2>1 DEF n
  <2> HIDE DEF t
  <2>3. a \in Seq(T) /\ Len(a) = n /\ a[n] = e /\ \A i \in 1 .. n - 1 : a[i] = o[i + 1]
    <3>1. Len(t) + 1 = n
      BY <1>1, <2>2
    <3> QED
      BY <2>2, <3>1, AppendProperties
  <2>4. \A i \in 1 .. n - 1 : a[i] = s[((l - n) + i) + 1]
    <3> TAKE i \in 1 .. n - 1
    <3>1. i + 1 \in 1 .. n /\ (l - n) + (i + 1) = ((l - n) + i) + 1
      BY <1>1, <2>1
    <3> QED
      BY <1>1, <2>3, <3>1
  <2>5. top \in Seq(T) /\ Len(top) = n /\ top[n] = e
        /\ \A i \in 1 .. n - 1 : top[i] = s[((l - n) + i) + 1]
    <3>1. CASE e \notin ToSet(s)
      <4>1. l + 1 > c
        BY <1>1, <2>1
      <4>2. /\ r[l + 1] = e /\ \A i \in 1 .. l : r[i] = s[i]
            /\ top \in Seq(T) /\ Len(top) = n /\ \A i \in 1 .. n : top[i] = r[((l + 1) - n) + i]
        BY <1>6, <2>1, <3>1, <4>1
      <4> HIDE DEF top, r
      <4>3. ((l + 1) - n) + n = l + 1 /\ n \in 1 .. n
        BY <1>1, <2>1
      <4>4. \A i \in 1 .. n - 1 : ((l + 1) - n) + i = ((l - n) + i) + 1 /\ ((l - n) + i) + 1 \in 1 .. l /\ i \in 1 .. n
        BY <1>1, <2>1
      <4>5. top[n] = e
        BY <4>2, <4>3
      <4>6. ASSUME NEW i \in 1 .. n - 1
            PROVE  top[i] = s[((l - n) + i) + 1]
        <5>1. top[i] = r[((l + 1) - n) + i]
          BY <4>2, <4>4
        <5>2. r[((l - n) + i) + 1] = s[((l - n) + i) + 1]
          BY <4>2, <4>4
        <5> QED
          BY <4>4, <5>1, <5>2
      <4> QED
        BY <4>2, <4>5, <4>6
    <3>2. CASE e \in ToSet(s)
      <4>1. PICK p \in 1 .. l : s[p] = e
        BY <1>1, <3>2 DEF ToSet
      <4>2. p <= l - n
        <5>1. SUFFICES ASSUME p > l - n
                       PROVE  FALSE
          BY <1>1
        <5>2. p - (l - n) \in 1 .. n /\ (l - n) + (p - (l - n)) = p
          BY <1>1, <5>1
        <5>3. o[p - (l - n)] = e
          BY <1>1, <4>1, <5>2
        <5> QED
          BY <1>1, <1>9, <5>2, <5>3 DEF ToSet
      <4>3. /\ r[l] = e
            /\ \A i \in 1 .. l - 1 : r[i] = IF i < p THEN s[i] ELSE s[i + 1]
            /\ top \in Seq(T) /\ Len(top) = n /\ \A i \in 1 .. n : top[i] = r[(l - n) + i]
        BY <1>5, <4>1
      <4> HIDE DEF top, r
      <4>4. (l - n) + n = l /\ n \in 1 .. n
        BY <1>1, <2>1
      <4>5. \A i \in 1 .. n - 1 : ~((l - n) + i < p) /\ (l - n) + i \in 1 .. l - 1 /\ i \in 1 .. n
        BY <1>1, <2>1, <4>2
      <4> QED
        BY <4>3, <4>4, <4>5
    <3> QED
      BY <3>1, <3>2
  <2> HIDE DEF a, top, r
  <2>6. \A i \in 1 .. n : top[i] = a[i]
    <3>1. \A i \in 1 .. n : i = n \/ i \in 1 .. n - 1
      BY <1>1
    <3> QED
      BY <2>3, <2>4, <2>5, <3>1
  <2> QED
    BY <2>3, <2>5, <2>6, SeqEqual DEF a, t, top
<1> QED
  BY <1>7, <1>8, <1>9 DEF n, o
-----------------------------------------------------------------------------
(* What the entries f say of the keys o at the step now: they have been    *)
(* accessed in the order of the keys and not later than now.               *)
EntriesType == [inserted : Int, lastAccess : Int, accesses : Nat, hits : Nat]

Fits(o, f, now) ==
    /\ f \in [Experts -> EntriesType]
    /\ \A i, j \in DOMAIN o : i < j => f[o[i]].lastAccess <= f[o[j]].lastAccess
    /\ \A e \in Experts : e \notin ToSet(o) <=> f[e] = NoEntry
    /\ \A e \in ToSet(o) : /\ 0 <= f[e].inserted /\ f[e].inserted <= f[e].lastAccess
                           /\ f[e].lastAccess <= now

(* The keys r are some of o in their order, and e after them.              *)
TouchedLast(o, r, e) ==
    /\ r \in Seq(Experts) /\ Len(r) > 0 /\ r[Len(r)] = e
    /\ \E at \in [1 .. Len(r) - 1 -> DOMAIN o] :
          /\ \A i \in 1 .. Len(r) - 1 : r[i] = o[at[i]] /\ r[i] # e
          /\ \A i, j \in 1 .. Len(r) - 1 : i < j => at[i] < at[j]

(* Touching the last key at the step now keeps the steps of the entries in *)
(* the order of the keys.                                                  *)
LEMMA TouchedFits ==
    ASSUME NEW now \in Nat, NEW o \in Seq(Experts), NEW f, Fits(o, f, now),
           NEW e \in Experts, NEW r, TouchedLast(o, r, e),
           NEW g \in [Experts -> EntriesType],
           \A x \in Experts \ {e} : g[x] = IF x \in ToSet(r) THEN f[x] ELSE NoEntry,
           g[e].lastAccess = now, 0 <= g[e].inserted, g[e].inserted <= now
    PROVE  Fits(r, g, now)
<1>1. PICK at \in [1 .. Len(r) - 1 -> DOMAIN o] :
          /\ \A i \in 1 .. Len(r) - 1 : r[i] = o[at[i]] /\ r[i] # e
          /\ \A i, j \in 1 .. Len(r) - 1 : i < j => at[i] < at[j]
  BY DEF TouchedLast
<1> DEFINE n == Len(r)
<1>2. r \in Seq(Experts) /\ n \in Nat \ {0} /\ DOMAIN r = 1 .. n /\ r[n] = e
  BY DEF TouchedLast
<1>3. \A x \in Experts : /\ f[x].lastAccess \in Int /\ f[x].inserted \in Int
                         /\ g[x].lastAccess \in Int /\ g[x].inserted \in Int
  BY DEF Fits, EntriesType
<1>4. \A i \in 1 .. n - 1 : /\ at[i] \in DOMAIN o /\ o[at[i]] \in ToSet(o) /\ r[i] \in ToSet(r)
                            /\ r[i] \in Experts /\ r[i] = o[at[i]] /\ g[r[i]] = f[r[i]] /\ i # n
  <2> TAKE i \in 1 .. n - 1
  <2>1. i \in DOMAIN r /\ i # n /\ at[i] \in DOMAIN o
    <3>1. at[i] \in DOMAIN o
      BY <1>1
    <3> HIDE DEF n
    <3> QED
      BY <1>2, <3>1
  <2>2. r[i] \in Experts \ {e} /\ r[i] \in ToSet(r) /\ o[at[i]] \in ToSet(o)
    BY <1>1, <1>2, <2>1 DEF ToSet
  <2> QED
    BY <1>1, <2>1, <2>2
<1> HIDE DEF n
<1>5. \A x \in ToSet(r) : x = e \/ (x \in ToSet(o) /\ g[x] = f[x] /\ x \in Experts)
  <2>1. \A i \in 1 .. n : i = n \/ i \in 1 .. n - 1
    BY <1>2
  <2>2. \A x \in ToSet(r) : \E i \in 1 .. n : x = r[i]
    BY <1>2 DEF ToSet
  <2> QED
    BY <1>2, <1>4, <2>1, <2>2
<1>6. \A i, j \in DOMAIN r : i < j => g[r[i]].lastAccess <= g[r[j]].lastAccess
  <2> SUFFICES ASSUME NEW i \in 1 .. n, NEW j \in 1 .. n, i < j
               PROVE  g[r[i]].lastAccess <= g[r[j]].lastAccess
    BY <1>2
  <2>1. i \in 1 .. n - 1
    BY <1>2
  <2>2. CASE j = n
    BY <1>2, <1>4, <2>1, <2>2 DEF Fits
  <2>3. CASE j # n
    <3>1. j \in 1 .. n - 1
      BY <1>2, <2>3
    <3>2. at[i] < at[j]
      BY <1>1, <2>1, <3>1 DEF n
    <3> QED
      BY <1>4, <2>1, <3>1, <3>2 DEF Fits
  <2> QED
    BY <2>2, <2>3
<1>7. e \in ToSet(r)
  BY <1>2 DEF ToSet
<1>8. \A x \in Experts : x \notin ToSet(r) <=> g[x] = NoEntry
  <2>1. g[e] # NoEntry
    BY DEF NoEntry
  <2>2. \A x \in ToSet(o) : x \in Experts /\ f[x] # NoEntry
    <3>1. \A x \in ToSet(o) : x \in Experts
      BY DEF ToSet
    <3> QED
      BY <3>1 DEF Fits
  <2> QED
    BY <1>5, <1>7, <2>1, <2>2
<1>9. \A x \in ToSet(r) : /\ 0 <= g[x].inserted /\ g[x].inserted <= g[x].lastAccess
                          /\ g[x].lastAccess <= now
  BY <1>5 DEF Fits
<1> QED
  BY <1>6, <1>8, <1>9 DEF Fits

(* The three ways in which a touch moves the keys are of that kind.        *)
LEMMA HitTouchesLast ==
    ASSUME NEW o \in Seq(Experts), IsInjective(o), NEW e \in Experts, e \in ToSet(o)
    PROVE  /\ TouchedLast(o, MoveToEnd(e, o), e)
           /\ ToSet(MoveToEnd(e, o)) = ToSet(o)
<1> DEFINE n == Len(o)
           r == MoveToEnd(e, o)
<1>1. n \in Nat /\ DOMAIN o = 1 .. n
  OBVIOUS
<1>2. PICK p \in 1 .. n : o[p] = e
  BY <1>1 DEF ToSet
<1>3. r \in Seq(Experts) /\ Moved(o, p, e, r)
  BY <1>1, <1>2, MoveToEndExact
<1> HIDE DEF r
<1>4. Len(r) = n /\ r[n] = e /\ \A i \in 1 .. n - 1 : r[i] = IF i < p THEN o[i] ELSE o[i + 1]
  BY <1>3 DEF Moved
<1> HIDE DEF n
<1> DEFINE at == [i \in 1 .. n - 1 |-> IF i < p THEN i ELSE i + 1]
<1>5. /\ at \in [1 .. n - 1 -> 1 .. n]
      /\ \A i, j \in 1 .. n - 1 : i < j => at[i] < at[j]
      /\ \A i \in 1 .. n - 1 : at[i] # p
  BY <1>1, <1>2
<1>6. \A i \in 1 .. n - 1 : r[i] = o[at[i]]
  BY <1>4
<1> HIDE DEF at
<1>7. \A i \in 1 .. n - 1 : r[i] # e
  BY <1>1, <1>2, <1>5, <1>6 DEF IsInjective
<1>8. TouchedLast(o, r, e)
  <2>1. n > 0
    BY <1>1, <1>2
  <2> QED
    BY <1>1, <1>3, <1>4, <1>5, <1>6, <1>7, <2>1 DEF TouchedLast
<1>9. DOMAIN r = 1 .. n
  BY <1>3, <1>4
<1>10. ToSet(r) \subseteq ToSet(o)
  <2>1. \A i \in 1 .. n : i = n \/ i \in 1 .. n - 1
    BY <1>1
  <2> QED
    BY <1>1, <1>2, <1>4, <1>5, <1>6, <1>9, <2>1 DEF ToSet
<1>11. ASSUME NEW k \in 1 .. n
       PROVE  o[k] \in ToSet(r)
  <2>1. CASE k = p
    <3>1. n \in 1 .. n
      BY <1>1, <1>2
    <3> QED
      BY <1>2, <1>4, <1>9, <2>1, <3>1 DEF ToSet
  <2>2. CASE k < p
    <3>1. k \in 1 .. n - 1
      BY <1>1, <1>2, <2>2
    <3> QED
      BY <1>4, <1>9, <2>2, <3>1 DEF ToSet
  <2>3. CASE k > p
    <3>1. k - 1 \in 1 .. n - 1 /\ k - 1 \in 1 .. n /\ ~(k - 1 < p) /\ (k - 1) + 1 = k
      BY <1>1, <1>2, <2>3
    <3>2. r[k - 1] = o[k]
      BY <1>4, <3>1
    <3> QED
      BY <1>9, <3>1, <3>2 DEF ToSet
  <2> QED
    BY <1>1, <2>1, <2>2, <2>3
<1> QED
  BY <1>1, <1>8, <1>10, <1>11 DEF ToSet, r

(* put() of a new key in a cache with room.                                *)
LEMMA InsertTouchesLast ==
    ASSUME NEW o \in Seq(Experts), NEW e \in Experts, e \notin ToSet(o)
    PROVE  /\ TouchedLast(o, Append(o, e), e)
           /\ ToSet(Append(o, e)) = ToSet(o) \cup {e}
<1> DEFINE n == Len(o)
           r == Append(o, e)
           at == [i \in 1 .. n |-> i]
<1>1. n \in Nat /\ DOMAIN o = 1 .. n
  OBVIOUS
<1>2. r \in Seq(Experts) /\ Len(r) = n + 1 /\ r[n + 1] = e /\ \A i \in 1 .. n : r[i] = o[i]
  BY AppendProperties
<1>3. (n + 1) - 1 = n /\ n + 1 > 0 /\ n + 1 \in 1 .. n + 1
  BY <1>1
<1> HIDE DEF n, r
<1>4. DOMAIN r = 1 .. n + 1
  BY <1>2
<1>5. \A i \in 1 .. n : o[i] # e
  BY <1>1 DEF ToSet
<1>6. TouchedLast(o, r, e)
  <2>1. at \in [1 .. n -> DOMAIN o] /\ \A i \in 1 .. n : at[i] = i
    BY <1>1
  <2> HIDE DEF at
  <2>2. \A i \in 1 .. n : r[i] = o[at[i]] /\ r[i] # e
    BY <1>2, <1>5, <2>1
  <2>3. \A i, j \in 1 .. n : i < j => at[i] < at[j]
    BY <2>1
  <2> QED
    BY <1>2, <1>3, <2>1, <2>2, <2>3 DEF TouchedLast
<1>7. ToSet(r) = ToSet(o) \cup {e}
  <2>1. \A i \in 1 .. n + 1 : i = n + 1 \/ i \in 1 .. n
    BY <1>1
  <2>2. \A i \in 1 .. n : i \in 1 .. n + 1
    BY <1>1
  <2> QED
    BY <1>1, <1>2, <1>3, <1>4, <2>1, <2>2 DEF ToSet
<1> QED
  BY <1>6, <1>7 DEF r

(* put() of a new key in a full cache: the oldest goes.                    *)
LEMMA EvictTouchesLast ==
    ASSUME NEW o \in Seq(Experts), IsInjective(o), o # <<>>, NEW e \in Experts, e \notin ToSet(o)
    PROVE  /\ TouchedLast(o, Append(Tail(o), e), e)
           /\ ToSet(Append(Tail(o), e)) = (ToSet(o) \ {Head(o)}) \cup {e}
<1> DEFINE t == Tail(o)
           n == Len(t)
<1>1. t \in Seq(Experts) /\ n \in Nat /\ Len(o) = n + 1 /\ DOMAIN t = 1 .. n
      /\ DOMAIN o = 1 .. n + 1 /\ Head(o) = o[1] /\ \A i \in 1 .. n : t[i] = o[i + 1]
  OBVIOUS
<1> HIDE DEF t, n
<1>2. ToSet(t) = ToSet(o) \ {Head(o)}
  <2>1. \A i \in 1 .. n : i + 1 \in 1 .. n + 1 /\ i + 1 # 1
    BY <1>1
  <2>2. \A k \in 1 .. n + 1 : k = 1 \/ (k - 1 \in 1 .. n /\ (k - 1) + 1 = k)
    BY <1>1
  <2>3. 1 \in 1 .. n + 1
    BY <1>1
  <2>4. \A i \in 1 .. n : t[i] \in ToSet(o) /\ t[i] # Head(o)
    <3> TAKE i \in 1 .. n
    <3>1. i + 1 \in DOMAIN o /\ 1 \in DOMAIN o /\ t[i] = o[i + 1] /\ i + 1 # 1
      BY <1>1, <2>1, <2>3
    <3>2. o[i + 1] # o[1]
      BY <3>1 DEF IsInjective
    <3>3. o[i + 1] \in ToSet(o)
      BY <3>1 DEF ToSet
    <3> QED
      BY <1>1, <3>1, <3>2, <3>3
  <2>5. \A k \in 1 .. n + 1 : o[k] = Head(o) \/ o[k] \in ToSet(t)
    <3> TAKE k \in 1 .. n + 1
    <3>1. CASE k = 1
      BY <1>1, <3>1
    <3>2. CASE k # 1
      <4>1. k - 1 \in 1 .. n /\ (k - 1) + 1 = k
        BY <2>2, <3>2
      <4>2. t[k - 1] = o[k]
        BY <1>1, <4>1
      <4> QED
        BY <1>1, <4>1, <4>2 DEF ToSet
    <3> QED
      BY <3>1, <3>2
  <2>6. \A x \in ToSet(t) : x \in ToSet(o) /\ x # Head(o)
    BY <1>1, <2>4 DEF ToSet
  <2>7. \A x \in ToSet(o) : x = Head(o) \/ x \in ToSet(t)
    BY <1>1, <2>5 DEF ToSet
  <2> QED
    BY <2>6, <2>7
<1>3. e \notin ToSet(t)
  BY <1>2
<1>4. TouchedLast(t, Append(t, e), e) /\ ToSet(Append(t, e)) = ToSet(t) \cup {e}
  BY <1>1, <1>3, InsertTouchesLast
<1> DEFINE r == Append(t, e)
<1> HIDE DEF r
<1>5. /\ r \in Seq(Experts) /\ Len(r) > 0 /\ r[Len(r)] = e
      /\ \E at \in [1 .. Len(r) - 1 -> DOMAIN t] :
            /\ \A i \in 1 .. Len(r) - 1 : r[i] = t[at[i]] /\ r[i] # e
            /\ \A i, j \in 1 .. Len(r) - 1 : i < j => at[i] < at[j]
  BY <1>4 DEF TouchedLast, r
<1>6. PICK at \in [1 .. Len(r) - 1 -> DOMAIN t] :
            /\ \A i \in 1 .. Len(r) - 1 : r[i] = t[at[i]] /\ r[i] # e
            /\ \A i, j \in 1 .. Len(r) - 1 : i < j => at[i] < at[j]
  BY <1>5
<1> DEFINE k == Len(r) - 1
           to == [i \in 1 .. k |-> at[i] + 1]
<1>7. \A i \in 1 .. k : at[i] \in 1 .. n
  BY <1>1, <1>6
<1>8. /\ to \in [1 .. k -> DOMAIN o]
      /\ \A i \in 1 .. k : to[i] = at[i] + 1
  BY <1>1, <1>7
<1> HIDE DEF to
<1>9. \A i \in 1 .. k : r[i] = o[to[i]] /\ r[i] # e
  BY <1>1, <1>6, <1>7, <1>8
<1>10. \A i, j \in 1 .. k : i < j => to[i] < to[j]
  BY <1>1, <1>6, <1>7, <1>8
<1>11. TouchedLast(o, r, e)
  BY <1>5, <1>8, <1>9, <1>10 DEF TouchedLast
<1> QED
  BY <1>2, <1>4, <1>11 DEF r, t

(* The last keys are as different as all of them.                          *)
LEMMA TopOnce ==
    ASSUME NEW T, NEW s \in Seq(T), IsInjective(s), NEW c \in Nat \ {0}
    PROVE  IsInjective(LastOf(c, s))
<1> DEFINE o == LastOf(c, s)
           l == Len(s)
           n == Len(o)
<1>1. o \in Seq(T) /\ TopOf(c, s, o)
  BY LastOfExact
<1> HIDE DEF o
<1>2. /\ l \in Nat /\ n \in Nat /\ DOMAIN s = 1 .. l /\ DOMAIN o = 1 .. n
      /\ n <= l /\ \A i \in 1 .. n : o[i] = s[(l - n) + i]
  <2>1. l \in Nat /\ n \in Nat /\ DOMAIN s = 1 .. l /\ DOMAIN o = 1 .. n
    BY <1>1
  <2>2. n = (IF l > c THEN c ELSE l) /\ \A i \in 1 .. n : o[i] = s[(l - n) + i]
    BY <1>1 DEF TopOf
  <2>3. n <= l
    <3> HIDE DEF n, l
    <3> QED
      BY <2>1, <2>2
  <2> QED
    BY <2>1, <2>2, <2>3
<1> HIDE DEF l, n
<1>3. \A i \in 1 .. n : (l - n) + i \in 1 .. l
  BY <1>2
<1>4. \A i, j \in 1 .. n : s[(l - n) + i] = s[(l - n) + j] => (l - n) + i = (l - n) + j
  BY <1>2, <1>3 DEF IsInjective
<1>5. \A i, j \in 1 .. n : o[i] = o[j] => i = j
  BY <1>2, <1>4
<1> QED
  BY <1>2, <1>5 DEF IsInjective, o

(* What a hit, an insertion and an eviction do to the keys of the cache is *)
(* what the touch does to the last Capacity keys ever touched.             *)
LEMMA TopAfterHit ==
    ASSUME NEW T, NEW s \in Seq(T), IsInjective(s), NEW c \in Nat \ {0},
           NEW e \in T, NEW o, o = LastOf(c, s), e \in ToSet(o)
    PROVE  MoveToEnd(e, o) = LastOf(c, MoveToEnd(e, s))
  BY TouchMovesTheTop

(* And with a key that is new, below the capacity.                         *)
LEMMA TopAfterInsert ==
    ASSUME NEW T, NEW s \in Seq(T), IsInjective(s), NEW c \in Nat \ {0},
           NEW e \in T, NEW o, o = LastOf(c, s), e \notin ToSet(o), Len(o) < c
    PROVE  Append(o, e) = LastOf(c, MoveToEnd(e, s))
  BY TouchMovesTheTop

(* And with a key that is new, for the oldest one.                         *)
LEMMA TopAfterEviction ==
    ASSUME NEW T, NEW s \in Seq(T), IsInjective(s), NEW c \in Nat \ {0},
           NEW e \in T, NEW o, o = LastOf(c, s), e \notin ToSet(o), Len(o) >= c
    PROVE  Append(Tail(o), e) = LastOf(c, MoveToEnd(e, s))
  BY TouchMovesTheTop

(* The cache has the Capacity keys touched last, in the order of the       *)
(* touches, and the entries go with them.                                  *)
CacheInv ==
    /\ step \in Nat
    /\ touched \in Seq(Experts) /\ IsInjective(touched)
    /\ order = LastOf(Capacity, touched)
    /\ Fits(order, entries, step)

(* What CacheInv says of the keys themselves.                              *)
LEMMA CacheKeys ==
    ASSUME CacheInv
    PROVE  /\ order \in Seq(Experts) /\ IsInjective(order) /\ Len(order) \in Nat
           /\ Len(order) <= Capacity /\ Cached = ToSet(order)
<1>1. Capacity \in Nat \ {0}
  BY CacheAssumption
<1>2. order \in Seq(Experts) /\ IsInjective(order) /\ TopOf(Capacity, touched, order)
  BY <1>1, LastOfExact, TopOnce DEF CacheInv
<1>3. Len(order) \in Nat /\ Len(touched) \in Nat
  BY <1>2 DEF CacheInv
<1>4. Len(order) = IF Len(touched) > Capacity THEN Capacity ELSE Len(touched)
  BY <1>2 DEF TopOf
<1>5. Len(order) <= Capacity
  BY <1>1, <1>3, <1>4
<1> QED
  BY <1>2, <1>3, <1>5 DEF Cached

(* The cache is empty before anything is touched.                          *)
LEMMA EmptyTop == LastOf(Capacity, <<>>) = <<>>
<1>1. Capacity \in Nat \ {0} /\ <<>> \in Seq(Experts) /\ Len(<<>>) = 0
  BY CacheAssumption
<1>2. LastOf(Capacity, <<>>) \in Seq(Experts) /\ TopOf(Capacity, <<>>, LastOf(Capacity, <<>>))
  BY <1>1, LastOfExact, Zenon
<1>3. Len(LastOf(Capacity, <<>>)) = 0
  BY <1>1, <1>2 DEF TopOf
<1> QED
  BY <1>2, <1>3, EmptySeq

(* The entry of a hit: it has been accessed now.                           *)
Refreshed(e) ==
    /\ entries' \in [Experts -> EntriesType]
    /\ entries'[e].lastAccess = step /\ entries'[e].inserted = entries[e].inserted
    /\ \A x \in Experts \ {e} : entries'[x] = entries[x]

(* A touch of whatever kind.                                               *)
Touches(e) ==
    \/ e \in Cached /\ HitMoves(e) /\ Refreshed(e)
    \/ /\ e \notin Cached /\ ~IsFull
       /\ order' = Append(order, e) /\ entries' = [entries EXCEPT ![e] = NewEntry]
    \/ e \notin Cached /\ IsFull /\ EvictOldest(e)

(* Every touch of a key keeps the cache in order.                          *)
LEMMA TouchStep ==
    ASSUME CacheInv, NEW e \in Experts, Touch(e), UNCHANGED step, Touches(e)
    PROVE  CacheInv'
<1>1. /\ order \in Seq(Experts) /\ IsInjective(order) /\ Len(order) \in Nat
      /\ Cached = ToSet(order)
  BY CacheKeys
<1>2. Capacity \in Nat \ {0} /\ step \in Nat /\ touched \in Seq(Experts) /\ IsInjective(touched)
      /\ order = LastOf(Capacity, touched) /\ Fits(order, entries, step)
  BY CacheAssumption DEF CacheInv
<1>3. touched' = MoveToEnd(e, touched)
  BY DEF Touch
<1>4. touched' \in Seq(Experts) /\ IsInjective(touched')
  BY <1>2, <1>3, MovedOnce
<1>5. /\ entries \in [Experts -> EntriesType]
      /\ \A x \in Experts : x \notin ToSet(order) => entries[x] = NoEntry
  BY <1>2 DEF Fits
<1>6. CASE e \in Cached /\ HitMoves(e) /\ Refreshed(e)
  <2>1. order' = MoveToEnd(e, order) /\ e \in ToSet(order)
    BY <1>1, <1>6 DEF HitMoves
  <2>3. TouchedLast(order, order', e) /\ ToSet(order') = ToSet(order)
    BY <1>1, <2>1, HitTouchesLast
  <2>4. entries' \in [Experts -> EntriesType]
    BY <1>6 DEF Refreshed
  <2>5. /\ entries'[e].lastAccess = step /\ entries'[e].inserted = entries[e].inserted
        /\ \A x \in Experts \ {e} : entries'[x] = entries[x]
    BY <1>6 DEF Refreshed
  <2>6. 0 <= entries[e].inserted /\ entries[e].inserted <= step
    <3>1. /\ 0 <= entries[e].inserted /\ entries[e].inserted <= entries[e].lastAccess
          /\ entries[e].lastAccess <= step
      BY <1>2, <2>1 DEF Fits
    <3>2. entries[e].inserted \in Int /\ entries[e].lastAccess \in Int
      BY <1>5 DEF EntriesType
    <3> QED
      BY <1>2, <3>1, <3>2
  <2>7. \A x \in Experts \ {e} : entries'[x] = IF x \in ToSet(order') THEN entries[x] ELSE NoEntry
    BY <1>5, <2>3, <2>5
  <2>8. Fits(order', entries', step)
    BY <1>1, <1>2, <2>3, <2>4, <2>5, <2>6, <2>7, TouchedFits
  <2>9. order' = LastOf(Capacity, MoveToEnd(e, touched))
    BY <1>2, <2>1, TopAfterHit
  <2> QED
    BY <1>2, <1>3, <1>4, <2>8, <2>9 DEF CacheInv
<1>7. ASSUME NewEntry \in EntriesType, NewEntry.lastAccess = step, NewEntry.inserted = step
      PROVE  CacheInv'
  <2>1. CASE /\ e \notin Cached /\ ~IsFull
             /\ order' = Append(order, e) /\ entries' = [entries EXCEPT ![e] = NewEntry]
    <3>1. e \notin ToSet(order) /\ Len(order) < Capacity
      BY <1>1, <1>2, <2>1 DEF IsFull
    <3>2. TouchedLast(order, order', e) /\ ToSet(order') = ToSet(order) \cup {e}
      BY <1>1, <2>1, <3>1, InsertTouchesLast
    <3>3. entries' \in [Experts -> EntriesType] /\ entries'[e] = NewEntry
      BY <1>5, <1>7, <2>1
    <3>4. \A x \in Experts \ {e} : entries'[x] = IF x \in ToSet(order') THEN entries[x] ELSE NoEntry
      BY <1>5, <2>1, <3>2
    <3>5. entries'[e].lastAccess = step /\ 0 <= entries'[e].inserted /\ entries'[e].inserted <= step
      BY <1>2, <1>7, <3>3
    <3>6. Fits(order', entries', step)
      BY <1>1, <1>2, <3>2, <3>3, <3>4, <3>5, TouchedFits
    <3>7. order' = LastOf(Capacity, MoveToEnd(e, touched))
      BY <1>2, <2>1, <3>1, TopAfterInsert
    <3> QED
      BY <1>2, <1>3, <1>4, <3>6, <3>7 DEF CacheInv
  <2>2. CASE e \notin Cached /\ IsFull /\ EvictOldest(e)
    <3>1. e \notin ToSet(order) /\ Len(order) >= Capacity /\ order # <<>>
      BY <1>1, <1>2, <2>2 DEF IsFull
    <3>2. /\ order' = Append(Tail(order), e)
          /\ entries' = [entries EXCEPT ![e] = NewEntry, ![Head(order)] = NoEntry]
      BY <2>2 DEF EvictOldest
    <3>3. TouchedLast(order, order', e) /\ ToSet(order') = (ToSet(order) \ {Head(order)}) \cup {e}
      BY <1>1, <3>1, <3>2, EvictTouchesLast
    <3>4. Head(order) \in ToSet(order) /\ Head(order) \in Experts /\ Head(order) # e
      <4>1. 1 \in DOMAIN order /\ Head(order) = order[1]
        BY <1>1, <3>1
      <4> QED
        BY <1>1, <3>1, <4>1 DEF ToSet
    <3>5. NoEntry \in EntriesType
      BY DEF NoEntry, EntriesType
    <3>6. /\ entries' \in [Experts -> EntriesType] /\ entries'[e] = NewEntry
          /\ entries'[Head(order)] = NoEntry
          /\ \A x \in Experts : x # e /\ x # Head(order) => entries'[x] = entries[x]
      BY <1>5, <1>7, <3>2, <3>4, <3>5
    <3>7. \A x \in Experts \ {e} : entries'[x] = IF x \in ToSet(order') THEN entries[x] ELSE NoEntry
      BY <1>5, <3>3, <3>4, <3>6
    <3>8. entries'[e].lastAccess = step /\ 0 <= entries'[e].inserted /\ entries'[e].inserted <= step
      BY <1>2, <1>7, <3>6
    <3>9. Fits(order', entries', step)
      BY <1>1, <1>2, <3>3, <3>6, <3>7, <3>8, TouchedFits
    <3>10. order' = LastOf(Capacity, MoveToEnd(e, touched))
      BY <1>2, <3>1, <3>2, TopAfterEviction
    <3> QED
      BY <1>2, <1>3, <1>4, <3>9, <3>10 DEF CacheInv
  <2> QED
    BY <1>6, <2>1, <2>2 DEF Touches
<1>8. NewEntry \in EntriesType /\ NewEntry.lastAccess = step /\ NewEntry.inserted = step
  <2>1. NoEntry \in EntriesType
    BY DEF NoEntry, EntriesType
  <2>2. step \in Int
    BY <1>2
  <2> QED
    BY <2>1, <2>2 DEF NewEntry, EntriesType
<1> QED
  BY <1>7, <1>8

(* Every step touches one key, several one after the other, or none.       *)
LEMMA CacheStep ==
    ASSUME CacheInv, [CaptureNext]_allVars
    PROVE  CacheInv'
<1>1. CASE UNCHANGED cacheVars /\ (step' = step \/ step' = step + 1)
  <2>1. step' \in Nat
    BY <1>1 DEF CacheInv
  <2>2. \A e \in Experts : entries[e].lastAccess \in Int
    BY DEF CacheInv, Fits, EntriesType
  <2>3. \A e \in ToSet(order) : e \in Experts
    BY CacheKeys DEF ToSet
  <2>4. \A e \in ToSet(order) : entries[e].lastAccess <= step'
    BY <1>1, <2>1, <2>2, <2>3 DEF CacheInv, Fits
  <2> QED
    BY <1>1, <2>1, <2>4 DEF CacheInv, Fits, cacheVars
<1>2. ASSUME NEW s, Observe(s)
      PROVE  step' = step + 1
  BY <1>2 DEF Observe
<1>3. \A e \in Experts : RecordHit(e) \/ RecordMiss(e) => step' = step
  BY DEF RecordHit, RecordMiss, routingVars
<1>4. entries \in [Experts -> EntriesType]
  BY DEF CacheInv, Fits
<1>11. step \in Int
  BY DEF CacheInv
<1>5. ASSUME NEW e \in Experts, Insert(e)
      PROVE  CacheInv'
  <2>1. Touch(e) /\ step' = step
    BY <1>5 DEF Insert, predictorVars
  <2>2. CASE e \in Cached /\ HitMoves(e) /\ entries' = [entries EXCEPT ![e].lastAccess = step]
    <3>1. Refreshed(e)
      BY <1>4, <1>11, <2>2 DEF Refreshed, EntriesType
    <3> QED
      BY <2>1, <2>2, <3>1, TouchStep DEF Touches
  <2>3. CASE \/ /\ e \notin Cached /\ ~IsFull
                /\ order' = Append(order, e) /\ entries' = [entries EXCEPT ![e] = NewEntry]
             \/ e \notin Cached /\ IsFull /\ EvictOldest(e)
    BY <2>1, <2>3, TouchStep DEF Touches
  <2> QED
    BY <1>5, <2>2, <2>3 DEF Insert
<1>6. ASSUME NEW e \in Experts, GetHit(e)
      PROVE  CacheInv'
  <2>1. Touch(e) /\ step' = step
    BY <1>3, <1>6 DEF GetHit
  <2>2. e \in Cached /\ HitMoves(e)
    BY <1>6 DEF GetHit
  <2>3. entries' = [entries EXCEPT ![e].lastAccess = step, ![e].accesses = @ + 1, ![e].hits = @ + 1]
    BY <1>6 DEF GetHit
  <2>4. entries' = [entries EXCEPT ![e] = [inserted |-> entries[e].inserted, lastAccess |-> step,
                                           accesses |-> entries[e].accesses + 1,
                                           hits |-> entries[e].hits + 1]]
    BY <1>4, <2>3 DEF EntriesType
  <2>5. Refreshed(e)
    <3>1. entries[e] \in EntriesType
      BY <1>4
    <3>2. entries[e].inserted \in Int /\ entries[e].accesses + 1 \in Nat /\ entries[e].hits + 1 \in Nat
      BY <3>1 DEF EntriesType
    <3> QED
      BY <1>4, <1>11, <2>4, <3>2 DEF Refreshed, EntriesType
  <2> QED
    BY <2>1, <2>2, <2>5, TouchStep DEF Touches
<1>7. ASSUME NEW e \in Experts, GetMiss(e)
      PROVE  CacheInv'
  BY <1>1, <1>3, <1>7 DEF GetMiss
<1>8. CASE Clear
  <2>1. /\ order' = <<>> /\ touched' = <<>> /\ step' = step
        /\ entries' = [e \in Experts |-> NoEntry]
    BY <1>8 DEF Clear, predictorVars
  <2>2. LastOf(Capacity, <<>>) = <<>>
    BY EmptyTop
  <2>3. Fits(<<>>, [e \in Experts |-> NoEntry], step)
    BY DEF Fits, EntriesType, NoEntry, ToSet
  <2> QED
    BY <2>1, <2>2, <2>3 DEF CacheInv, IsInjective
<1>9. CASE driver = "caller" /\ Next
  BY <1>1, <1>2, <1>5, <1>6, <1>7, <1>8, <1>9 DEF Next, ObserveEvent
<1>10. CASE CaptureStep
  BY <1>1, <1>2, <1>10 DEF CaptureStep, BridgeObserves, ObserveToken, RemoveHooks, ClearCaptured,
     PlainForward, Install, Begin, GateRuns, ForwardRaises, ForwardReturns, TokenObserved, vars,
     predictorVars
<1> QED
  BY <1>1, <1>9, <1>10 DEF CaptureNext, allVars, vars, predictorVars

(* The cache is the end of the list of all keys in the order of their last *)
(* touches (lru.py:35-58, cache.py:96-172).                                *)
THEOREM CacheInvariance == CaptureSpec => []CacheInv
<1>1. CaptureInit => CacheInv
  <2> SUFFICES ASSUME CaptureInit
               PROVE  CacheInv
    OBVIOUS
  <2>1. step = 0 /\ order = <<>> /\ touched = <<>> /\ entries = [e \in Experts |-> NoEntry]
    BY DEF CaptureInit, Init, PredictorInit
  <2>2. LastOf(Capacity, <<>>) = <<>>
    BY EmptyTop
  <2>3. Fits(<<>>, [e \in Experts |-> NoEntry], 0)
    BY DEF Fits, EntriesType, NoEntry, ToSet
  <2> QED
    BY <2>1, <2>2, <2>3 DEF CacheInv, IsInjective
<1>2. CacheInv /\ [CaptureNext]_allVars => CacheInv'
  BY CacheStep
<1> QED
  BY <1>1, <1>2, PTL DEF CaptureSpec

(* The cache holds the Capacity experts touched last, in the order of the  *)
(* touches (lru.py:35-58, cache.py:96-172).                                *)
THEOREM LastTouchedAreHeld == CaptureSpec => []HoldsTheLastTouched
<1>1. CacheInv => HoldsTheLastTouched
  BY DEF CacheInv, HoldsTheLastTouched
<1> QED
  BY <1>1, CacheInvariance, PTL

(* The order of the keys and the steps of the entries tell the same story, *)
(* and no entry outlives its key.                                          *)
THEOREM AccessOrder == CaptureSpec => []OrderedByAccess
<1>1. CacheInv => OrderedByAccess
  <2> SUFFICES ASSUME CacheInv
               PROVE  OrderedByAccess
    OBVIOUS
  <2>1. \A i, j \in DOMAIN order : i < j => order[i] # order[j]
    <3>1. DOMAIN order \subseteq Int /\ IsInjective(order)
      BY CacheKeys
    <3> QED
      BY <3>1 DEF IsInjective
  <2> QED
    BY <2>1, CacheKeys DEF CacheInv, Fits, OrderedByAccess
<1> QED
  BY <1>1, CacheInvariance, PTL
-----------------------------------------------------------------------------
(* The events that a token leaves in the collector.                        *)
ObservedEvents ==
    {event \in [step : Nat, layer : Layers, experts : Rows, of : Nat, call : Nat, position : Nat] :
        ValidRow(event.experts) /\ event.of = event.call}

(* One event for each layer that has a row.                                *)
OneForEach(events, rows) ==
    /\ \A i \in DOMAIN events : events[i].layer \in DOMAIN rows /\ events[i].experts = rows[events[i].layer]
    /\ \A l \in DOMAIN rows : \E i \in DOMAIN events : events[i].layer = l

(* The events of a token are one for each of its layers, in their order    *)
(* (qwen.py:10-64).                                                        *)
LEMMA EventsExact ==
    ASSUME NEW id \in Nat, NEW base \in Int, NEW position \in Nat,
           NEW layers \in SUBSET Layers, NEW rows \in [layers -> Rows],
           NEW of, \A l \in layers : of[l] = id, Accepted(base, position, rows)
    PROVE  /\ EventsOf(id, base, position, rows, of) \in Seq(ObservedEvents)
           /\ OneForEach(EventsOf(id, base, position, rows, of), rows)
<1> DEFINE place == Ascending(layers)
           n == Cardinality(layers)
           events == EventsOf(id, base, position, rows, of)
<1>1. layers \in SUBSET Int /\ IsFiniteSet(layers) /\ DOMAIN rows = layers
  <2>1. Layers \subseteq Nat /\ IsFiniteSet(Layers)
    BY CaptureAssumption
  <2>2. IsFiniteSet(layers)
    BY <2>1, FS_Subset
  <2> QED
    BY <2>1, <2>2
<1>2. n \in Nat /\ place \in [1 .. n -> layers] /\ \A l \in layers : \E i \in 1 .. n : place[i] = l
  BY <1>1, AscendingExact
<1>3. events = [i \in 1 .. n |->
           [step |-> base + position, layer |-> place[i], experts |-> rows[place[i]],
            of |-> of[place[i]], call |-> id, position |-> position]]
  <2>1. DOMAIN place = 1 .. n
    BY <1>2
  <2> QED
    BY <1>1, <2>1 DEF EventsOf
<1> HIDE DEF place, n, events
<1>4. base + position \in Nat /\ \A l \in layers : ValidRow(rows[l]) /\ rows[l] \in Rows /\ l \in Layers
  BY <1>1 DEF Accepted
<1>5. ASSUME NEW i \in 1 .. n
      PROVE  /\ events[i] \in ObservedEvents
             /\ events[i].layer = place[i] /\ place[i] \in layers
             /\ events[i].experts = rows[place[i]]
  <2>1. place[i] \in layers
    BY <1>2
  <2>2. events[i] = [step |-> base + position, layer |-> place[i], experts |-> rows[place[i]],
                     of |-> id, call |-> id, position |-> position]
    BY <1>3, <2>1
  <2> QED
    BY <1>4, <2>1, <2>2 DEF ObservedEvents
<1>6. events \in Seq(ObservedEvents) /\ DOMAIN events = 1 .. n
  BY <1>2, <1>3, <1>5
<1>7. \A i \in DOMAIN events : events[i].layer \in DOMAIN rows /\ events[i].experts = rows[events[i].layer]
  BY <1>1, <1>5, <1>6
<1>8. \A l \in DOMAIN rows : \E i \in DOMAIN events : events[i].layer = l
  <2> TAKE l \in DOMAIN rows
  <2>1. l \in layers
    BY <1>1
  <2>2. PICK i \in 1 .. n : place[i] = l
    BY <1>2, <2>1
  <2>3. events[i].layer = l /\ i \in DOMAIN events
    BY <1>5, <1>6, <2>2
  <2> QED
    BY <2>3
<1> QED
  BY <1>6, <1>7, <1>8 DEF events, OneForEach

(* The collector has nothing but whole events of the forward they say.     *)
CollectorInv ==
    /\ calls \in 0 .. MaxCalls
    /\ DOMAIN captured \subseteq Layers
    /\ collector \in Seq(ObservedEvents)

(* The gate that runs next exists.                                         *)
LEMMA FirstGate ==
    ASSUME HooksInv, call.left # {}
    PROVE  Min(call.left) \in Layers
<1>1. call.left \in SUBSET Nat /\ call.left \subseteq Layers
  BY CaptureAssumption DEF HooksInv
<1>2. \E n \in call.left : \A m \in call.left : n <= m
  BY <1>1, NatMinimum
<1> QED
  BY <1>1, <1>2 DEF Min

(* The bridge observes one token, of the rows of these layers.             *)
LEMMA TokenKept ==
    ASSUME CollectorInv, NEW id \in Nat, NEW base \in Int, NEW position \in Nat,
           NEW layers \in SUBSET Layers, NEW rows \in [layers -> Rows],
           NEW of, \A l \in layers : of[l] = id, Accepted(base, position, rows),
           ObserveToken(id, base, position, rows, of)
    PROVE  collector' \in Seq(ObservedEvents)
<1> DEFINE events == EventsOf(id, base, position, rows, of)
<1>1. events \in Seq(ObservedEvents)
  BY EventsExact
<1>2. collector' = collector \o events
  BY DEF ObserveToken
<1> HIDE DEF events
<1> QED
  BY <1>1, <1>2 DEF CollectorInv

(* Every step adds to the collector what is of the forward in progress.    *)
LEMMA CollectorStep ==
    ASSUME CollectorInv, HooksInv, RowsInv, [CaptureNext]_allVars
    PROVE  CollectorInv'
<1>1. CASE UNCHANGED <<captured, collector, calls>>
  BY <1>1 DEF CollectorInv
<1>2. CASE UNCHANGED collector /\ calls' \in 0 .. MaxCalls /\ (captured' = <<>> \/ UNCHANGED captured)
  BY <1>2 DEF CollectorInv
<1>3. ASSUME NEW id, NEW layers \in SUBSET Layers, NEW rows,
             Capture(id, layers, rows), UNCHANGED collector, calls' \in 0 .. MaxCalls
      PROVE  CollectorInv'
  BY <1>3 DEF CollectorInv, Capture
<1>4. /\ calls \in 0 .. MaxCalls /\ calls \in Nat /\ calls + 1 \in Nat
      /\ calls < MaxCalls => calls + 1 \in 0 .. MaxCalls
  BY CaptureAssumption DEF CollectorInv
<1>5. CASE BridgeObserves
  <2>1. calls' = calls + 1 /\ calls < MaxCalls /\ UNCHANGED captured
    BY <1>5 DEF BridgeObserves
  <2>7. PICK base \in CallerSteps, layers \in SUBSET Layers : \E rows \in [layers -> Rows] :
           /\ Accepted(base, 0, rows)
           /\ ObserveToken(calls + 1, base, 0, rows, [l \in layers |-> calls + 1])
    BY <1>5 DEF BridgeObserves
  <2>2. PICK rows \in [layers -> Rows] :
           /\ Accepted(base, 0, rows)
           /\ ObserveToken(calls + 1, base, 0, rows, [l \in layers |-> calls + 1])
    BY <2>7
  <2>3. base \in Int
    BY CaptureAssumption
  <2>4. PICK of : of = [l \in layers |-> calls + 1]
    OBVIOUS
  <2>5. \A l \in layers : of[l] = calls + 1
    BY <2>4
  <2>6. collector' \in Seq(ObservedEvents)
    BY <1>4, <2>2, <2>3, <2>4, <2>5, TokenKept
  <2> QED
    BY <1>4, <2>1, <2>6 DEF CollectorInv
<1>6. CASE PlainForward
  <2>3. PICK m \in Models, rows \in 1 .. MaxTokens : \E ran \in SUBSET Gates[m] :
          Capture(calls + 1, {l \in ran : registered[<<m, l>>] > 0}, rows)
    BY <1>6 DEF PlainForward
  <2>1. PICK ran \in SUBSET Gates[m] :
          Capture(calls + 1, {l \in ran : registered[<<m, l>>] > 0}, rows)
    BY <2>3
  <2>2. {l \in ran : registered[<<m, l>>] > 0} \in SUBSET Layers
    BY GatesTyped
  <2> QED
    BY <1>3, <1>4, <1>6, <2>1, <2>2 DEF PlainForward
<1>7. CASE GateRuns
  <2>1. UNCHANGED <<collector, calls>> /\ call.left # {}
    BY <1>7 DEF GateRuns
  <2>2. CASE UNCHANGED captured
    BY <1>1, <2>1, <2>2
  <2>3. ASSUME NEW rows \in 1 .. MaxTokens,
               Capture(calls, {l \in {Min(call.left)} : registered[<<call.model, l>>] > 0}, rows)
        PROVE  CollectorInv'
    <3>1. {l \in {Min(call.left)} : registered[<<call.model, l>>] > 0} \in SUBSET Layers
      BY <2>1, FirstGate
    <3> QED
      BY <1>3, <1>4, <2>1, <2>3, <3>1
  <2> QED
    BY <1>7, <2>2, <2>3 DEF GateRuns
<1>8. CASE TokenObserved
  <2>1. UNCHANGED calls /\ (captured' = <<>> \/ UNCHANGED captured) /\ call # Idle
    BY <1>8 DEF TokenObserved, Finish, HooksInv
  <2>2. CASE UNCHANGED collector
    BY <1>2, <1>4, <2>1, <2>2
  <2>3. ASSUME NEW rows \in [DOMAIN captured -> Rows], Accepted(call.base, call.position, rows),
               ObserveToken(calls, call.base, call.position, rows, [l \in DOMAIN captured |-> captured[l].of])
        PROVE  CollectorInv'
    <3>1. PICK of, layers : of = [l \in DOMAIN captured |-> captured[l].of] /\ layers = DOMAIN captured
      OBVIOUS
    <3>2. layers \in SUBSET Layers /\ \A l \in layers : of[l] = calls
      BY <2>1, <3>1 DEF RowsInv, CollectorInv
    <3>3. call.base \in Int /\ call.position \in Nat /\ rows \in [layers -> Rows]
      BY <2>3, <3>1 DEF HooksInv
    <3>5. ObserveToken(calls, call.base, call.position, rows, of)
      BY <2>3, <3>1
    <3>4. collector' \in Seq(ObservedEvents)
      BY <1>4, <2>3, <3>2, <3>3, <3>5, TokenKept
    <3> QED
      BY <1>4, <2>1, <3>4 DEF CollectorInv
  <2> QED
    BY <1>8, <2>2, <2>3 DEF TokenObserved
<1>9. CASE CaptureStep
  BY <1>1, <1>2, <1>4, <1>5, <1>6, <1>7, <1>8, <1>9 DEF CaptureStep, RemoveHooks, ClearCaptured,
     Install, Begin, ForwardRaises, ForwardReturns, Finish
<1> QED
  BY <1>1, <1>9 DEF CaptureNext, allVars, captureVars

(* Every event of the collector has a valid row, captured in its own       *)
(* forward (qwen.py:10-64, integration.py:202-306).                        *)
THEOREM CollectorInvariance == CaptureSpec => []CollectorInv
<1>1. CaptureInit => CollectorInv
  BY CaptureAssumption DEF CaptureInit, CollectorInv
<1>2. CollectorInv /\ HooksInv /\ RowsInv /\ [CaptureNext]_allVars => CollectorInv'
  BY CollectorStep
<1> QED
  BY <1>1, <1>2, CaptureInvariance, PTL DEF CaptureSpec

(* What is observed for a forward was captured during that forward         *)
(* (integration.py:225, 262, 271, 304-306).                                *)
THEOREM OnlyTheOwnForward == CaptureSpec => []OwnForwardOnly
<1>1. CollectorInv => OwnForwardOnly
  BY DEF CollectorInv, ObservedEvents, OwnForwardOnly
<1> QED
  BY <1>1, CollectorInvariance, PTL
-----------------------------------------------------------------------------
(* The counters of the predictor, and that they agree.                     *)
StatsAt(now) ==
    {s \in [frequency : 0 .. now, first : -1 .. now, last : -1 .. now, hits : Nat, misses : Nat,
            distanceSum : 0 .. now, distanceCount : Nat] :
        s.distanceSum <= IF s.last >= 0 THEN s.last ELSE 0}

(* The counters are within the step, and what is kept on the side agrees   *)
(* with what it sums up.                                                   *)
CountersInv ==
    /\ step \in 0 .. MaxStep
    /\ known \subseteq Experts
    /\ stats \in [Experts -> StatsAt(step)]
    /\ transitions \in [Experts -> [Experts -> 0 .. step]]
    /\ totals \in [Experts -> Nat]
    /\ recent \in Seq(Experts) /\ Len(recent) <= RecentWindow
    /\ previous \in Seq(Experts)
    /\ CountersAgree

(* Leaving out repetitions leaves every element.                           *)
LEMMA DistinctExact ==
    ASSUME NEW T, NEW s \in Seq(T)
    PROVE  Distinct(s) \in Seq(T) /\ ToSet(Distinct(s)) = ToSet(s)
<1> DEFINE places == {i \in DOMAIN s : \A j \in 1 .. i - 1 : s[j] # s[i]}
           r == SubSequence(s, places)
<1>1. places \in SUBSET DOMAIN s /\ DOMAIN s \subseteq Nat /\ DOMAIN s = 1 .. Len(s) /\ Len(s) \in Nat
  OBVIOUS
<1>2. r \in Seq(T) /\ ToSet(r) = {s[i] : i \in places}
  <2> HIDE DEF places
  <2> QED
    BY <1>1, SubSequenceExact
<1>3. ASSUME NEW k \in DOMAIN s
      PROVE  \E i \in places : s[i] = s[k]
  <2> DEFINE I == {i \in DOMAIN s : s[i] = s[k]}
  <2>1. I \in SUBSET Nat /\ I # {}
    BY <1>1
  <2> HIDE DEF I
  <2>2. PICK i \in I : \A j \in I : i <= j
    BY <2>1, NatMinimum
  <2>3. i \in DOMAIN s /\ s[i] = s[k] /\ i \in 1 .. Len(s)
    BY <1>1, <2>2 DEF I
  <2>4. \A j \in 1 .. i - 1 : s[j] # s[i]
    <3> TAKE j \in 1 .. i - 1
    <3>1. j \in DOMAIN s /\ ~(i <= j)
      BY <1>1, <2>3
    <3> QED
      BY <2>2, <2>3, <3>1 DEF I
  <2> QED
    BY <2>3, <2>4
<1>4. {s[i] : i \in places} = ToSet(s)
  <2>1. \A x \in ToSet(s) : \E k \in DOMAIN s : x = s[k]
    BY DEF ToSet
  <2>2. \A i \in places : s[i] \in ToSet(s)
    BY <1>1 DEF ToSet
  <2> HIDE DEF places
  <2> QED
    BY <1>3, <2>1, <2>2
<1>5. Distinct(s) = r
  BY DEF Distinct
<1> QED
  BY <1>2, <1>4, <1>5

(* observe() of an expert, as far as the bounds go.                        *)
LEMMA SeenNowBounds ==
    ASSUME CountersInv, DistanceInv, NEW e \in Experts
    PROVE  SeenNow(e) \in StatsAt(step + 1) /\ SeenNow(e).frequency = stats[e].frequency + 1
<1> DEFINE s == IF e \in known THEN stats[e] ELSE [NewStats EXCEPT !.first = step]
           r == Seen(s)
<1>1. step \in Nat
  BY DEF CountersInv
<1>2. s \in StatsAt(step) /\ s.frequency = stats[e].frequency
  <2>1. CASE e \in known
    BY <2>1 DEF CountersInv
  <2>2. CASE e \notin known
    <3>1. s = [NewStats EXCEPT !.first = step] /\ stats[e] = NewStats
      BY <2>2 DEF DistanceInv
    <3> QED
      BY <1>1, <3>1 DEF NewStats, StatsAt
  <2> QED
    BY <2>1, <2>2
<1>3. SeenNow(e) = r
  BY DEF SeenNow
<1> HIDE DEF s
<1>4. /\ s.frequency \in 0 .. step /\ s.first \in -1 .. step /\ s.last \in -1 .. step
      /\ s.hits \in Nat /\ s.misses \in Nat /\ s.distanceSum \in 0 .. step
      /\ s.distanceCount \in Nat /\ s.distanceSum <= IF s.last >= 0 THEN s.last ELSE 0
  BY <1>2 DEF StatsAt
<1> DEFINE sum == IF s.last >= 0 THEN (s.distanceSum + step) - s.last ELSE s.distanceSum
           count == IF s.last >= 0 THEN s.distanceCount + 1 ELSE s.distanceCount
<1>5. r = [frequency |-> s.frequency + 1, first |-> s.first, last |-> step, hits |-> s.hits,
           misses |-> s.misses, distanceSum |-> sum, distanceCount |-> count]
  <2>1. s.last >= 0 => s.distanceSum + step - s.last = (s.distanceSum + step) - s.last
    BY <1>1, <1>4
  <2>2. r = [s EXCEPT !.frequency = s.frequency + 1, !.last = step,
                      !.distanceSum = sum, !.distanceCount = count]
    <3>1. sum = IF s.last >= 0 THEN s.distanceSum + step - s.last ELSE s.distanceSum
      BY <2>1
    <3> HIDE DEF sum
    <3> QED
      BY <3>1, Zenon DEF Seen
  <2> HIDE DEF sum, count
  <2> QED
    BY <1>2, <2>2 DEF StatsAt
<1>6. sum \in 0 .. step /\ count \in Nat /\ s.frequency + 1 \in 0 .. step + 1
      /\ step \in 0 .. step + 1 /\ s.first \in -1 .. step + 1 /\ step \in -1 .. step + 1 /\ step >= 0
  BY <1>1, <1>4
<1> HIDE DEF sum, count, r
<1>7. sum \in 0 .. step + 1 /\ sum <= step
  BY <1>1, <1>6
<1> QED
  BY <1>2, <1>3, <1>4, <1>5, <1>6, <1>7 DEF StatsAt

(* The maximum that is kept is the maximum.                                *)
LEMMA MaximumKept ==
    ASSUME CountersInv, DistanceInv, NEW current \in SUBSET Experts,
           maxFrequency' = NewMaximum(current),
           stats' = [e \in Experts |-> IF e \in current THEN SeenNow(e) ELSE stats[e]]
    PROVE  maxFrequency' = Max({0} \cup {stats'[e].frequency : e \in Experts})
<1> DEFINE old == [e \in Experts |-> stats[e].frequency]
           new == [e \in Experts |-> stats'[e].frequency]
           A == {0} \cup {old[e] : e \in Experts}
           B == {0} \cup {new[e] : e \in Experts}
           C == {maxFrequency} \cup {new[e] : e \in current}
           n == Max(C)
<1>1. IsFiniteSet(Experts)
  BY PredictorAssumption
<1>2. \A e \in Experts : /\ old[e] \in Nat
                         /\ new[e] = IF e \in current THEN old[e] + 1 ELSE old[e]
  <2> TAKE e \in Experts
  <2>1. stats[e].frequency \in Nat
    BY DEF CountersInv, StatsAt
  <2>2. stats'[e] = IF e \in current THEN SeenNow(e) ELSE stats[e]
    OBVIOUS
  <2> QED
    BY <2>1, <2>2, SeenNowBounds
<1>3. maxFrequency = Max(A)
  <2>1. maxFrequency = Max({0} \cup {stats[e].frequency : e \in Experts})
    BY DEF CountersInv, CountersAgree
  <2>2. {stats[e].frequency : e \in Experts} = {old[e] : e \in Experts}
    OBVIOUS
  <2> QED
    BY <2>1, <2>2
<1>4. maxFrequency' = Max(C)
  <2>1. maxFrequency' = Max({maxFrequency} \cup {SeenNow(e).frequency : e \in current})
    BY DEF NewMaximum
  <2>2. \A e \in current : SeenNow(e).frequency = new[e]
    OBVIOUS
  <2>3. {SeenNow(e).frequency : e \in current} = {new[e] : e \in current}
    BY <2>2
  <2> QED
    BY <2>1, <2>3
<1>5. {stats'[e].frequency : e \in Experts} = {new[e] : e \in Experts}
  OBVIOUS
<1> HIDE DEF old, new
<1>6. IsFiniteSet({old[e] : e \in Experts}) /\ IsFiniteSet({new[e] : e \in current})
      /\ IsFiniteSet({0})
  <2>1. IsFiniteSet(current)
    BY <1>1, FS_Subset
  <2>2. IsFiniteSet({old[e] : e \in Experts})
    BY <1>1, ImageFinite, Zenon
  <2>3. IsFiniteSet({new[e] : e \in current})
    BY <2>1, ImageFinite, Zenon
  <2>4. IsFiniteSet({0})
    BY FS_Singleton, Zenon
  <2> QED
    BY <2>2, <2>3, <2>4
<1>7. A \in SUBSET Nat /\ IsFiniteSet(A) /\ A # {}
  <2>1. IsFiniteSet(A)
    BY <1>6, FS_Union, Zenon
  <2>2. A \in SUBSET Nat /\ A # {}
    BY <1>2
  <2> QED
    BY <2>1, <2>2
<1>8. maxFrequency \in A /\ \A y \in A : y <= maxFrequency
  <2> HIDE DEF A
  <2>1. A \in SUBSET Int
    BY <1>7
  <2> QED
    BY <1>3, <1>7, <2>1, MaximumExists
<1>9. maxFrequency \in Nat /\ \A e \in Experts : old[e] <= maxFrequency
  BY <1>7, <1>8
<1>10. C \in SUBSET Int /\ IsFiniteSet(C) /\ C # {}
  <2>1. IsFiniteSet({maxFrequency})
    BY FS_Singleton
  <2>2. \A e \in current : new[e] \in Int
    BY <1>2
  <2> QED
    <3>1. IsFiniteSet(C)
      BY <1>6, <2>1, FS_Union, Zenon
    <3>2. C \in SUBSET Int /\ C # {}
      BY <1>9, <2>2
    <3> QED
      BY <3>1, <3>2
<1>11. n \in C /\ \A y \in C : y <= n
  <2> HIDE DEF C
  <2> QED
    BY <1>10, MaximumExists
<1> HIDE DEF n
<1>12. n \in Nat /\ maxFrequency <= n /\ \A e \in current : new[e] <= n
  <2>1. \A e \in current : new[e] \in Nat
    BY <1>2
  <2> QED
    BY <1>9, <1>11, <2>1
<1>13. \A e \in Experts : new[e] \in Nat /\ new[e] <= n
  BY <1>2, <1>9, <1>12
<1>14. n \in B
  <2>1. CASE n \in {new[e] : e \in current}
    BY <2>1
  <2>2. CASE n = maxFrequency
    <3>1. CASE maxFrequency = 0
      BY <2>2, <3>1
    <3>2. CASE maxFrequency # 0
      <4>1. PICK e \in Experts : maxFrequency = old[e]
        BY <1>8, <3>2
      <4>2. e \notin current
        BY <1>2, <1>12, <2>2, <4>1
      <4>3. n = new[e]
        BY <1>2, <2>2, <4>1, <4>2
      <4> QED
        BY <4>3
    <3> QED
      BY <3>1, <3>2
  <2> QED
    BY <1>11, <2>1, <2>2
<1>15. B \in SUBSET Int /\ \A y \in B : y <= n
  BY <1>12, <1>13
<1>16. Max(B) = n
  <2> HIDE DEF B
  <2> QED
    BY <1>14, <1>15, MaximumIs
<1> QED
  BY <1>4, <1>5, <1>16 DEF n

(* A number of transitions more for every expert of the last event.        *)
LEMMA TotalsKept ==
    ASSUME CountersInv, NEW current \in SUBSET Experts,
           transitions' = [p \in Experts |-> [e \in Experts |->
                              IF p \in ToSet(previous) /\ e \in current
                                 THEN transitions[p][e] + 1 ELSE transitions[p][e]]],
           totals' = CountTransitions(current), step' = step + 1
    PROVE  /\ transitions' \in [Experts -> [Experts -> 0 .. step']]
           /\ totals' \in [Experts -> Nat]
           /\ \A p \in Experts : totals'[p] = SumFunction(transitions'[p])
<1>1. IsFiniteSet(Experts) /\ step \in Nat
  BY PredictorAssumption DEF CountersInv
<1>2. IsFiniteSet(current) /\ Cardinality(current) \in Nat
  BY <1>1, FS_Subset, FS_CardinalityType
<1>3. /\ transitions \in [Experts -> [Experts -> 0 .. step]]
      /\ totals \in [Experts -> Nat] /\ \A p \in Experts : totals[p] = SumFunction(transitions[p])
  BY DEF CountersInv, CountersAgree
<1>4. transitions' \in [Experts -> [Experts -> 0 .. step']]
  <2>1. \A p, e \in Experts : /\ transitions[p][e] \in 0 .. step + 1
                              /\ transitions[p][e] + 1 \in 0 .. step + 1
    BY <1>1, <1>3
  <2> QED
    BY <2>1
<1>5. totals' = [p \in Experts |-> IF p \in ToSet(previous) THEN totals[p] + Cardinality(current) ELSE totals[p]]
  BY DEF CountTransitions
<1>6. totals' \in [Experts -> Nat]
  BY <1>2, <1>3, <1>5
<1>7. ASSUME NEW p \in Experts
      PROVE  totals'[p] = SumFunction(transitions'[p])
  <2> DEFINE f == transitions[p]
             g == transitions'[p]
  <2>1. DOMAIN f = Experts /\ DOMAIN g = Experts /\ \A e \in Experts : f[e] \in Int
    BY <1>3, <1>4
  <2>2. SumFunction(f) = SumFunctionOnSet(f, Experts) /\ SumFunction(g) = SumFunctionOnSet(g, Experts)
    <3> HIDE DEF f, g
    <3> QED
      BY <2>1, SumIsOverDomain
  <2>3. CASE p \in ToSet(previous)
    <3>1. \A e \in Experts : g[e] = IF e \in current THEN f[e] + 1 ELSE f[e]
      BY <2>3
    <3> HIDE DEF f, g
    <3>2. SumFunctionOnSet(g, Experts) = SumFunctionOnSet(f, Experts) + Cardinality(Experts \cap current)
      BY <1>1, <2>1, <3>1, SumIncrement
    <3>3. Experts \cap current = current
      OBVIOUS
    <3>4. totals'[p] = totals[p] + Cardinality(current) /\ totals[p] = SumFunction(f)
      BY <1>3, <1>5, <2>3 DEF f
    <3> QED
      BY <2>2, <3>2, <3>3, <3>4 DEF g
  <2>4. CASE p \notin ToSet(previous)
    <3>1. \A e \in Experts : g[e] = f[e]
      BY <2>4
    <3> HIDE DEF f, g
    <3>2. SumFunctionOnSet(g, Experts) = SumFunctionOnSet(f, Experts)
      BY <1>1, <2>1, <3>1, SumCongruence
    <3>3. totals'[p] = totals[p] /\ totals[p] = SumFunction(f)
      BY <1>3, <1>5, <2>4 DEF f
    <3> QED
      BY <2>2, <3>2, <3>3 DEF g
  <2> QED
    BY <2>3, <2>4
<1> QED
  BY <1>4, <1>6, <1>7

(* observe() keeps all counters in agreement.                              *)
LEMMA ObserveCounts ==
    ASSUME CountersInv, DistanceInv, NEW experts \in Seq(Experts), Observe(experts)
    PROVE  CountersInv'
<1> DEFINE event == Distinct(experts)
           current == ToSet(event)
<1>1. event \in Seq(Experts)
  BY DistinctExact
<1>2. /\ step < MaxStep /\ step' = step + 1 /\ previous' = event
      /\ stats' = [e \in Experts |-> IF e \in current THEN SeenNow(e) ELSE stats[e]]
      /\ known' = known \cup current
      /\ maxFrequency' = NewMaximum(current)
      /\ recent' = LastOf(RecentWindow, recent \o event)
      /\ transitions' = [p \in Experts |-> [e \in Experts |->
                          IF p \in ToSet(previous) /\ e \in current
                             THEN transitions[p][e] + 1 ELSE transitions[p][e]]]
      /\ totals' = CountTransitions(current)
  BY DEF Observe
<1> HIDE DEF event
<1>3. current \in SUBSET Experts
  BY <1>1 DEF ToSet
<1> HIDE DEF current
<1>4. step \in Nat /\ step' \in 0 .. MaxStep /\ MaxStep \in Nat
  BY <1>2, PredictorAssumption DEF CountersInv
<1>5. known' \subseteq Experts
  BY <1>2, <1>3 DEF CountersInv
<1>6. stats' \in [Experts -> StatsAt(step')]
  <2>1. \A e \in Experts : SeenNow(e) \in StatsAt(step + 1)
    BY SeenNowBounds
  <2>2. StatsAt(step) \subseteq StatsAt(step + 1)
    BY <1>4 DEF StatsAt
  <2>3. \A e \in Experts : stats[e] \in StatsAt(step + 1)
    BY <2>2 DEF CountersInv
  <2> QED
    BY <1>2, <2>1, <2>3
<1>7. recent' \in Seq(Experts) /\ Len(recent') <= RecentWindow
  <2> DEFINE all == recent \o event
             last == LastOf(RecentWindow, all)
  <2>1. all \in Seq(Experts)
    BY <1>1 DEF CountersInv
  <2>2. RecentWindow \in Nat \ {0}
    BY PredictorAssumption
  <2> HIDE DEF all
  <2>3. last \in Seq(Experts) /\ TopOf(RecentWindow, all, last)
    BY <2>1, <2>2, LastOfExact
  <2> HIDE DEF last
  <2>4. Len(last) = IF Len(all) > RecentWindow THEN RecentWindow ELSE Len(all)
    BY <2>3 DEF TopOf
  <2>5. Len(all) \in Nat
    BY <2>1
  <2>6. Len(last) <= RecentWindow
    BY <2>2, <2>4, <2>5
  <2> QED
    BY <1>2, <2>3, <2>6 DEF last, all
<1>8. maxFrequency' = Max({0} \cup {stats'[e].frequency : e \in Experts})
  BY <1>2, <1>3, MaximumKept
<1>9. /\ transitions' \in [Experts -> [Experts -> 0 .. step']]
      /\ totals' \in [Experts -> Nat]
      /\ \A p \in Experts : totals'[p] = SumFunction(transitions'[p])
  BY <1>2, <1>3, TotalsKept
<1> QED
  BY <1>1, <1>2, <1>4, <1>5, <1>6, <1>7, <1>8, <1>9 DEF CountersInv, CountersAgree

(* What the bridge makes of the rows of a token.                           *)
Merged(events) == Distinct(FlattenSeq([i \in DOMAIN events |-> events[i].experts]))

(* A token that the bridge observes.                                       *)
IsToken(id, base, position, layers, rows, of) ==
    /\ id \in Nat /\ base \in Int /\ position \in Nat
    /\ layers \in SUBSET Layers /\ rows \in [layers -> Rows]
    /\ \A l \in layers : of[l] = id
    /\ Accepted(base, position, rows)

(* The experts that observe() is given for a token are those of its        *)
(* events.                                                                 *)
LEMMA TokenExperts ==
    ASSUME NEW id, NEW base, NEW position, NEW layers, NEW rows, NEW of,
           IsToken(id, base, position, layers, rows, of)
    PROVE  /\ Merged(EventsOf(id, base, position, rows, of)) \in Seq(Experts)
           /\ ToSet(Merged(EventsOf(id, base, position, rows, of))) =
                 ExpertsOf(EventsOf(id, base, position, rows, of))
<1> DEFINE events == EventsOf(id, base, position, rows, of)
           lists == [i \in DOMAIN events |-> events[i].experts]
           flat == FlattenSeq(lists)
<1>1. events \in Seq(ObservedEvents)
  BY EventsExact DEF IsToken
<1> HIDE DEF events
<1>2. \A row \in Rows : ValidRow(row) => row \in Seq(Experts)
  <2> SUFFICES ASSUME NEW row \in Rows, ValidRow(row)
               PROVE  row \in Seq(Experts)
    OBVIOUS
  <2>1. row \in Seq(Int) /\ ToSet(row) \subseteq Experts
    BY CaptureAssumption
  <2>2. \A i \in DOMAIN row : row[i] \in Experts
    BY <2>1 DEF ToSet
  <2> QED
    BY <2>1, <2>2
<1>3. lists \in Seq(Seq(Experts)) /\ DOMAIN lists = DOMAIN events
  <2>1. \A i \in DOMAIN events : events[i].experts \in Seq(Experts)
    BY <1>1, <1>2 DEF ObservedEvents
  <2>2. DOMAIN events = 1 .. Len(events) /\ Len(events) \in Nat
    BY <1>1
  <2> QED
    BY <2>1, <2>2
<1>4. UNION {ToSet(lists[i]) : i \in DOMAIN lists} = ExpertsOf(events)
  BY <1>3 DEF ExpertsOf
<1> HIDE DEF lists
<1>5. flat \in Seq(Experts) /\ ToSet(flat) = UNION {ToSet(lists[i]) : i \in DOMAIN lists}
  BY <1>3, FlattenExact
<1> HIDE DEF flat
<1>6. Distinct(flat) \in Seq(Experts) /\ ToSet(Distinct(flat)) = ToSet(flat)
  BY <1>5, DistinctExact
<1> QED
  BY <1>4, <1>5, <1>6 DEF flat, lists, events, Merged

(* Every step keeps the counters in agreement.                             *)
LEMMA CountersStep ==
    ASSUME CountersInv, DistanceInv, HooksInv, RowsInv, CollectorInv, [CaptureNext]_allVars
    PROVE  CountersInv'
<1>1. CASE UNCHANGED predictorVars
  BY <1>1 DEF CountersInv, CountersAgree, predictorVars
<1>2. ASSUME NEW e \in Experts, RecordHit(e) \/ RecordMiss(e)
      PROVE  CountersInv'
  <2>1. /\ step' = step /\ maxFrequency' = maxFrequency /\ transitions' = transitions
        /\ totals' = totals /\ recent' = recent /\ previous' = previous
        /\ known' = known \cup {e}
    BY <1>2 DEF RecordHit, RecordMiss, routingVars
  <2>2. \/ stats' = [stats EXCEPT ![e].hits = @ + 1]
        \/ stats' = [stats EXCEPT ![e].misses = @ + 1]
    BY <1>2 DEF RecordHit, RecordMiss
  <2>3. stats[e] \in StatsAt(step) /\ DOMAIN stats = Experts
    BY DEF CountersInv
  <2>4. /\ [stats[e] EXCEPT !.hits = @ + 1] \in StatsAt(step)
        /\ [stats[e] EXCEPT !.misses = @ + 1] \in StatsAt(step)
    BY <2>3 DEF StatsAt
  <2>5. stats' \in [Experts -> StatsAt(step)]
    BY <2>2, <2>4 DEF CountersInv
  <2>6. \A x \in Experts : stats'[x].frequency = stats[x].frequency
    <3> TAKE x \in Experts
    <3>1. CASE x # e
      BY <2>2, <2>3, <3>1
    <3>2. CASE x = e
      <4>1. \/ stats'[x] = [stats[x] EXCEPT !.hits = stats[x].hits + 1]
            \/ stats'[x] = [stats[x] EXCEPT !.misses = stats[x].misses + 1]
        BY <2>2, <2>3, <3>2
      <4>2. stats[x] \in StatsAt(step)
        BY <2>3, <3>2
      <4> QED
        BY <4>1, <4>2 DEF StatsAt
    <3> QED
      BY <3>1, <3>2
  <2>7. {stats'[x].frequency : x \in Experts} = {stats[x].frequency : x \in Experts}
    BY <2>6
  <2> QED
    BY <2>1, <2>5, <2>7 DEF CountersInv, CountersAgree
<1>3. ASSUME NEW id \in Nat, NEW base \in Int, NEW position \in Nat,
             NEW layers \in SUBSET Layers, NEW rows \in [layers -> Rows],
             NEW of, \A l \in layers : of[l] = id, Accepted(base, position, rows),
             ObserveToken(id, base, position, rows, of)
      PROVE  CountersInv'
  <2> DEFINE events == EventsOf(id, base, position, rows, of)
             all == Merged(events)
  <2>1. IsToken(id, base, position, layers, rows, of)
    BY <1>3 DEF IsToken
  <2>3. all \in Seq(Experts)
    BY <2>1, TokenExperts
  <2>2. Observe(all)
    BY <1>3 DEF ObserveToken, Merged
  <2> HIDE DEF all
  <2> QED
    BY <2>2, <2>3, ObserveCounts
<1>4. ASSUME NEW s \in Events, ObserveEvent(s)
      PROVE  CountersInv'
  <2>1. s \in Seq(Experts) /\ Observe(s)
    BY <1>4, PredictorAssumption DEF ObserveEvent
  <2> QED
    BY <2>1, ObserveCounts
<1>5. CASE driver = "caller" /\ Next
  BY <1>1, <1>2, <1>4, <1>5 DEF Next, Insert, GetHit, GetMiss, Clear
<1>6. calls \in Nat /\ calls + 1 \in Nat
  BY DEF CollectorInv
<1>7. CASE BridgeObserves
  <2>1. PICK base \in CallerSteps, layers \in SUBSET Layers : \E rows \in [layers -> Rows] :
           /\ Accepted(base, 0, rows)
           /\ ObserveToken(calls + 1, base, 0, rows, [l \in layers |-> calls + 1])
    BY <1>7 DEF BridgeObserves
  <2>2. PICK rows \in [layers -> Rows] :
           /\ Accepted(base, 0, rows)
           /\ ObserveToken(calls + 1, base, 0, rows, [l \in layers |-> calls + 1])
    BY <2>1
  <2>3. base \in Int
    BY CaptureAssumption
  <2>4. PICK of : of = [l \in layers |-> calls + 1]
    OBVIOUS
  <2>5. \A l \in layers : of[l] = calls + 1
    BY <2>4
  <2> QED
    BY <1>3, <1>6, <2>2, <2>3, <2>4, <2>5
<1>8. CASE TokenObserved
  <2>1. call # Idle
    BY <1>8 DEF TokenObserved, HooksInv, Idle
  <2>2. ASSUME NEW rows \in [DOMAIN captured -> Rows], Accepted(call.base, call.position, rows),
               ObserveToken(calls, call.base, call.position, rows, [l \in DOMAIN captured |-> captured[l].of])
        PROVE  CountersInv'
    <3>1. PICK of, layers : of = [l \in DOMAIN captured |-> captured[l].of] /\ layers = DOMAIN captured
      OBVIOUS
    <3>2. layers \in SUBSET Layers /\ \A l \in layers : of[l] = calls
      BY <2>1, <3>1 DEF RowsInv, CollectorInv
    <3>3. call.base \in Int /\ call.position \in Nat /\ rows \in [layers -> Rows]
      BY <2>2, <3>1 DEF HooksInv
    <3>4. ObserveToken(calls, call.base, call.position, rows, of)
      BY <2>2, <3>1
    <3> QED
      BY <1>3, <1>6, <2>2, <3>2, <3>3, <3>4
  <2> QED
    BY <1>1, <1>8, <2>2 DEF TokenObserved
<1>9. CASE CaptureStep
  BY <1>1, <1>7, <1>8, <1>9 DEF CaptureStep, RemoveHooks, ClearCaptured, PlainForward, Install,
     Begin, GateRuns, ForwardRaises, ForwardReturns, vars
<1> QED
  BY <1>1, <1>5, <1>9 DEF CaptureNext, allVars, vars

(* The counters of the predictor agree and are bounded by its step,        *)
(* however it is driven (predictor.py:105-224).                            *)
THEOREM CountersInvariance == CaptureSpec => [](CountersInv /\ DistanceInv)
<1>1. CaptureInit => CountersInv /\ DistanceInv
  <2> SUFFICES ASSUME CaptureInit
               PROVE  CountersInv /\ DistanceInv
    OBVIOUS
  <2>1. /\ step = 0 /\ known = {} /\ stats = [e \in Experts |-> NewStats] /\ maxFrequency = 0
        /\ transitions = [p \in Experts |-> [e \in Experts |-> 0]]
        /\ totals = [p \in Experts |-> 0] /\ recent = <<>> /\ previous = <<>>
    BY DEF CaptureInit, Init, PredictorInit
  <2>2. DistanceInv
    BY <2>1 DEF DistanceInv, StatsTyped, DistancesAddUp, NewStats
  <2>3. IsFiniteSet(Experts) /\ MaxStep \in Nat /\ RecentWindow \in Nat
    BY PredictorAssumption
  <2>4. NewStats \in StatsAt(0) /\ NewStats.frequency = 0
    BY DEF NewStats, StatsAt
  <2>5. maxFrequency = Max({0} \cup {stats[e].frequency : e \in Experts})
    <3>1. {0} \cup {stats[e].frequency : e \in Experts} = {0}
      BY <2>1, <2>4
    <3>2. Max({0}) = 0
      <4>1. {0} \in SUBSET Int /\ 0 \in {0} /\ \A y \in {0} : y <= 0
        OBVIOUS
      <4> QED
        BY <4>1, MaximumIs, Zenon
    <3> QED
      BY <2>1, <3>1, <3>2
  <2>6. ASSUME NEW p \in Experts
        PROVE  totals[p] = SumFunction(transitions[p])
    <3> DEFINE f == [e \in Experts |-> 0]
    <3>1. SumFunction(f) = SumFunctionOnSet(f, Experts)
      BY SumIsOverDomain
    <3>2. SumFunctionOnSet(f, Experts) = 0
      <4>1. \A e \in Experts : f[e] = 0
        OBVIOUS
      <4> HIDE DEF f
      <4> QED
        BY <2>3, <4>1, ZeroSum
    <3> QED
      BY <2>1, <3>1, <3>2
  <2>7. totals \in [Experts -> Nat] /\ transitions \in [Experts -> [Experts -> 0 .. 0]]
    BY <2>1
  <2>8. step \in 0 .. MaxStep /\ known \subseteq Experts /\ recent \in Seq(Experts)
        /\ previous \in Seq(Experts) /\ Len(recent) <= RecentWindow
    BY <2>1, <2>3
  <2>9. stats \in [Experts -> StatsAt(step)] /\ transitions \in [Experts -> [Experts -> 0 .. step]]
    BY <2>1, <2>4, <2>7
  <2> QED
    BY <2>2, <2>5, <2>6, <2>7, <2>8, <2>9 DEF CountersInv, CountersAgree
<1>2. /\ CountersInv /\ DistanceInv /\ HooksInv /\ RowsInv /\ CollectorInv /\ [CaptureNext]_allVars
      => (CountersInv /\ DistanceInv)'
  BY CountersStep, DistanceStep
<1> QED
  BY <1>1, <1>2, CaptureInvariance, CollectorInvariance, PTL DEF CaptureSpec

(* The maximum and the totals that are kept on the side are the maximum of *)
(* the frequencies and the sums of the transitions (predictor.py:153-170). *)
THEOREM CountersCorrect == CaptureSpec => []CountersAgree
<1>1. CountersInv => CountersAgree
  BY DEF CountersInv
<1> QED
  BY <1>1, CountersInvariance, PTL

(* All variables of the cache, its predictor and the capture have their    *)
(* types, whoever drives them, and no statistic outgrows the step.         *)
THEOREM CaptureTyping == CaptureSpec => []CaptureTypeOK
<1>1. ASSUME CountersInv, DistanceInv, CacheInv, HooksInv, CollectorInv, driver \in {"caller", "capture"}
      PROVE  CaptureTypeOK
  <2>1. step \in 0 .. MaxStep /\ MaxStep \in Nat
    BY <1>1, PredictorAssumption DEF CountersInv
  <2>2. ASSUME NEW e \in Experts
        PROVE  stats[e] \in Statistics
    <3>1. stats[e] \in StatsAt(step)
      BY <1>1 DEF CountersInv
    <3>2. stats[e].distanceCount = IF stats[e].frequency = 0 THEN 0 ELSE stats[e].frequency - 1
      BY <1>1 DEF DistanceInv, DistancesAddUp
    <3>3. stats[e].frequency \in 0 .. step /\ stats[e].distanceCount \in Nat
      BY <3>1 DEF StatsAt
    <3>4. stats[e].distanceCount \in 0 .. MaxStep
      BY <2>1, <3>2, <3>3
    <3>5. 0 .. step \subseteq 0 .. MaxStep /\ -1 .. step \subseteq -1 .. MaxStep
      BY <2>1
    <3> QED
      BY <3>1, <3>4, <3>5 DEF StatsAt, Statistics
  <2>3. maxFrequency \in 0 .. MaxStep
    <3> DEFINE A == {0} \cup {stats[e].frequency : e \in Experts}
               f == [e \in Experts |-> stats[e].frequency]
    <3>1. A = {0} \cup {f[e] : e \in Experts}
      OBVIOUS
    <3>2. A \subseteq 0 .. MaxStep
      BY <2>1, <2>2 DEF Statistics
    <3>3. IsFiniteSet(A)
      <4>1. IsFiniteSet(Experts)
        BY PredictorAssumption
      <4>2. IsFiniteSet({0})
        BY FS_Singleton, Zenon
      <4> HIDE DEF f, A
      <4>3. IsFiniteSet({f[e] : e \in Experts})
        BY <4>1, ImageFinite, Zenon
      <4> QED
        BY <3>1, <4>2, <4>3, FS_Union, Zenon
    <3>4. maxFrequency = Max(A)
      BY <1>1 DEF CountersInv, CountersAgree
    <3>5. A # {}
      OBVIOUS
    <3> HIDE DEF A
    <3>6. A \in SUBSET Int
      BY <3>2
    <3>7. Max(A) \in A
      BY <3>3, <3>5, <3>6, MaximumExists
    <3> QED
      BY <3>2, <3>4, <3>7
  <2>4. transitions \in [Experts -> [Experts -> 0 .. MaxStep]]
    <3>1. 0 .. step \subseteq 0 .. MaxStep
      BY <2>1
    <3> QED
      BY <1>1, <3>1 DEF CountersInv
  <2>5. PredictorTypeOK
    BY <1>1, <2>1, <2>2, <2>3, <2>4 DEF CountersInv, PredictorTypeOK
  <2>6. order \in Seq(Experts) /\ Len(order) <= Capacity /\ touched \in Seq(Experts)
    BY <1>1, CacheKeys DEF CacheInv
  <2>7. ASSUME NEW e \in Experts
        PROVE  entries[e] \in [inserted : -1 .. MaxStep, lastAccess : -1 .. MaxStep,
                               accesses : Nat, hits : Nat]
    <3>1. entries[e] \in EntriesType
      BY <1>1 DEF CacheInv, Fits
    <3>2. CASE entries[e] = NoEntry
      BY <2>1, <3>2 DEF NoEntry
    <3>3. CASE entries[e] # NoEntry
      <4>1. /\ 0 <= entries[e].inserted /\ entries[e].inserted <= entries[e].lastAccess
            /\ entries[e].lastAccess <= step
        BY <1>1, <3>3 DEF CacheInv, Fits
      <4>2. entries[e].inserted \in Int /\ entries[e].lastAccess \in Int
        BY <3>1 DEF EntriesType
      <4>3. entries[e].inserted \in -1 .. MaxStep /\ entries[e].lastAccess \in -1 .. MaxStep
        BY <2>1, <4>1, <4>2
      <4> QED
        BY <3>1, <4>3 DEF EntriesType
    <3> QED
      BY <3>2, <3>3
  <2>8. TypeOK
    <3>1. entries \in [Experts -> EntriesType]
      BY <1>1 DEF CacheInv, Fits
    <3> QED
      BY <2>5, <2>6, <2>7, <3>1 DEF TypeOK
  <2>9. hooks \subseteq AllGates /\ asked \subseteq AllGates /\ registered \in [AllGates -> 0 .. 1]
    BY <1>1 DEF HooksInv
  <2>10. \A i \in DOMAIN collector : /\ collector[i].step \in Nat /\ collector[i].layer \in Layers
                                     /\ ValidRow(collector[i].experts)
    BY <1>1 DEF CollectorInv, ObservedEvents
  <2> QED
    BY <1>1, <2>8, <2>9, <2>10 DEF CaptureTypeOK, CollectorInv
<1>2. CaptureSpec => [](driver \in {"caller", "capture"})
  <2>1. CaptureInit => driver \in {"caller", "capture"}
    BY DEF CaptureInit
  <2>2. driver \in {"caller", "capture"} /\ [CaptureNext]_allVars => (driver \in {"caller", "capture"})'
    BY DEF CaptureNext, allVars
  <2> QED
    BY <2>1, <2>2, PTL DEF CaptureSpec
<1> QED
  BY <1>1, <1>2, CountersInvariance, CacheInvariance, CaptureInvariance, CollectorInvariance, PTL
-----------------------------------------------------------------------------
(* One token is one step: the collector, as the set H of its events, and   *)
(* the predictor.                                                          *)
TokenOf(event) == <<event.call, event.position>>
TokensIn(H) == {TokenOf(event) : event \in H}
At(H, t) == {event \in H : TokenOf(event) = t}
LayersIn(H) == {event.layer : event \in H}
ExpertsIn(H) == UNION {ToSet(event.experts) : event \in H}
TokensWith(H, e) == {t \in TokensIn(H) : e \in ExpertsIn(At(H, t))}

(* What the tokens, layers and experts of the collector are does not       *)
(* depend on the order of its events.                                      *)
LEMMA EventsAsSets ==
    ASSUME CollectorInv
    PROVE  /\ Tokens = TokensIn(ToSet(collector))
           /\ \A t : /\ LayersOf(EventsOfToken(t)) = LayersIn(At(ToSet(collector), t))
                     /\ ExpertsOf(EventsOfToken(t)) = ExpertsIn(At(ToSet(collector), t))
           /\ ToSet(collector) \subseteq ObservedEvents
           /\ collector # <<>> => Last(collector) \in ToSet(collector)
<1>1. collector \in Seq(ObservedEvents) /\ DOMAIN collector = 1 .. Len(collector) /\ Len(collector) \in Nat
  BY DEF CollectorInv
<1>2. Tokens = TokensIn(ToSet(collector))
  BY DEF Tokens, TokensIn, TokenOf, ToSet
<1>3. ASSUME NEW t
      PROVE  ToSet(EventsOfToken(t)) = At(ToSet(collector), t)
  <2> DEFINE places == {i \in DOMAIN collector : <<collector[i].call, collector[i].position>> = t}
  <2>1. places \in SUBSET DOMAIN collector
    OBVIOUS
  <2>2. At(ToSet(collector), t) = {collector[i] : i \in places}
    BY DEF At, TokenOf, ToSet
  <2>3. EventsOfToken(t) = SubSequence(collector, places)
    BY DEF EventsOfToken
  <2> HIDE DEF places
  <2>4. ToSet(SubSequence(collector, places)) = {collector[i] : i \in places}
    BY <1>1, <2>1, SubSequenceExact
  <2> QED
    BY <2>2, <2>3, <2>4
<1>4. \A s : LayersOf(s) = LayersIn(ToSet(s)) /\ ExpertsOf(s) = ExpertsIn(ToSet(s))
  BY DEF LayersOf, LayersIn, ExpertsOf, ExpertsIn, ToSet
<1>5. ToSet(collector) \subseteq ObservedEvents
  BY <1>1 DEF ToSet
<1>6. collector # <<>> => Last(collector) \in ToSet(collector)
  <2> SUFFICES ASSUME collector # <<>>
               PROVE  Last(collector) \in ToSet(collector)
    OBVIOUS
  <2>1. Len(collector) \in DOMAIN collector
    BY <1>1
  <2> QED
    BY <2>1 DEF Last, ToSet
<1> QED
  BY <1>2, <1>3, <1>4, <1>5, <1>6

(* What holds of the tokens H of a capture that has made n calls.          *)
WholeTokens(H, n) ==
    /\ \A t \in TokensIn(H) : t[1] \in 1 .. n /\ t[2] \in Nat
    /\ \A t \in TokensIn(H) : t[2] > 0 =>
          /\ <<t[1], t[2] - 1>> \in TokensIn(H)
          /\ LayersIn(At(H, t)) = LayersIn(At(H, <<t[1], t[2] - 1>>))

(* As many steps as tokens, and of every expert as many observations as    *)
(* tokens that chose it.                                                   *)
StepPerToken(H) ==
    /\ IsFiniteSet(TokensIn(H))
    /\ step = Cardinality(TokensIn(H))
    /\ \A e \in Experts : stats[e].frequency = Cardinality(TokensWith(H, e))
    /\ collector # <<>> => ToSet(previous) = ExpertsIn(At(H, TokenOf(Last(collector))))

(* The tokens of the forward in progress are those before its position,    *)
(* with the layers that are captured.                                      *)
TokensSoFar(H) ==
    call # Idle =>
        /\ calls > 0
        /\ call.phase \in {"forward", "tokens"}
        /\ call.phase = "forward" => call.position = 0
        /\ call.position > 0 => <<calls, call.position - 1>> \in TokensIn(H)
        /\ \A t \in TokensIn(H) : t[1] = calls =>
              t[2] < call.position /\ LayersIn(At(H, t)) = DOMAIN captured

(* When nobody but the capture observes, one token is one step.            *)
TokenInv ==
    driver = "capture" =>
        /\ WholeTokens(ToSet(collector), calls)
        /\ StepPerToken(ToSet(collector))
        /\ TokensSoFar(ToSet(collector))

(* The events of one token, as a set.                                      *)
LEMMA TokenEvents ==
    ASSUME NEW id, NEW base, NEW position, NEW layers, NEW rows, NEW of,
           IsToken(id, base, position, layers, rows, of),
           NEW events, events = EventsOf(id, base, position, rows, of)
    PROVE  /\ events \in Seq(ObservedEvents)
           /\ \A event \in ToSet(events) : TokenOf(event) = <<id, position>>
           /\ LayersIn(ToSet(events)) = layers
           /\ ExpertsOf(events) = ExpertsIn(ToSet(events))
<1>1. events \in Seq(ObservedEvents) /\ OneForEach(events, rows) /\ DOMAIN rows = layers
  BY EventsExact DEF IsToken
<1>2. \A i \in DOMAIN events : TokenOf(events[i]) = <<id, position>>
  <2>1. events = [i \in DOMAIN Ascending(DOMAIN rows) |->
          [step |-> base + position, layer |-> Ascending(DOMAIN rows)[i],
           experts |-> rows[Ascending(DOMAIN rows)[i]],
           of |-> of[Ascending(DOMAIN rows)[i]], call |-> id, position |-> position]]
    BY DEF EventsOf
  <2> QED
    BY <2>1 DEF TokenOf
<1>3. \A event \in ToSet(events) : TokenOf(event) = <<id, position>>
  BY <1>2 DEF ToSet
<1>4. LayersIn(ToSet(events)) = layers
  <2>1. \A event \in ToSet(events) : event.layer \in layers
    BY <1>1 DEF ToSet, OneForEach
  <2>2. ASSUME NEW l \in layers
        PROVE  l \in LayersIn(ToSet(events))
    <3>1. PICK i \in DOMAIN events : events[i].layer = l
      BY <1>1 DEF OneForEach
    <3>2. events[i] \in ToSet(events)
      BY DEF ToSet
    <3> QED
      BY <3>1, <3>2 DEF LayersIn
  <2> QED
    BY <2>1, <2>2 DEF LayersIn
<1>5. ExpertsOf(events) = ExpertsIn(ToSet(events))
  BY DEF ExpertsOf, ExpertsIn, ToSet
<1> QED
  BY <1>1, <1>3, <1>4, <1>5

(* A new token is one step more, and one observation more of each of its   *)
(* experts.                                                                *)
LEMMA TokenCounted ==
    ASSUME CountersInv, DistanceInv, CollectorInv, StepPerToken(ToSet(collector)),
           NEW id \in Nat, NEW base \in Int, NEW position \in Nat,
           NEW layers \in SUBSET Layers, NEW rows \in [layers -> Rows],
           NEW of, \A l \in layers : of[l] = id, Accepted(base, position, rows),
           ObserveToken(id, base, position, rows, of),
           <<id, position>> \notin TokensIn(ToSet(collector))
    PROVE  /\ StepPerToken(ToSet(collector))'
           /\ \E N : /\ ToSet(collector') = ToSet(collector) \cup N /\ N # {}
                     /\ \A event \in N : TokenOf(event) = <<id, position>>
                     /\ LayersIn(N) = layers
<1>a. PICK H : H = ToSet(collector)
  OBVIOUS
<1>b. PICK t : t = <<id, position>>
  OBVIOUS
<1>t. IsToken(id, base, position, layers, rows, of)
  BY DEF IsToken
<1>1. PICK events : events = EventsOf(id, base, position, rows, of)
  OBVIOUS
<1>2. PICK N : N = ToSet(events)
  OBVIOUS
<1>3. /\ events \in Seq(ObservedEvents) /\ \A event \in N : TokenOf(event) = <<id, position>>
      /\ LayersIn(N) = layers /\ ExpertsOf(events) = ExpertsIn(N)
  <2>1. /\ events \in Seq(ObservedEvents)
        /\ \A event \in ToSet(events) : TokenOf(event) = <<id, position>>
        /\ LayersIn(ToSet(events)) = layers
        /\ ExpertsOf(events) = ExpertsIn(ToSet(events))
    BY <1>1, <1>t, TokenEvents
  <2> QED
    BY <1>2, <2>1
<1>4. Merged(events) \in Seq(Experts) /\ ToSet(Merged(events)) = ExpertsIn(N)
  <2>1. /\ Merged(EventsOf(id, base, position, rows, of)) \in Seq(Experts)
        /\ ToSet(Merged(EventsOf(id, base, position, rows, of)))
              = ExpertsOf(EventsOf(id, base, position, rows, of))
    BY <1>t, TokenExperts
  <2> QED
    BY <1>1, <1>3, <2>1
<1>5. collector' = collector \o events /\ Observe(Merged(events))
  BY <1>1 DEF ObserveToken, Merged
<1>6. PICK event : event = Distinct(Merged(events))
  OBVIOUS
<1>7. event \in Seq(Experts) /\ ToSet(event) = ExpertsIn(N)
  BY <1>4, <1>6, DistinctExact
<1>8. /\ event # <<>> /\ previous' = event /\ step' = step + 1
      /\ stats' = [e \in Experts |-> IF e \in ToSet(event) THEN SeenNow(e) ELSE stats[e]]
  BY <1>5, <1>6 DEF Observe
<1>9. N # {} /\ events # <<>>
  <2>1. 1 \in DOMAIN event
    BY <1>7, <1>8
  <2>2. ToSet(event) # {}
    BY <2>1 DEF ToSet
  <2>3. N # {}
    BY <1>7, <2>2 DEF ExpertsIn
  <2> QED
    BY <1>2, <2>3 DEF ToSet
<1>10. ToSet(collector') = H \cup N
  BY <1>a, <1>2, <1>3, <1>5, ConcatToSet DEF CollectorInv
<1>11. /\ TokensIn(H \cup N) = TokensIn(H) \cup {t}
       /\ At(H \cup N, t) = N
       /\ \A u \in TokensIn(H) : At(H \cup N, u) = At(H, u) /\ u # t
  <2>1. t \notin TokensIn(H) /\ \A x \in N : TokenOf(x) = t
    BY <1>a, <1>b, <1>3
  <2>2. TokensIn(H \cup N) = TokensIn(H) \cup {t}
    BY <1>9, <2>1 DEF TokensIn
  <2>3. \A x \in H : TokenOf(x) # t
    BY <2>1 DEF TokensIn
  <2>4. At(H \cup N, t) = N
    BY <2>1, <2>3 DEF At
  <2>5. \A u \in TokensIn(H) : At(H \cup N, u) = At(H, u) /\ u # t
    BY <2>1 DEF At
  <2> QED
    BY <2>2, <2>4, <2>5
<1>12. IsFiniteSet(TokensIn(H)) /\ step = Cardinality(TokensIn(H)) /\ t \notin TokensIn(H)
  BY <1>a, <1>b DEF StepPerToken
<1>13. IsFiniteSet(TokensIn(H \cup N)) /\ step' = Cardinality(TokensIn(H \cup N))
  <2>1. IsFiniteSet(TokensIn(H) \cup {t})
    BY <1>12, FS_AddElement
  <2>2. Cardinality(TokensIn(H) \cup {t}) = Cardinality(TokensIn(H)) + 1
    BY <1>12, FS_AddElement
  <2> QED
    BY <1>8, <1>11, <1>12, <2>1, <2>2
<1>14. ASSUME NEW e \in Experts
       PROVE  stats'[e].frequency = Cardinality(TokensWith(H \cup N, e))
  <2>1. stats[e].frequency = Cardinality(TokensWith(H, e))
    BY <1>a DEF StepPerToken
  <2>2. IsFiniteSet(TokensWith(H, e)) /\ t \notin TokensWith(H, e)
    BY <1>12, FS_Subset DEF TokensWith
  <2>3. CASE e \in ExpertsIn(N)
    <3>1. TokensWith(H \cup N, e) = TokensWith(H, e) \cup {t}
      BY <1>11, <2>3 DEF TokensWith
    <3>2. Cardinality(TokensWith(H, e) \cup {t}) = Cardinality(TokensWith(H, e)) + 1
      BY <2>2, FS_AddElement
    <3>3. stats'[e].frequency = stats[e].frequency + 1
      BY <1>7, <1>8, <2>3, SeenNowBounds
    <3> QED
      BY <2>1, <3>1, <3>2, <3>3
  <2>4. CASE e \notin ExpertsIn(N)
    <3>1. TokensWith(H \cup N, e) = TokensWith(H, e)
      BY <1>11, <2>4 DEF TokensWith
    <3>2. stats'[e].frequency = stats[e].frequency
      BY <1>7, <1>8, <2>4
    <3> QED
      BY <2>1, <3>1, <3>2
  <2> QED
    BY <2>3, <2>4
<1>15. TokenOf(Last(collector')) = t
  <2>1. Len(events) \in Nat \ {0} /\ Len(collector) \in Nat /\ DOMAIN events = 1 .. Len(events)
    BY <1>3, <1>9 DEF CollectorInv
  <2>2. Len(collector') = Len(collector) + Len(events)
        /\ \A i \in 1 .. Len(collector) + Len(events) :
              collector'[i] = IF i <= Len(collector) THEN collector[i] ELSE events[i - Len(collector)]
    BY <1>3, <1>5, ConcatProperties DEF CollectorInv
  <2>3. Len(collector) + Len(events) \in 1 .. Len(collector) + Len(events)
        /\ ~(Len(collector) + Len(events) <= Len(collector))
        /\ (Len(collector) + Len(events)) - Len(collector) = Len(events)
    BY <2>1
  <2>4. Last(collector') = events[Len(events)]
    BY <2>2, <2>3 DEF Last
  <2>5. events[Len(events)] \in N
    BY <1>2, <2>1 DEF ToSet
  <2> QED
    BY <1>3, <1>b, <2>4, <2>5
<1>16. ToSet(previous') = ExpertsIn(At(H \cup N, TokenOf(Last(collector'))))
  BY <1>7, <1>8, <1>11, <1>15
<1>17. StepPerToken(ToSet(collector))'
  BY <1>10, <1>13, <1>14, <1>16 DEF StepPerToken
<1> QED
  BY <1>a, <1>3, <1>9, <1>10, <1>17

(* Whole tokens stay whole when the next one of its forward is added.      *)
LEMMA WholeGrows ==
    ASSUME NEW H, NEW N, N # {}, NEW m \in Nat, NEW n \in Nat, m <= n, WholeTokens(H, m),
           NEW id \in 1 .. n, NEW position \in Nat,
           \A event \in N : TokenOf(event) = <<id, position>>,
           <<id, position>> \notin TokensIn(H),
           position > 0 => /\ <<id, position - 1>> \in TokensIn(H)
                           /\ LayersIn(At(H, <<id, position - 1>>)) = LayersIn(N)
    PROVE  WholeTokens(H \cup N, n)
<1>1. PICK t : t = <<id, position>>
  OBVIOUS
<1>2. TokensIn(H \cup N) = TokensIn(H) \cup {t}
  BY <1>1 DEF TokensIn
<1>3. At(H \cup N, t) = N
  <2>1. \A event \in H : TokenOf(event) # t
    BY <1>1 DEF TokensIn
  <2> QED
    BY <1>1, <2>1 DEF At
<1>4. \A u \in TokensIn(H) : At(H \cup N, u) = At(H, u) /\ u # t
  BY <1>1 DEF At
<1>5. \A u \in TokensIn(H) : u[1] \in 1 .. n /\ u[2] \in Nat
  BY DEF WholeTokens
<1>6. ASSUME NEW u \in TokensIn(H \cup N), u[2] > 0
      PROVE  /\ <<u[1], u[2] - 1>> \in TokensIn(H \cup N)
             /\ LayersIn(At(H \cup N, u)) = LayersIn(At(H \cup N, <<u[1], u[2] - 1>>))
  <2>1. CASE u = t
    <3>1. u[1] = id /\ u[2] = position
      BY <1>1, <2>1
    <3>2. <<id, position - 1>> \in TokensIn(H) /\ LayersIn(At(H, <<id, position - 1>>)) = LayersIn(N)
      BY <1>6, <3>1
    <3> QED
      BY <1>2, <1>3, <1>4, <2>1, <3>1, <3>2
  <2>2. CASE u \in TokensIn(H)
    <3>1. <<u[1], u[2] - 1>> \in TokensIn(H)
          /\ LayersIn(At(H, u)) = LayersIn(At(H, <<u[1], u[2] - 1>>))
      BY <1>6, <2>2 DEF WholeTokens
    <3> QED
      BY <1>2, <1>4, <2>2, <3>1
  <2> QED
    BY <1>2, <2>1, <2>2
<1>7. WholeTokens(H \cup N, n)
  <2>1. \A u \in TokensIn(H \cup N) : u[1] \in 1 .. n /\ u[2] \in Nat
    BY <1>1, <1>2, <1>5
  <2> QED
    BY <1>6, <2>1 DEF WholeTokens
<1> QED
  BY <1>7

(* Every step of the capture adds a token, which is the next of its        *)
(* forward, or none.                                                       *)
LEMMA TokenStep ==
    ASSUME HooksInv, RowsInv, CollectorInv, CountersInv, DistanceInv, TokenInv, [CaptureNext]_allVars
    PROVE  TokenInv'
<1> DEFINE Whole == WholeTokens(ToSet(collector), calls)
           Steps == StepPerToken(ToSet(collector))
           SoFar == TokensSoFar(ToSet(collector))
<1>1. CASE UNCHANGED allVars
  BY <1>1 DEF TokenInv, StepPerToken, TokensSoFar, allVars, captureVars, vars, predictorVars
<1>2. CASE driver # "capture"
  BY <1>1, <1>2 DEF TokenInv, CaptureNext, allVars
<1> SUFFICES ASSUME driver = "capture", CaptureStep
             PROVE  Whole' /\ Steps' /\ SoFar'
  BY <1>1, <1>2 DEF TokenInv, CaptureNext
<1>3. Whole /\ Steps /\ SoFar /\ calls \in Nat /\ calls + 1 \in Nat
  BY DEF TokenInv, CollectorInv
<1>4. Whole => WholeTokens(ToSet(collector), calls + 1)
  BY <1>3 DEF WholeTokens
<1>5. UNCHANGED <<collector, step, stats, previous>> => Steps'
  BY <1>3 DEF StepPerToken
<1>6. UNCHANGED collector /\ (calls' = calls \/ calls' = calls + 1) => Whole'
  BY <1>3, <1>4
<1>7. call' = Idle => SoFar'
  BY DEF TokensSoFar
<1>8. CASE BridgeObserves
  <2>1. /\ calls' = calls + 1 /\ call' = call /\ call = Idle
        /\ \E base \in CallerSteps, layers \in SUBSET Layers : \E rows \in [layers -> Rows] :
              /\ Accepted(base, 0, rows)
              /\ ObserveToken(calls + 1, base, 0, rows, [l \in layers |-> calls + 1])
    BY <1>8 DEF BridgeObserves
  <2>2. PICK base \in CallerSteps, layers \in SUBSET Layers : \E rows \in [layers -> Rows] :
           /\ Accepted(base, 0, rows)
           /\ ObserveToken(calls + 1, base, 0, rows, [l \in layers |-> calls + 1])
    BY <2>1
  <2>3. PICK rows \in [layers -> Rows] :
           /\ Accepted(base, 0, rows)
           /\ ObserveToken(calls + 1, base, 0, rows, [l \in layers |-> calls + 1])
    BY <2>2
  <2>4. PICK id, of, H, position : /\ id = calls + 1 /\ of = [l \in layers |-> calls + 1]
                                   /\ H = ToSet(collector) /\ position = 0
    OBVIOUS
  <2>5. /\ base \in Int /\ id \in Nat /\ position \in Nat /\ \A l \in layers : of[l] = id
        /\ ObserveToken(id, base, position, rows, of) /\ Accepted(base, position, rows)
    BY <1>3, <2>3, <2>4, CaptureAssumption
  <2>6. <<id, position>> \notin TokensIn(H)
    BY <1>3, <2>4 DEF WholeTokens
  <2>7. StepPerToken(H)
    BY <1>3, <2>4
  <2>8. Steps' /\ \E N : /\ ToSet(collector') = H \cup N /\ N # {}
                         /\ \A event \in N : TokenOf(event) = <<id, position>>
                         /\ LayersIn(N) = layers
    BY <2>4, <2>5, <2>6, <2>7, TokenCounted
  <2>9. PICK N : /\ ToSet(collector') = H \cup N /\ N # {}
                 /\ \A event \in N : TokenOf(event) = <<id, position>>
    BY <2>8
  <2>10. WholeTokens(H, calls) /\ id \in 1 .. calls + 1
    BY <1>3, <2>4
  <2>11. WholeTokens(H \cup N, calls + 1)
    <3>1. PICK m, n : m = calls /\ n = calls + 1
      OBVIOUS
    <3>2. /\ m \in Nat /\ n \in Nat /\ m <= n /\ WholeTokens(H, m) /\ id \in 1 .. n
          /\ ~(position > 0)
      BY <1>3, <2>4, <2>10, <3>1
    <3>3. WholeTokens(H \cup N, n)
      BY <2>5, <2>6, <2>9, <3>2, WholeGrows
    <3> QED
      BY <3>1, <3>3
  <2> QED
    BY <1>7, <2>1, <2>8, <2>9, <2>11
<1>9. CASE TokenObserved
  <2>1. /\ call.phase = "tokens" /\ UNCHANGED calls
        /\ call # Idle /\ call.base \in Int /\ call.position \in Nat
    BY <1>9 DEF TokenObserved, HooksInv
  <2>2. CASE UNCHANGED <<predictorVars, collector>> /\ Finish
    BY <1>3, <1>5, <1>6, <1>7, <2>1, <2>2 DEF Finish, predictorVars
  <2>3. ASSUME NEW rows \in [DOMAIN captured -> Rows], Accepted(call.base, call.position, rows),
               ObserveToken(calls, call.base, call.position, rows, [l \in DOMAIN captured |-> captured[l].of]),
               \/ call' = [call EXCEPT !.position = @ + 1] /\ UNCHANGED captured
               \/ call' = Idle
        PROVE  Whole' /\ Steps' /\ SoFar'
    <3>1. PICK id, of, layers, H, base, position :
               /\ id = calls /\ of = [l \in DOMAIN captured |-> captured[l].of]
               /\ layers = DOMAIN captured /\ H = ToSet(collector)
               /\ base = call.base /\ position = call.position
      OBVIOUS
    <3>2. layers \in SUBSET Layers /\ \A l \in layers : of[l] = id
      BY <2>1, <3>1 DEF RowsInv, CollectorInv
    <3>3. /\ base \in Int /\ id \in Nat /\ position \in Nat /\ rows \in [layers -> Rows]
          /\ ObserveToken(id, base, position, rows, of) /\ Accepted(base, position, rows)
      BY <1>3, <2>1, <2>3, <3>1
    <3>4. /\ position > 0 => <<id, position - 1>> \in TokensIn(H)
          /\ \A t \in TokensIn(H) : t[1] = id => t[2] < position /\ LayersIn(At(H, t)) = layers
      BY <1>3, <2>1, <3>1 DEF TokensSoFar
    <3>5. <<id, position>> \notin TokensIn(H)
      BY <3>3, <3>4
    <3>6. StepPerToken(H) /\ WholeTokens(H, calls)
      BY <1>3, <3>1
    <3>7. Steps' /\ \E N : /\ ToSet(collector') = H \cup N /\ N # {}
                           /\ \A event \in N : TokenOf(event) = <<id, position>>
                           /\ LayersIn(N) = layers
      BY <3>1, <3>2, <3>3, <3>5, <3>6, TokenCounted, SMTT(30)
    <3>8. PICK N : /\ ToSet(collector') = H \cup N /\ N # {}
                   /\ \A event \in N : TokenOf(event) = <<id, position>>
                   /\ LayersIn(N) = layers
      BY <3>7
    <3>9. id \in 1 .. calls
      BY <1>3, <2>1, <3>1 DEF TokensSoFar
    <3>10. position > 0 => /\ <<id, position - 1>> \in TokensIn(H)
                           /\ LayersIn(At(H, <<id, position - 1>>)) = LayersIn(N)
      BY <3>3, <3>4, <3>8
    <3>14. WholeTokens(H \cup N, calls)
      <4>1. PICK n : n = calls
        OBVIOUS
      <4>2. n \in Nat /\ n <= n /\ WholeTokens(H, n) /\ id \in 1 .. n
        BY <1>3, <3>6, <3>9, <4>1
      <4>3. WholeTokens(H \cup N, n)
        BY <3>3, <3>5, <3>8, <3>10, <4>2, WholeGrows
      <4> QED
        BY <4>1, <4>3
    <3>11. /\ TokensIn(H \cup N) = TokensIn(H) \cup {<<id, position>>}
           /\ At(H \cup N, <<id, position>>) = N
           /\ \A u \in TokensIn(H) : At(H \cup N, u) = At(H, u)
      <4>1. TokensIn(H \cup N) = TokensIn(H) \cup {<<id, position>>}
        BY <3>8 DEF TokensIn
      <4>2. \A event \in H : TokenOf(event) # <<id, position>>
        BY <3>5 DEF TokensIn
      <4>3. At(H \cup N, <<id, position>>) = N
        BY <3>8, <4>2 DEF At
      <4>4. \A u \in TokensIn(H) : At(H \cup N, u) = At(H, u)
        BY <3>5, <3>8 DEF At
      <4> QED
        BY <4>1, <4>3, <4>4
    <3>12. CASE call' = [call EXCEPT !.position = @ + 1] /\ UNCHANGED captured
      <4>1. call'.phase = "tokens" /\ call'.position = position + 1 /\ (call'.position - 1) = position
        BY <2>1, <3>1, <3>12 DEF HooksInv
      <4>2. <<id, position>> \in TokensIn(H \cup N)
        BY <3>11
      <4>3. \A t \in TokensIn(H \cup N) : t[1] = id =>
               t[2] < position + 1 /\ LayersIn(At(H \cup N, t)) = layers
        <5>1. \A t \in TokensIn(H) : t[1] = id =>
                 t[2] < position + 1 /\ LayersIn(At(H \cup N, t)) = layers
          <6> SUFFICES ASSUME NEW t \in TokensIn(H), t[1] = id
                       PROVE  t[2] < position + 1 /\ LayersIn(At(H \cup N, t)) = layers
            OBVIOUS
          <6>1. t[2] \in Nat /\ t[2] < position /\ LayersIn(At(H, t)) = layers
            BY <3>4, <3>6 DEF WholeTokens
          <6>2. At(H \cup N, t) = At(H, t)
            BY <3>11
          <6> QED
            BY <3>3, <6>1, <6>2
        <5> SUFFICES ASSUME NEW t \in TokensIn(H \cup N), t[1] = id
                     PROVE  t[2] < position + 1 /\ LayersIn(At(H \cup N, t)) = layers
          OBVIOUS
        <5>2. CASE t \in TokensIn(H)
          BY <5>1, <5>2
        <5>3. CASE t = <<id, position>>
          <6>1. t[2] = position /\ At(H \cup N, t) = N
            BY <3>11, <5>3
          <6> QED
            BY <3>3, <3>8, <6>1
        <5> QED
          BY <3>11, <5>2, <5>3
      <4>4. /\ calls' = id /\ id > 0 /\ DOMAIN captured' = layers
            /\ ToSet(collector') = H \cup N
        BY <1>3, <2>1, <3>1, <3>8, <3>9, <3>12
      <4>5. SoFar'
        BY <3>3, <4>1, <4>2, <4>3, <4>4 DEF TokensSoFar
      <4>6. Whole'
        BY <3>1, <3>14, <4>4
      <4> QED
        BY <3>7, <4>5, <4>6
    <3>13. CASE call' = Idle
      BY <1>7, <2>1, <3>7, <3>8, <3>13, <3>14
    <3> QED
      BY <2>3, <3>12, <3>13
  <2> QED
    BY <1>9, <2>2, <2>3 DEF TokenObserved, Finish
<1>10. CASE RemoveHooks \/ ClearCaptured \/ PlainForward \/ \E m \in Models : Install(m)
  BY <1>3, <1>5, <1>6, <1>7, <1>10 DEF RemoveHooks, ClearCaptured, PlainForward, Install, vars, predictorVars
<1>11. ASSUME NEW m \in Models, NEW base \in CallerSteps, NEW n \in 1 .. MaxTokens, Begin(m, base, n)
       PROVE  Whole' /\ Steps' /\ SoFar'
  <2>1. /\ calls' = calls + 1 /\ UNCHANGED <<collector, step, stats, previous>>
        /\ call' = Idle \/ (call'.phase = "forward" /\ call'.position = 0)
    BY <1>11 DEF Begin, vars, predictorVars
  <2>2. \A t \in TokensIn(ToSet(collector)) : t[1] # calls + 1
    BY <1>3 DEF WholeTokens
  <2> QED
    BY <1>3, <1>5, <1>6, <2>1, <2>2 DEF TokensSoFar
<1>12. CASE GateRuns \/ ForwardReturns
  <2>1. /\ call.phase = "forward" /\ UNCHANGED <<calls, collector, step, stats, previous>>
        /\ call # Idle
    BY <1>12 DEF GateRuns, ForwardReturns, HooksInv, vars, predictorVars
  <2>2. call' = Idle \/ (call'.phase \in {"forward", "tokens"} /\ call'.position = call.position)
    BY <1>12, <2>1 DEF GateRuns, NextGate, ForwardReturns, Finish, HooksInv
  <2>3. call.position = 0
    BY <1>3, <2>1 DEF TokensSoFar
  <2>4. \A t \in TokensIn(ToSet(collector)) : t[1] # calls
    BY <1>3, <2>1, <2>3 DEF TokensSoFar, WholeTokens
  <2> QED
    BY <1>3, <1>5, <1>6, <1>7, <2>1, <2>2, <2>3, <2>4 DEF TokensSoFar
<1>13. CASE ForwardRaises
  BY <1>3, <1>5, <1>6, <1>7, <1>13 DEF ForwardRaises, Finish, vars, predictorVars
<1> QED
  BY <1>8, <1>9, <1>10, <1>11, <1>12, <1>13 DEF CaptureStep

(* Tokens and steps go together through forwards that end, fail or raise   *)
(* (integration.py:245-306).                                               *)
THEOREM TokenInvariance == CaptureSpec => []TokenInv
<1>1. CaptureInit => TokenInv
  <2> SUFFICES ASSUME CaptureInit
               PROVE  TokenInv
    OBVIOUS
  <2>1. collector = <<>> /\ step = 0 /\ stats = [e \in Experts |-> NewStats] /\ call = Idle
    BY DEF CaptureInit, Init, PredictorInit
  <2>2. ToSet(collector) = {} /\ TokensIn(ToSet(collector)) = {}
    BY <2>1 DEF ToSet, TokensIn
  <2>3. \A e : TokensWith(ToSet(collector), e) = {}
    BY <2>2 DEF TokensWith
  <2>4. IsFiniteSet({}) /\ Cardinality({}) = 0
    BY FS_EmptySet
  <2> QED
    BY <2>1, <2>2, <2>3, <2>4 DEF TokenInv, WholeTokens, StepPerToken, TokensSoFar, NewStats
<1>2. /\ TokenInv /\ CountersInv /\ DistanceInv /\ HooksInv /\ RowsInv /\ CollectorInv
      /\ [CaptureNext]_allVars
      => TokenInv'
  BY TokenStep
<1> QED
  BY <1>1, <1>2, CaptureInvariance, CollectorInvariance, CountersInvariance, PTL DEF CaptureSpec

(* A token is one step of the predictor and whole in the collector, and an *)
(* expert that several of its layers choose counts once, also when a later *)
(* token of its forward is invalid (integration.py:51-150, 289-301).       *)
THEOREM TokensAreSteps == CaptureSpec => []OneTokenOneStep
<1>1. ASSUME TokenInv, CollectorInv
      PROVE  OneTokenOneStep
  <2> SUFFICES ASSUME driver = "capture"
               PROVE  OneTokenOneStep
    BY DEF OneTokenOneStep
  <2>1. PICK H : H = ToSet(collector)
    OBVIOUS
  <2>2. /\ Tokens = TokensIn(H)
        /\ \A t : /\ LayersOf(EventsOfToken(t)) = LayersIn(At(H, t))
                  /\ ExpertsOf(EventsOfToken(t)) = ExpertsIn(At(H, t))
    BY <1>1, <2>1, EventsAsSets
  <2>3. WholeTokens(H, calls) /\ StepPerToken(H)
    BY <1>1, <2>1 DEF TokenInv
  <2>4. \A t \in Tokens : t[2] > 0 =>
              /\ <<t[1], t[2] - 1>> \in Tokens
              /\ LayersOf(EventsOfToken(t)) = LayersOf(EventsOfToken(<<t[1], t[2] - 1>>))
    BY <2>2, <2>3 DEF WholeTokens
  <2>5. ASSUME NEW e \in Experts
        PROVE  stats[e].frequency = Cardinality({t \in Tokens : e \in ExpertsOf(EventsOfToken(t))})
    <3>1. {t \in Tokens : e \in ExpertsOf(EventsOfToken(t))} = TokensWith(H, e)
      BY <2>2 DEF TokensWith
    <3> QED
      BY <2>3, <3>1 DEF StepPerToken
  <2>6. collector # <<>> =>
              ToSet(previous) = ExpertsOf(EventsOfToken(<<Last(collector).call, Last(collector).position>>))
    BY <2>2, <2>3 DEF StepPerToken, TokenOf
  <2> QED
    BY <2>2, <2>3, <2>4, <2>5, <2>6 DEF OneTokenOneStep, StepPerToken
<1> QED
  BY <1>1, TokenInvariance, CollectorInvariance, PTL
-----------------------------------------------------------------------------
(* The scores, which rank all experts that a prediction may name.          *)
IsDenominator(g, S) ==
    g = [s \in SUBSET S |->
            IF s = {} THEN 1
            ELSE g[s \ {Pick(s)}] * (IF totals[Pick(s)] = 0 THEN 1 ELSE totals[Pick(s)])]

(* The fold over the current experts is that function.                     *)
LEMMA DenominatorIsRecursive ==
    ASSUME NEW S
    PROVE  Denominator(S) = (CHOOSE g : IsDenominator(g, S))[S]
  BY Zenon DEF Denominator, FoldSet, MapThenFoldSet, IsDenominator, Pick

(* The common denominator is a product of positive factors.                *)
LEMMA DenominatorIsProduct ==
    ASSUME NEW S, IsFiniteSet(S), NEW k,
           \A p \in S : k[p] = IF totals[p] = 0 THEN 1 ELSE totals[p]
    PROVE  \E g : IsProduct(g, k, S) /\ Denominator(S) = g[S]
<1>1. \A s \in SUBSET S : s # {} =>
         k[Pick(s)] = IF totals[Pick(s)] = 0 THEN 1 ELSE totals[Pick(s)]
  BY PickInSet
<1>2. ASSUME NEW g
      PROVE  IsProduct(g, k, S) <=> IsDenominator(g, S)
  <2>1. [s \in SUBSET S |->
            IF s = {} THEN 1
            ELSE g[s \ {Pick(s)}] * (IF totals[Pick(s)] = 0 THEN 1 ELSE totals[Pick(s)])]
          = [s \in SUBSET S |-> IF s = {} THEN 1 ELSE g[s \ {Pick(s)}] * k[Pick(s)]]
    BY <1>1
  <2> QED
    BY <2>1 DEF IsProduct, IsDenominator
<1>3. PICK g : g = CHOOSE h : IsDenominator(h, S)
  OBVIOUS
<1>4. IsDenominator(g, S)
  BY <1>2, <1>3, ProductExists
<1> QED
  BY <1>2, <1>3, <1>4, DenominatorIsRecursive

(* It is positive.                                                         *)
LEMMA DenominatorPositive ==
    ASSUME CountersInv, NEW S \in SUBSET Experts
    PROVE  Denominator(S) \in Nat \ {0}
<1>1. IsFiniteSet(S)
  BY PredictorAssumption, FS_Subset
<1>2. PICK k : k = [p \in S |-> IF totals[p] = 0 THEN 1 ELSE totals[p]]
  OBVIOUS
<1>3. \A p \in S : k[p] = IF totals[p] = 0 THEN 1 ELSE totals[p]
  BY <1>2
<1>4. \A p \in S : k[p] \in Nat \ {0}
  <2>1. totals \in [Experts -> Nat]
    BY Zenon DEF CountersInv
  <2> QED
    BY <1>3, <2>1
<1>5. PICK g : IsProduct(g, k, S) /\ Denominator(S) = g[S]
  BY <1>1, <1>3, DenominatorIsProduct
<1>6. g[S] \in Nat \ {0}
  BY <1>1, <1>4, <1>5, ProductPositive
<1> QED
  BY <1>5, <1>6

(* That of one expert is its total.                                        *)
LEMMA DenominatorOfOne ==
    ASSUME CountersInv, NEW p \in Experts
    PROVE  Denominator({p}) = IF totals[p] = 0 THEN 1 ELSE totals[p]
<1>1. PICK k, n : n = (IF totals[p] = 0 THEN 1 ELSE totals[p]) /\ k = [q \in {p} |-> n]
  OBVIOUS
<1>2. \A q \in {p} : k[q] = IF totals[q] = 0 THEN 1 ELSE totals[q]
  BY <1>1
<1>3. PICK g : IsProduct(g, k, {p}) /\ Denominator({p}) = g[{p}]
  BY <1>2, FS_Singleton, DenominatorIsProduct
<1>4. Pick({p}) = p /\ {p} \ {p} = {} /\ {p} # {}
  BY PickInSet
<1>5. g[{}] = 1 /\ g[{p}] = g[{}] * n
  <2>1. \A s \in SUBSET {p} : g[s] = IF s = {} THEN 1 ELSE g[s \ {Pick(s)}] * k[Pick(s)]
    BY <1>3, Zenon DEF IsProduct
  <2>2. {} \in SUBSET {p} /\ {p} \in SUBSET {p}
    OBVIOUS
  <2>3. g[{}] = 1
    BY <2>1, <2>2
  <2>4. g[{p}] = g[{p} \ {Pick({p})}] * k[Pick({p})]
    BY <1>4, <2>1, <2>2
  <2> QED
    BY <1>1, <1>4, <2>3, <2>4
<1>6. n \in Nat
  BY <1>1 DEF CountersInv
<1> QED
  BY <1>1, <1>3, <1>5, <1>6

(* No frequency is above the maximum that is kept.                         *)
LEMMA FrequenciesBounded ==
    ASSUME CountersInv
    PROVE  maxFrequency \in Nat /\ \A e \in Experts : stats[e].frequency <= maxFrequency
<1> DEFINE f == [e \in Experts |-> stats[e].frequency]
           A == {0} \cup {f[e] : e \in Experts}
<1>1. A = {0} \cup {stats[e].frequency : e \in Experts}
  OBVIOUS
<1>2. \A e \in Experts : f[e] \in Nat /\ f[e] = stats[e].frequency
  BY DEF CountersInv, StatsAt
<1> HIDE DEF f
<1>3. IsFiniteSet({f[e] : e \in Experts})
  BY PredictorAssumption, ImageFinite, Zenon
<1>4. IsFiniteSet(A) /\ A \in SUBSET Int /\ A \subseteq Nat /\ 0 \in A /\ \A e \in Experts : f[e] \in A
  <2>1. A = {f[e] : e \in Experts} \cup {0}
    OBVIOUS
  <2>2. IsFiniteSet({f[e] : e \in Experts} \cup {0})
    BY <1>3, FS_AddElement
  <2> QED
    BY <1>2, <2>1, <2>2
<1>5. maxFrequency = Max(A)
  BY <1>1 DEF CountersInv, CountersAgree
<1> HIDE DEF A
<1>6. Max(A) \in A /\ \A y \in A : y <= Max(A)
  BY <1>4, MaximumExists
<1> QED
  BY <1>2, <1>4, <1>5, <1>6

(* No part of a score is negative.                                         *)
LEMMA TransitionScoreNatural ==
    ASSUME CountersInv, NEW current \in SUBSET Experts, NEW e \in Experts
    PROVE  TransitionScore(current, e) \in Nat
<1> DEFINE U == {d \in current : totals[d] > 0}
           f == [c \in U |-> transitions[c][e] * (Denominator(current) \div totals[c])]
           A == {0} \cup {f[c] : c \in U}
<1>1. IsFiniteSet(U)
  BY PredictorAssumption, FS_Subset
<1>2. \A c \in U : f[c] \in Int
  <2> TAKE c \in U
  <2>1. PICK n, t, k : n = Denominator(current) /\ t = transitions[c][e] /\ k = totals[c]
    OBVIOUS
  <2>2. n \in Nat
    BY <2>1, DenominatorPositive
  <2>3. t \in Int /\ k \in Nat /\ k > 0
    BY <2>1 DEF CountersInv
  <2>4. n \div k \in Int
    BY <2>2, <2>3
  <2>5. t * (n \div k) \in Int
    BY <2>3, <2>4
  <2> QED
    BY <2>1, <2>5
<1>3. TransitionScore(current, e) = Max(A)
  <2>1. {f[c] : c \in U} = {transitions[c][e] * (Denominator(current) \div totals[c]) : c \in U}
    OBVIOUS
  <2> QED
    BY <2>1 DEF TransitionScore
<1> HIDE DEF f
<1>4. IsFiniteSet({f[c] : c \in U})
  <2> HIDE DEF U
  <2> QED
    BY <1>1, ImageFinite
<1>5. IsFiniteSet(A) /\ A \in SUBSET Int /\ 0 \in A
  <2>1. A = {f[c] : c \in U} \cup {0}
    OBVIOUS
  <2>2. IsFiniteSet({f[c] : c \in U} \cup {0})
    BY <1>4, FS_AddElement
  <2> QED
    BY <1>2, <2>1, <2>2
<1> HIDE DEF A
<1>6. PICK m : m = Max(A)
  OBVIOUS
<1>7. m \in A /\ \A y \in A : y <= m
  BY <1>5, <1>6, MaximumExists
<1>8. m \in Int /\ 0 <= m
  BY <1>5, <1>7
<1> QED
  BY <1>3, <1>6, <1>8

(* An observation lies before the step, so a recency is below its full     *)
(* scale: it is never that of an access now.                               *)
LEMMA RecencyScoreBounds ==
    ASSUME CountersInv, DistanceInv, NEW e \in Experts
    PROVE  RecencyScore(e) \in 0 .. RecencyScale - 1
<1>1. /\ step \in 0 .. MaxStep /\ MaxStep \in Nat /\ RecencyScale \in Nat \ {0}
      /\ stats[e].last \in Int /\ stats[e].last < step
  BY PredictorAssumption DEF CountersInv, DistanceInv, StatsTyped
<1>2. CASE stats[e].last < 0
  BY <1>1, <1>2 DEF RecencyScore
<1>3. CASE ~(stats[e].last < 0)
  <2>1. step - stats[e].last \in 1 .. MaxStep
    BY <1>1, <1>3
  <2> QED
    BY <1>3, <2>1, PredictorAssumption DEF RecencyScore
<1> QED
  BY <1>2, <1>3

(* No score is negative.                                                   *)
LEMMA ScoreNatural ==
    ASSUME CountersInv, DistanceInv, NEW current \in SUBSET Experts, NEW e \in Experts
    PROVE  Score(current, e) \in Nat
<1>1. PICK n, m, t, r, f :
         /\ n = Denominator(current) /\ m = IF maxFrequency = 0 THEN 1 ELSE maxFrequency
         /\ t = TransitionScore(current, e) /\ r = RecencyScore(e) /\ f = stats[e].frequency
  OBVIOUS
<1>2. n \in Nat /\ t \in Nat /\ r \in Nat
  BY <1>1, DenominatorPositive, TransitionScoreNatural, RecencyScoreBounds
<1>3. f \in Nat
  BY <1>1 DEF DistanceInv, StatsTyped
<1>4. m \in Nat
  <2>1. maxFrequency \in Nat
    BY FrequenciesBounded
  <2> QED
    BY <1>1, <2>1
<1>5. /\ FrequencyWeight \in Nat /\ RecencyWeight \in Nat /\ TransitionWeight \in Nat
      /\ RecencyScale \in Nat
  BY PredictorAssumption
<1>6. Score(current, e) = FrequencyWeight * f * n * RecencyScale + RecencyWeight * r * m * n
                            + TransitionWeight * t * m * RecencyScale
  BY <1>1 DEF Score
<1>7. \A x, y \in Nat : x * y \in Nat /\ x + y \in Nat
  OBVIOUS
<1> QED
  BY <1>2, <1>3, <1>4, <1>5, <1>6, <1>7

(* r ranks the n experts S that a prediction for current may name.         *)
IsRanking(current, S, n, r) == S = known \ current /\ n = Cardinality(S) /\ r = Ranked(current)

Ranks(current, S, n, r) ==
    /\ r \in [1 .. n -> S]
    /\ \A i, j \in 1 .. n : i < j => Before(current, r[i], r[j])
    /\ \A i, j \in 1 .. n : i < j => r[i] # r[j]
    /\ \A x \in S : \E i \in 1 .. n : r[i] = x

(* The ranking has every expert that is known and not current, once, and   *)
(* never one before another that scores more.                              *)
LEMMA RankedExact ==
    ASSUME CountersInv, DistanceInv, NEW current \in SUBSET Experts,
           NEW S, NEW n, NEW r, IsRanking(current, S, n, r)
    PROVE  IsFiniteSet(S) /\ n \in Nat /\ Ranks(current, S, n, r)
<1> DEFINE R == OrderOn(S, LAMBDA x, y : Before(current, x, y))
<1>1. IsFiniteSet(S) /\ S \subseteq Experts /\ Experts \subseteq Nat
  BY PredictorAssumption, FS_Subset DEF CountersInv, IsRanking
<1>2. \A x, y \in S : <<x, y>> \in R <=> Before(current, x, y)
  BY DEF OrderOn
<1>3. r = Ordered(S, R)
  BY DEF Ranked, IsRanking, OrderOn
<1> HIDE DEF R
<1>4. \A x \in S : x \in Nat /\ Score(current, x) \in Nat
  BY <1>1, ScoreNatural
<1>5. \A x, y \in S : Before(current, x, y) <=>
         \/ Score(current, x) > Score(current, y)
         \/ Score(current, x) = Score(current, y) /\ x < y
  BY DEF Before
<1>6. StrictOrderOn(S, R)
  <2>1. \A x, y \in S : <<x, y>> \in R => <<y, x>> \notin R
    BY <1>2, <1>4, <1>5
  <2>2. \A x, y \in S : x # y => <<x, y>> \in R \/ <<y, x>> \in R
    BY <1>2, <1>4, <1>5
  <2>3. \A x, y, z \in S : <<x, y>> \in R /\ <<y, z>> \in R => <<x, z>> \in R
    BY <1>2, <1>4, <1>5
  <2> QED
    BY <2>1, <2>2, <2>3 DEF StrictOrderOn
<1>7. /\ n \in Nat /\ r \in [1 .. n -> S]
      /\ \A i, j \in 1 .. n : i < j => <<r[i], r[j]>> \in R
      /\ \A x \in S : \E i \in 1 .. n : r[i] = x
  <2>1. /\ Cardinality(S) \in Nat
        /\ Ordered(S, R) \in [1 .. Cardinality(S) -> S]
        /\ \A i, j \in 1 .. Cardinality(S) : i < j => <<Ordered(S, R)[i], Ordered(S, R)[j]>> \in R
        /\ \A x \in S : \E i \in 1 .. Cardinality(S) : Ordered(S, R)[i] = x
    BY <1>1, <1>6, OrderedExact
  <2>2. n = Cardinality(S)
    BY DEF IsRanking
  <2> QED
    BY <1>3, <2>1, <2>2
<1>8. ASSUME NEW i \in 1 .. n, NEW j \in 1 .. n, i < j
      PROVE  Before(current, r[i], r[j]) /\ r[i] # r[j]
  <2>1. r[i] \in S /\ r[j] \in S /\ <<r[i], r[j]>> \in R
    BY <1>7, <1>8
  <2>2. Before(current, r[i], r[j])
    BY <1>2, <2>1
  <2>3. r[i] # r[j]
    BY <1>6, <2>1 DEF StrictOrderOn
  <2> QED
    BY <2>2, <2>3
<1> QED
  BY <1>1, <1>7, <1>8 DEF Ranks

(* best is the first m entries of r.                                       *)
IsTop(S, r, m, best) ==
    /\ best \in Seq(S) /\ Len(best) = m
    /\ \A i \in 1 .. m : best[i] = r[i]
    /\ ToSet(best) = {r[i] : i \in 1 .. m}
    /\ Cardinality(ToSet(best)) = m

(* The first entries of an enumeration of S without repetitions.           *)
LEMMA FirstEntries ==
    ASSUME NEW S, NEW n \in Nat, NEW r \in [1 .. n -> S], NEW m \in 0 .. n,
           \A i, j \in 1 .. n : i < j => r[i] # r[j],
           NEW best, best = SubSeq(r, 1, m)
    PROVE  Len(r) = n /\ IsTop(S, r, m, best)
<1>1. r \in Seq(S) /\ Len(r) = n
  BY SeqDef
<1>2. best = SubSeq(r, 1, m)
  OBVIOUS
<1>3. best \in Seq(S) /\ Len(best) = m /\ \A i \in 1 .. m : best[i] = r[i]
  <2>1. \A i \in 1 .. m : r[i] \in S
    OBVIOUS
  <2>2. /\ SubSeq(r, 1, m) \in Seq(S) /\ Len(SubSeq(r, 1, m)) = IF 1 <= m THEN (m - 1) + 1 ELSE 0
        /\ \A i \in 1 .. (m - 1) + 1 : SubSeq(r, 1, m)[i] = r[(1 + i) - 1]
    BY <2>1, SubSeqProperties
  <2>3. (m - 1) + 1 = m /\ (IF 1 <= m THEN (m - 1) + 1 ELSE 0) = m
        /\ \A i \in 1 .. m : (1 + i) - 1 = i
    OBVIOUS
  <2> QED
    BY <1>2, <2>2, <2>3
<1>4. DOMAIN best = 1 .. m /\ m \in Nat
  BY <1>3
<1>5. ToSet(best) = {best[i] : i \in 1 .. m}
  BY <1>4 DEF ToSet
<1>6. Cardinality(ToSet(best)) = m
  <2>1. \A i, j \in 1 .. m : best[i] = best[j] => i = j
    <3> SUFFICES ASSUME NEW i \in 1 .. m, NEW j \in 1 .. m, i # j
                 PROVE  best[i] # best[j]
      OBVIOUS
    <3>1. i \in 1 .. n /\ j \in 1 .. n /\ (i < j \/ j < i)
      BY <1>4
    <3>2. best[i] = r[i] /\ best[j] = r[j]
      BY <1>3
    <3> QED
      BY <3>1, <3>2
  <2>2. best \in [1 .. m -> ToSet(best)]
    <3>1. best \in [1 .. m -> S]
      BY <1>3, LenProperties
    <3> QED
      BY <1>5, <3>1
  <2>3. best \in Bijection(1 .. m, ToSet(best))
    BY <1>4, <1>5, <2>1, <2>2 DEF Bijection, Injection, Surjection, IsInjective
  <2>4. Cardinality(1 .. m) = m
    <3>1. Cardinality(1 .. m) = IF 1 > m THEN 0 ELSE (m - 1) + 1
      BY <1>4, FS_Interval
    <3> QED
      BY <1>4, <3>1
  <2>5. IsFiniteSet(1 .. m)
    BY <1>4, FS_Interval
  <2>6. ExistsBijection(1 .. m, ToSet(best))
    BY <2>3 DEF ExistsBijection
  <2> QED
    BY <2>4, <2>5, <2>6, FS_Bijection
<1>7. ToSet(best) = {r[i] : i \in 1 .. m}
  BY <1>3, <1>5
<1> QED
  BY <1>1, <1>3, <1>6, <1>7 DEF IsTop

(* A prediction is the first topK of the ranking.                          *)
PredictedOf(current, S, n, r, topK, best) ==
    /\ best \in Seq(S) /\ ToSet(best) \subseteq S
    /\ Cardinality(ToSet(best)) = IF topK < n THEN topK ELSE n
    /\ n <= topK => ToSet(best) = S
    /\ \A x \in ToSet(best), y \in S \ ToSet(best) : Before(current, x, y)
    /\ topK > 0 /\ n > 0 => Len(best) > 0 /\ best[1] = r[1]

(* A prediction is the first entries of the ranking, all if topK is not    *)
(* less than their number.                                                 *)
LEMMA PredictExact ==
    ASSUME CountersInv, DistanceInv, NEW current \in SUBSET Experts, NEW topK \in Nat,
           NEW S, NEW n, NEW r, IsRanking(current, S, n, r),
           NEW best, best = Predict(current, topK)
    PROVE  PredictedOf(current, S, n, r, topK, best)
<1>11. IsFiniteSet(S) /\ n \in Nat /\ Ranks(current, S, n, r)
  BY RankedExact
<1>1. /\ IsFiniteSet(S) /\ n \in Nat /\ r \in [1 .. n -> S]
      /\ \A x \in S : \E i \in 1 .. n : r[i] = x
  BY <1>11 DEF Ranks
<1>2. PICK m : m = IF topK < n THEN topK ELSE n
  OBVIOUS
<1>3. m \in 0 .. n
  BY <1>1, <1>2
<1>4. \A i, j \in 1 .. n : i < j => r[i] # r[j]
  BY <1>11 DEF Ranks
<1>5. PICK b : b = SubSeq(r, 1, m)
  OBVIOUS
<1>6. /\ Len(r) = n /\ b \in Seq(S) /\ Len(b) = m /\ \A i \in 1 .. m : b[i] = r[i]
      /\ ToSet(b) = {r[i] : i \in 1 .. m} /\ Cardinality(ToSet(b)) = m
  <2>1. Len(r) = n /\ IsTop(S, r, m, b)
    BY <1>1, <1>3, <1>4, <1>5, FirstEntries
  <2> QED
    BY <2>1 DEF IsTop
<1>7. best = b
  <2>1. best = SubSeq(r, 1, IF topK < Len(r) THEN topK ELSE Len(r))
    BY DEF Predict, IsRanking
  <2> QED
    BY <1>2, <1>5, <1>6, <2>1
<1>8. ToSet(best) \subseteq S
  BY <1>1, <1>3, <1>6, <1>7
<1>9. n <= topK => ToSet(best) = S
  <2> SUFFICES ASSUME n <= topK
               PROVE  ToSet(best) = S
    OBVIOUS
  <2>1. m = n
    BY <1>1, <1>2
  <2>2. {r[i] : i \in 1 .. n} = S
    BY <1>1
  <2> QED
    BY <1>6, <1>7, <2>1, <2>2
<1>10. topK > 0 /\ n > 0 => Len(best) > 0 /\ best[1] = r[1]
  BY <1>1, <1>2, <1>6, <1>7
<1>12. ASSUME NEW x \in ToSet(best), NEW y \in S \ ToSet(best)
       PROVE  Before(current, x, y)
  <2>1. PICK i \in 1 .. m : x = r[i]
    BY <1>6, <1>7, <1>12
  <2>2. PICK j \in 1 .. n : y = r[j]
    BY <1>1, <1>12
  <2>3. ~(j \in 1 .. m)
    BY <1>6, <1>7, <1>12, <2>2
  <2>4. i \in 1 .. n /\ i < j
    BY <1>1, <1>3, <2>3
  <2> QED
    BY <1>11, <2>1, <2>2, <2>4 DEF Ranks
<1> QED
  BY <1>2, <1>6, <1>7, <1>8, <1>9, <1>10, <1>12 DEF PredictedOf

(* No score is below 0: a minimum of 0 leaves out the cached ones only.    *)
LEMMA CandidatesExact ==
    ASSUME CountersInv, DistanceInv, NEW current \in SUBSET Experts, NEW topK \in Nat
    PROVE  ToSet(PrefetchCandidates(current, topK, 0)) = ToSet(Predict(current, topK)) \ Cached
<1>1. PICK S, n, r, best : IsRanking(current, S, n, r) /\ best = Predict(current, topK)
  BY DEF IsRanking
<1>2. best \in Seq(S) /\ ToSet(best) \subseteq S /\ S \subseteq Experts
  <2>1. PredictedOf(current, S, n, r, topK, best)
    BY <1>1, PredictExact
  <2> QED
    BY <1>1, <2>1 DEF PredictedOf, IsRanking, CountersInv
<1>3. PICK places : places = {i \in DOMAIN best : Score(current, best[i]) >= 0}
  OBVIOUS
<1>4. places = DOMAIN best
  <2>1. ASSUME NEW i \in DOMAIN best
        PROVE  Score(current, best[i]) >= 0
    <3>1. best[i] \in Experts
      BY <1>2 DEF ToSet
    <3> QED
      BY <3>1, ScoreNatural
  <2> QED
    BY <1>3, <2>1
<1>5. PICK predicted : predicted = SubSequence(best, places)
  OBVIOUS
<1>6. Predictions(current, topK, 0) = predicted
  BY <1>1, <1>3, <1>5 DEF Predictions
<1>7. predicted \in Seq(S) /\ ToSet(predicted) = {best[i] : i \in places}
  BY <1>2, <1>4, <1>5, SubSequenceExact
<1>8. ToSet(predicted) = ToSet(best)
  BY <1>4, <1>7 DEF ToSet
<1>9. PICK chosen : chosen = {i \in DOMAIN predicted : predicted[i] \notin Cached}
  OBVIOUS
<1>10. PrefetchCandidates(current, topK, 0) = SubSequence(predicted, chosen)
  BY <1>6, <1>9 DEF PrefetchCandidates
<1>11. chosen \in SUBSET DOMAIN predicted
  BY <1>9
<1>12. ToSet(SubSequence(predicted, chosen)) = {predicted[i] : i \in chosen}
  BY <1>7, <1>11, SubSequenceExact
<1>13. {predicted[i] : i \in chosen} = ToSet(predicted) \ Cached
  BY <1>9 DEF ToSet
<1> QED
  BY <1>1, <1>8, <1>10, <1>12, <1>13

(* An expert that could be prefetched is left out only for top_k others    *)
(* that score no less; a prediction long enough is never used up by what   *)
(* is cached: with more than Capacity places there is a candidate if there *)
(* can be one, and at least as many as the cache leaves room for           *)
(* (cache.py:166-222).                                                     *)
THEOREM CandidatesRemain == CaptureSpec => []CandidatesNotStarved
<1>1. ASSUME CountersInv, DistanceInv, CacheInv
      PROVE  CandidatesNotStarved
  <2> DEFINE NoLess(current, candidates, e) ==
               {x \in (known \ current) \cap (candidates \cup Cached) :
                  Score(current, x) >= Score(current, e)}
  <2>1. PICK held, l : held = Cached /\ l = Len(order)
    OBVIOUS
  <2>2. l \in Nat /\ l <= Capacity /\ IsFiniteSet(held) /\ Cardinality(held) <= l
    <3>1. order \in Seq(Experts) /\ l \in Nat /\ l <= Capacity /\ held = ToSet(order)
      BY <1>1, <2>1, CacheKeys
    <3>2. order \in Surjection(1 .. l, held)
      BY <2>1, <3>1 DEF Surjection, ToSet
    <3>3. Cardinality(1 .. l) = l /\ IsFiniteSet(1 .. l)
      <4>1. Cardinality(1 .. l) = IF 1 > l THEN 0 ELSE (l - 1) + 1
        BY <3>1, FS_Interval
      <4>2. IsFiniteSet(1 .. l)
        BY <3>1, FS_Interval
      <4> QED
        BY <3>1, <4>1, <4>2
    <3>4. IsFiniteSet(held) /\ Cardinality(held) <= Cardinality(1 .. l)
      BY <3>2, <3>3, FS_Surjection
    <3> QED
      BY <3>1, <3>3, <3>4
  <2>3. ASSUME NEW current \in SUBSET Experts, NEW topK \in 1 .. Capacity + 1,
               NEW open, open = known \ (current \cup Cached),
               NEW candidates, candidates = ToSet(PrefetchCandidates(current, topK, 0))
        PROVE  /\ \A e \in open \ candidates : Cardinality(NoLess(current, candidates, e)) >= topK
               /\ topK > Capacity /\ open # {} => candidates # {}
               /\ Cardinality(candidates) >= Min({topK - Len(order), Cardinality(open)})
    <3>1. topK \in Nat /\ Capacity \in Nat
      BY CacheAssumption
    <3>2. PICK S, n, r, best : IsRanking(current, S, n, r) /\ best = Predict(current, topK)
      BY DEF IsRanking
    <3>3. PICK b : b = ToSet(best)
      OBVIOUS
    <3>4. /\ b \subseteq S /\ Cardinality(b) = IF topK < n THEN topK ELSE n
          /\ n <= topK => b = S
          /\ \A x \in b, y \in S \ b : Before(current, x, y)
      <4>1. PredictedOf(current, S, n, r, topK, best)
        BY <1>1, <2>3, <3>1, <3>2, PredictExact
      <4> QED
        BY <3>3, <4>1 DEF PredictedOf
    <3>5. IsFiniteSet(S) /\ n \in Nat
      BY <1>1, <3>2, RankedExact
    <3>6. candidates = b \ held /\ open = S \ held
      BY <1>1, <2>1, <2>3, <3>1, <3>2, <3>3, CandidatesExact DEF IsRanking
    <3>7. PICK c, o : c = Cardinality(candidates) /\ o = Cardinality(open)
      OBVIOUS
    <3>8. c \in Nat /\ o \in Nat /\ IsFiniteSet(candidates) /\ IsFiniteSet(open) /\ IsFiniteSet(b)
      <4>1. IsFiniteSet(b) /\ IsFiniteSet(open)
        BY <3>4, <3>5, <3>6, FS_Subset
      <4>2. IsFiniteSet(candidates)
        BY <3>6, <4>1, FS_Subset
      <4> QED
        BY <3>7, <4>1, <4>2, FS_CardinalityType
    <3>9. c >= topK - l \/ c = o
      <4>1. CASE n <= topK
        BY <3>4, <3>6, <3>7, <4>1
      <4>2. CASE ~(n <= topK)
        <5>1. Cardinality(b) = topK
          BY <3>1, <3>4, <3>5, <4>2
        <5>2. Cardinality(b \ held) = Cardinality(b) - Cardinality(b \cap held)
          BY <3>8, FS_Difference
        <5>3. Cardinality(b \cap held) \in Nat /\ Cardinality(b \cap held) <= Cardinality(held)
              /\ Cardinality(held) \in Nat
          <6>1. b \cap held \in SUBSET held
            OBVIOUS
          <6>2. IsFiniteSet(b \cap held) /\ Cardinality(b \cap held) <= Cardinality(held)
            BY <2>2, <6>1, FS_Subset
          <6>3. Cardinality(b \cap held) \in Nat
            BY <6>2, FS_CardinalityType
          <6>4. Cardinality(held) \in Nat
            BY <2>2, FS_CardinalityType
          <6> QED
            BY <6>2, <6>3, <6>4
        <5> QED
          BY <2>2, <3>1, <3>6, <3>7, <5>1, <5>2, <5>3
      <4> QED
        BY <4>1, <4>2
    <3>10. c >= Min({topK - l, o})
      <4>1. topK - l \in Int
        BY <2>2, <3>1
      <4>2. PICK k : k = topK - l
        OBVIOUS
      <4>3. Min({k, o}) = IF k <= o THEN k ELSE o
        BY <3>8, <4>1, <4>2, MinimumOfTwo
      <4> QED
        BY <3>8, <3>9, <4>1, <4>2, <4>3
    <3>11. topK > Capacity /\ open # {} => candidates # {}
      <4> SUFFICES ASSUME topK > Capacity, open # {}, candidates = {}
                   PROVE  FALSE
        OBVIOUS
      <4>1. c = 0 /\ o # 0
        BY <3>7, <3>8, FS_EmptySet
      <4> QED
        BY <2>2, <3>1, <3>9, <4>1
    <3>12. ASSUME NEW e \in open \ candidates, NEW others, others = NoLess(current, candidates, e)
           PROVE  Cardinality(others) >= topK
      <4>1. e \in S \ b /\ S = known \ current /\ S \subseteq Experts
        BY <1>1, <2>1, <3>2, <3>6, <3>12 DEF IsRanking, CountersInv
      <4>2. Cardinality(b) = topK
        BY <3>1, <3>4, <3>5, <4>1
      <4>3. ASSUME NEW x \in b
            PROVE  x \in others
        <5>1. Before(current, x, e) /\ x \in S
          BY <3>4, <4>1
        <5>2. Score(current, x) \in Nat /\ Score(current, e) \in Nat
          BY <1>1, <2>3, <4>1, <5>1, ScoreNatural
        <5>3. Score(current, x) >= Score(current, e)
          BY <5>1, <5>2 DEF Before
        <5>4. x \in candidates \cup Cached
          BY <2>1, <3>6
        <5> QED
          BY <3>12, <4>1, <5>1, <5>3, <5>4
      <4>4. IsFiniteSet(others) /\ b \in SUBSET others
        <5>1. others \in SUBSET S
          BY <3>12, <4>1
        <5> QED
          BY <3>5, <4>3, <5>1, FS_Subset
      <4>5. Cardinality(b) <= Cardinality(others)
        BY <4>4, FS_Subset
      <4> QED
        BY <4>2, <4>5
    <3> QED
      BY <2>1, <3>7, <3>10, <3>11, <3>12
  <2>4. ToSet(previous) \in SUBSET Experts
    BY <1>1 DEF CountersInv, ToSet
  <2> HIDE DEF NoLess
  <2>5. ASSUME NEW S \in SUBSET Experts, NEW topK \in 1 .. Capacity + 1, NEW candidates,
               candidates = ToSet(PrefetchCandidates(S, topK, 0))
        PROVE  NotStarved(S, topK, candidates)
    <3>1. PICK open : open = known \ (S \cup Cached)
      OBVIOUS
    <3>2. /\ \A e \in open \ candidates : Cardinality(NoLess(S, candidates, e)) >= topK
          /\ topK > Capacity /\ open # {} => candidates # {}
          /\ Cardinality(candidates) >= Min({topK - Len(order), Cardinality(open)})
      BY <2>3, <2>5, <3>1
    <3> QED
      BY <3>1, <3>2 DEF NotStarved, NoLess
  <2> QED
    BY <2>4, <2>5 DEF CandidatesNotStarved
<1> QED
  BY <1>1, CountersInvariance, CacheInvariance, PTL

(* Each transition to an expert is one of its observations.                *)
TransitionsInv == \A p, e \in Experts : transitions[p][e] <= stats[e].frequency

(* Every step that counts a transition counts an observation.              *)
LEMMA TransitionsStep ==
    ASSUME TransitionsInv, CountersInv, DistanceInv, [CaptureNext]_allVars
    PROVE  TransitionsInv'
<1>1. CASE UNCHANGED <<stats, transitions>>
  BY <1>1 DEF TransitionsInv
<1>2. ASSUME NEW s, Observe(s)
      PROVE  TransitionsInv'
  <2>1. PICK current, before :
           /\ stats' = [e \in Experts |-> IF e \in current THEN SeenNow(e) ELSE stats[e]]
           /\ transitions' = [p \in Experts |-> [e \in Experts |->
                                 IF p \in before /\ e \in current
                                    THEN transitions[p][e] + 1 ELSE transitions[p][e]]]
    BY <1>2 DEF Observe
  <2> SUFFICES ASSUME NEW p \in Experts, NEW e \in Experts
               PROVE  transitions'[p][e] <= stats'[e].frequency
    BY DEF TransitionsInv
  <2>2. PICK t, f : t = transitions[p][e] /\ f = stats[e].frequency
    OBVIOUS
  <2>3. t \in Int /\ f \in Int /\ t <= f
    BY <2>2 DEF TransitionsInv, CountersInv, StatsAt
  <2>4. transitions'[p][e] = IF p \in before /\ e \in current THEN t + 1 ELSE t
    BY <2>1, <2>2
  <2>5. stats'[e].frequency = IF e \in current THEN f + 1 ELSE f
    BY <2>1, <2>2, SeenNowBounds
  <2> QED
    BY <2>3, <2>4, <2>5
<1>3. ASSUME NEW e \in Experts, RecordHit(e) \/ RecordMiss(e)
      PROVE  TransitionsInv'
  <2>1. transitions' = transitions
    BY <1>3 DEF RecordHit, RecordMiss, routingVars
  <2>2. \/ stats' = [stats EXCEPT ![e].hits = @ + 1]
        \/ stats' = [stats EXCEPT ![e].misses = @ + 1]
    BY <1>3 DEF RecordHit, RecordMiss
  <2>3. \A x \in Experts : stats'[x].frequency = stats[x].frequency
    BY <2>2 DEF DistanceInv, StatsTyped
  <2> QED
    BY <2>1, <2>3 DEF TransitionsInv
<1>4. CASE driver = "caller" /\ Next
  BY <1>1, <1>2, <1>3, <1>4 DEF Next, ObserveEvent, Insert, GetHit, GetMiss, Clear, predictorVars
<1>5. CASE CaptureStep
  BY <1>1, <1>2, <1>5 DEF CaptureStep, BridgeObserves, ObserveToken, RemoveHooks, ClearCaptured,
     PlainForward, Install, Begin, GateRuns, ForwardRaises, ForwardReturns, TokenObserved, vars,
     predictorVars
<1> QED
  BY <1>1, <1>4, <1>5 DEF CaptureNext, allVars, vars, predictorVars

(* After one expert, the transition score over its total is its count.     *)
LEMMA TransitionScoreAfter ==
    ASSUME CountersInv, NEW p \in Experts, totals[p] > 0, NEW x \in Experts
    PROVE  TransitionScore({p}, x) = transitions[p][x]
<1>1. PICK k, t : k = totals[p] /\ t = transitions[p][x]
  OBVIOUS
<1>2. k \in Nat \ {0} /\ t \in Nat
  BY <1>1 DEF CountersInv
<1>3. Denominator({p}) = k
  BY <1>1, <1>2, DenominatorOfOne
<1>4. k \div k = 1 /\ t * 1 = t
  BY <1>2
<1>5. {d \in {p} : totals[d] > 0} = {p}
  OBVIOUS
<1>6. {transitions[c][x] * (Denominator({p}) \div totals[c]) : c \in {d \in {p} : totals[d] > 0}} = {t}
  <2>1. \A c \in {p} : transitions[c][x] * (Denominator({p}) \div totals[c]) = t
    BY <1>1, <1>3, <1>4
  <2> QED
    BY <1>5, <2>1
<1>7. {0} \cup {t} \in SUBSET Int /\ t \in {0} \cup {t} /\ \A y \in {0} \cup {t} : y <= t
  BY <1>2
<1>8. Max({0} \cup {t}) = t
  BY <1>7, MaximumIs, Zenon
<1> QED
  BY <1>1, <1>6, <1>8 DEF TransitionScore

(* If e has all transitions of p, nothing else has one.                    *)
LEMMA NoOtherSuccessor ==
    ASSUME CountersInv, NEW p \in Experts, NEW e \in Experts, transitions[p][e] = totals[p],
           NEW x \in Experts, x # e
    PROVE  transitions[p][x] = 0
<1>1. PICK f : f = transitions[p]
  OBVIOUS
<1>2. f \in [Experts -> Nat] /\ IsFiniteSet(Experts)
  <2>1. step \in Nat
    BY PredictorAssumption DEF CountersInv
  <2>2. f \in [Experts -> 0 .. step]
    BY <1>1, Zenon DEF CountersInv
  <2> QED
    BY <2>1, <2>2, PredictorAssumption
<1>3. SumFunctionOnSet(f, Experts) = f[e]
  <2>1. totals[p] = SumFunction(f)
    BY <1>1 DEF CountersInv, CountersAgree
  <2>2. SumFunction(f) = SumFunctionOnSet(f, Experts)
    BY <1>2, SumIsOverDomain
  <2> QED
    BY <1>1, <2>1, <2>2
<1>4. SumFunctionOnSet(f, {e, x}) <= SumFunctionOnSet(f, Experts)
  <2>1. {e, x} \in SUBSET Experts
    OBVIOUS
  <2> QED
    BY <1>2, <2>1, SumMonotonic
<1>5. SumFunctionOnSet(f, {e, x}) = f[e] + f[x]
  <2>1. SumFunctionOnSet(f, {}) = 0
    BY <1>2, SumPick
  <2>2. f[e] \in Int /\ f[x] \in Int
    BY <1>2
  <2>3. SumFunctionOnSet(f, {} \cup {x}) = f[x] + SumFunctionOnSet(f, {})
    BY <2>2, FS_EmptySet, SumAddElement
  <2>4. {} \cup {x} = {x} /\ IsFiniteSet({x}) /\ e \notin {x}
    BY FS_Singleton
  <2>5. SumFunctionOnSet(f, {x} \cup {e}) = f[e] + SumFunctionOnSet(f, {x})
    BY <2>2, <2>4, SumAddElement
  <2>6. {x} \cup {e} = {e, x}
    OBVIOUS
  <2>7. SumFunctionOnSet(f, {x}) = f[x]
    BY <2>1, <2>2, <2>3, <2>4
  <2>8. SumFunctionOnSet(f, {e, x}) = f[e] + SumFunctionOnSet(f, {x})
    BY <2>5, <2>6
  <2> QED
    BY <2>7, <2>8
<1> QED
  BY <1>1, <1>2, <1>3, <1>4, <1>5

(* The arithmetic of the weights: what always follows outweighs the best   *)
(* frequency and the best recency together.                                *)
LEMMA SuccessorOutweighs ==
    ASSUME NEW FW \in Nat, NEW RW \in Nat, NEW TW \in Nat, TW >= FW + RW, FW + RW + TW > 0,
           NEW n \in Nat \ {0}, NEW m \in Nat \ {0}, NEW s \in Nat \ {0},
           NEW a \in Nat \ {0}, NEW b \in Nat, b <= m, NEW c \in Nat, NEW d \in 0 .. s - 1
    PROVE  FW * b * n * s + RW * d * m * n < FW * a * n * s + RW * c * m * n + TW * n * m * s
<1>1. \A x, y \in Nat : x * y \in Nat /\ x * y = y * x
  OBVIOUS
<1>2. \A x, y, z \in Nat : x <= y => z * x <= z * y
  OBVIOUS
<1>3. PICK u : u = n * s
  OBVIOUS
<1>4. PICK v : v = m * n
  OBVIOUS
<1>5. PICK w : w = v * s
  OBVIOUS
<1>6. u \in Nat \ {0} /\ v \in Nat \ {0} /\ w \in Nat \ {0}
  BY <1>3, <1>4, <1>5
<1>7. /\ FW * b * n * s = FW * (b * u) /\ FW * a * n * s = FW * (a * u)
      /\ RW * d * m * n = RW * (d * v) /\ RW * c * m * n = RW * (c * v)
      /\ TW * n * m * s = TW * w
  BY <1>3, <1>4, <1>5
<1>8. b * u <= w /\ a * u >= u
  BY <1>3, <1>4, <1>5
<1>9. d * v + v <= w
  BY <1>4, <1>5, <1>6
<1>10. FW * (b * u) <= FW * w /\ FW * (a * u) >= FW * u
  BY <1>1, <1>2, <1>6, <1>8
<1>11. RW * (d * v) + RW * v <= RW * w
  BY <1>1, <1>2, <1>6, <1>9
<1>12. TW * w >= FW * w + RW * w /\ (FW + RW = 0 => TW * w > FW * w + RW * w)
  BY <1>6
<1>13. FW * u + RW * v > 0 \/ FW + RW = 0
  BY <1>6
<1> QED
  BY <1>1, <1>6, <1>7, <1>8, <1>10, <1>11, <1>12, <1>13

(* An expert that has always followed the current one is predicted first,  *)
(* if the transition weighs as much as frequency and recency together      *)
(* (predictor.py:313-421).                                                 *)
THEOREM SureSuccessorIsFirst == CaptureSpec => []SureSuccessorFirst
<1>1. ASSUME CountersInv, DistanceInv, TransitionsInv
      PROVE  SureSuccessorFirst
  <2> SUFFICES ASSUME TransitionWeight >= FrequencyWeight + RecencyWeight,
                      NEW p \in Experts, NEW e \in Experts,
                      p # e, totals[p] > 0, transitions[p][e] = totals[p]
               PROVE  Head(Predict({p}, 1)) = e
    BY DEF SureSuccessorFirst
  <2>1. PICK S, n, r, best : IsRanking({p}, S, n, r) /\ best = Predict({p}, 1)
    BY DEF IsRanking
  <2>2. {p} \in SUBSET Experts /\ 1 \in Nat
    OBVIOUS
  <2>3. PredictedOf({p}, S, n, r, 1, best)
    BY <1>1, <2>1, <2>2, PredictExact
  <2>4. IsFiniteSet(S) /\ n \in Nat /\ Ranks({p}, S, n, r)
    BY <1>1, <2>1, <2>2, RankedExact
  <2>5. stats[e].frequency \in Nat \ {0} /\ e \in S
    <3>1. totals[p] \in Nat /\ transitions[p][e] <= stats[e].frequency /\ stats[e].frequency \in Nat
      BY <1>1 DEF TransitionsInv, CountersInv, DistanceInv, StatsTyped
    <3>2. stats[e].frequency > 0
      BY <3>1
    <3>3. e \in known
      BY <1>1, <3>2 DEF DistanceInv, NewStats
    <3> QED
      BY <2>1, <3>1, <3>2, <3>3 DEF IsRanking
  <2>6. ASSUME NEW x \in S, x # e
        PROVE  Score({p}, x) < Score({p}, e)
    <3>1. x \in Experts
      BY <1>1, <2>1 DEF IsRanking, CountersInv
    <3>2. PICK k, m, s, a, b, c, d :
             /\ k = totals[p] /\ m = maxFrequency /\ s = RecencyScale
             /\ a = stats[e].frequency /\ b = stats[x].frequency
             /\ c = RecencyScore(e) /\ d = RecencyScore(x)
      OBVIOUS
    <3>3. k \in Nat \ {0} /\ s \in Nat \ {0}
      BY <1>1, <3>2, PredictorAssumption DEF CountersInv
    <3>4. a \in Nat \ {0} /\ b \in Nat /\ b <= m /\ m \in Nat \ {0}
      BY <1>1, <2>5, <3>1, <3>2, FrequenciesBounded DEF DistanceInv, StatsTyped
    <3>5. c \in Nat /\ d \in 0 .. s - 1
      BY <1>1, <3>1, <3>2, <3>3, RecencyScoreBounds
    <3>6. TransitionScore({p}, e) = k /\ TransitionScore({p}, x) = 0
      BY <1>1, <2>6, <3>1, <3>2, TransitionScoreAfter, NoOtherSuccessor
    <3>7. Denominator({p}) = k
      BY <1>1, <3>2, <3>3, DenominatorOfOne
    <3>8. m # 0 /\ (IF maxFrequency = 0 THEN 1 ELSE maxFrequency) = m
      BY <3>2, <3>4
    <3>9. /\ Score({p}, e) = FrequencyWeight * a * k * s + RecencyWeight * c * m * k
                               + TransitionWeight * k * m * s
          /\ Score({p}, x) = FrequencyWeight * b * k * s + RecencyWeight * d * m * k
                               + TransitionWeight * 0 * m * s
      BY <3>2, <3>6, <3>7, <3>8 DEF Score
    <3>10. /\ FrequencyWeight \in Nat /\ RecencyWeight \in Nat /\ TransitionWeight \in Nat
           /\ FrequencyWeight + RecencyWeight + TransitionWeight > 0
      BY PredictorAssumption
    <3>11. FrequencyWeight * b * k * s + RecencyWeight * d * m * k
              < FrequencyWeight * a * k * s + RecencyWeight * c * m * k + TransitionWeight * k * m * s
      BY <3>3, <3>4, <3>5, <3>10, SuccessorOutweighs
    <3>12. TransitionWeight * 0 * m * s = 0
      BY <3>3, <3>4, <3>10
    <3>13. FrequencyWeight * b * k * s \in Nat /\ RecencyWeight * d * m * k \in Nat
      BY <3>3, <3>4, <3>5, <3>10
    <3> QED
      BY <3>9, <3>11, <3>12, <3>13
  <2>7. PICK i \in 1 .. n : r[i] = e
    BY <2>4, <2>5 DEF Ranks
  <2>8. r[1] = e
    <3> SUFFICES ASSUME r[1] # e
                 PROVE  FALSE
      OBVIOUS
    <3>1. 1 \in 1 .. n /\ 1 < i
      BY <2>4, <2>7
    <3>2. r[1] \in S /\ Before({p}, r[1], e)
      BY <2>4, <2>7, <3>1 DEF Ranks
    <3>3. PICK y : y = r[1]
      OBVIOUS
    <3>4. Score({p}, y) < Score({p}, e) /\ y \in Experts
      BY <1>1, <2>1, <2>6, <3>2, <3>3 DEF IsRanking, CountersInv
    <3>5. Score({p}, y) \in Nat /\ Score({p}, e) \in Nat
      BY <1>1, <2>2, <3>4, ScoreNatural
    <3>6. Score({p}, y) > Score({p}, e) \/ Score({p}, y) = Score({p}, e)
      BY <3>2, <3>3 DEF Before
    <3> QED
      BY <3>4, <3>5, <3>6
  <2>9. Len(best) > 0 /\ best[1] = e /\ best \in Seq(S)
    BY <2>3, <2>4, <2>7, <2>8 DEF PredictedOf
  <2> QED
    BY <2>1, <2>9
<1>2. CaptureInit => TransitionsInv
  <2>1. ASSUME CaptureInit, NEW p \in Experts, NEW e \in Experts
        PROVE  transitions[p][e] <= stats[e].frequency
    <3>1. transitions[p][e] = 0 /\ stats[e].frequency = 0
      BY <2>1 DEF CaptureInit, Init, PredictorInit, NewStats
    <3> QED
      BY <3>1
  <2> QED
    BY <2>1 DEF TransitionsInv
<1>3. TransitionsInv /\ CountersInv /\ DistanceInv /\ [CaptureNext]_allVars => TransitionsInv'
  BY TransitionsStep
<1> QED
  BY <1>1, <1>2, <1>3, CountersInvariance, PTL DEF CaptureSpec
-----------------------------------------------------------------------------
(* The access patterns of a history, without the fold: of the events s of  *)
(* the history h, those with the expert e.                                 *)
Having(h, s, e) == {i \in s : e \in ToSet(h[i].experts)}
ExpertsAmong(h, s) == UNION {ToSet(h[i].experts) : i \in s}

PatternOf(h, A) ==
    [count |-> Cardinality(A), first |-> h[Min(A)].step,
     last |-> Max({h[i].step : i \in A}), layers |-> {h[i].layer : i \in A}]

PatternsOf(h, s) == [e \in ExpertsAmong(h, s) |-> PatternOf(h, Having(h, s, e))]

(* The function by which the fold over a history is defined.               *)
IsPattern(g, h) ==
    g = [s \in SUBSET DOMAIN h |-> IF s = {} THEN <<>> ELSE AddEvent(g[s \ {Max(s)}], h[Max(s)])]

(* The fold over a history is that function.                               *)
LEMMA PatternsAreRecursive ==
    ASSUME NEW h
    PROVE  AccessPatterns(h) = (CHOOSE g : IsPattern(g, h))[DOMAIN h]
  BY Zenon DEF AccessPatterns, FoldLeft, MapThenFoldSet, IsPattern

(* A history has numbered events.                                          *)
IsHistory(h) ==
    /\ DOMAIN h = 1 .. Len(h) /\ Len(h) \in Nat
    /\ \A i \in DOMAIN h : h[i].step \in Nat

(* A pattern by its fields.                                                *)
Is(a, c, f, l, y) == a = [count |-> c, first |-> f, last |-> l, layers |-> y]

(* One more event changes the fields one by one.                           *)
LEMMA AgainExact ==
    ASSUME NEW c, NEW f, NEW l, NEW y, NEW event, NEW a, Is(a, c, f, l, y)
    PROVE  Is(Again(a, event), c + 1, f, Max({l, event.step}), y \cup {event.layer})
<1> DEFINE Type == [count : {c, c + 1}, first : {f}, last : {l, Max({l, event.step})},
                    layers : {y, y \cup {event.layer}}]
<1>1. PICK n, k, z : n = c + 1 /\ k = Max({l, event.step}) /\ z = y \cup {event.layer}
  OBVIOUS
<1>2. Type = [count : {c, n}, first : {f}, last : {l, k}, layers : {y, z}]
  BY <1>1
<1> HIDE DEF Type
<1>3. a \in Type /\ a.count = c /\ a.first = f /\ a.last = l /\ a.layers = y
  BY <1>2 DEF Is
<1>4. PICK b : b = [a EXCEPT !.count = n, !.last = k, !.layers = z]
  OBVIOUS
<1>5. b \in Type /\ b.count = n /\ b.first = f /\ b.last = k /\ b.layers = z
  BY <1>2, <1>3, <1>4
<1>6. b = [count |-> n, first |-> f, last |-> k, layers |-> z]
  BY <1>2, <1>5
<1>7. Again(a, event) = [a EXCEPT !.count = a.count + 1, !.last = Max({a.last, event.step}),
                                  !.layers = a.layers \cup {event.layer}]
  BY Zenon DEF Again
<1>8. Again(a, event) = b
  BY <1>1, <1>3, <1>4, <1>7, Zenon
<1> QED
  BY <1>1, <1>6, <1>8 DEF Is

(* One event more, later than those before.                                *)
LEMMA PatternAgain ==
    ASSUME NEW h, IsHistory(h), NEW A \in SUBSET DOMAIN h, A # {}, NEW m \in DOMAIN h,
           \A i \in A : i < m
    PROVE  PatternOf(h, A \cup {m}) = Again(PatternOf(h, A), h[m])
<1> DEFINE B == A \cup {m}
           Steps(C) == {h[i].step : i \in C}
<1>1. /\ A \in SUBSET Nat /\ B \in SUBSET Nat /\ m \notin A /\ m \in Nat
      /\ IsFiniteSet(A) /\ Steps(A) \in SUBSET Int /\ Steps(A) # {}
  <2>1. IsFiniteSet(1 .. Len(h))
    BY FS_Interval DEF IsHistory
  <2>2. IsFiniteSet(A)
    BY <2>1, FS_Subset DEF IsHistory
  <2> QED
    BY <2>2 DEF IsHistory
<1>2. Cardinality(B) = Cardinality(A) + 1
  BY <1>1, FS_AddElement
<1>3. Min(B) = Min(A)
  <2>1. Min(A) \in A /\ \A y \in A : Min(A) <= y
    BY <1>1, MinimumExists
  <2>2. PICK a : a = Min(A)
    OBVIOUS
  <2>3. a \in B /\ \A y \in B : a <= y
    BY <1>1, <2>1, <2>2
  <2>4. B \in SUBSET Int
    BY <1>1
  <2> HIDE DEF B
  <2>5. Min(B) = a
    BY <2>3, <2>4, MinimumIs
  <2> QED
    BY <2>2, <2>5
<1>4. Max(Steps(B)) = Max({Max(Steps(A)), h[m].step})
  <2>1. IsFiniteSet(Steps(A))
    <3>1. PICK f : f = [i \in A |-> h[i].step]
      OBVIOUS
    <3>2. IsFiniteSet({f[i] : i \in A})
      BY <1>1, ImageFinite
    <3>3. {f[i] : i \in A} = Steps(A)
      BY <3>1
    <3> QED
      BY <3>2, <3>3
  <2>2. PICK a : a = Max(Steps(A))
    OBVIOUS
  <2>3. a \in Steps(A) /\ \A y \in Steps(A) : y <= a
    BY <1>1, <2>1, <2>2, MaximumExists
  <2>4. PICK k : k = h[m].step
    OBVIOUS
  <2>5. k \in Int /\ a \in Int /\ Steps(B) = Steps(A) \cup {k}
    BY <1>1, <2>3, <2>4 DEF IsHistory
  <2>6. PICK c \in {a, k} : a <= c /\ k <= c
    BY <2>5
  <2>7. Max({a, k}) = c
    <3>1. {a, k} \in SUBSET Int /\ \A y \in {a, k} : y <= c
      BY <2>5, <2>6
    <3> QED
      BY <2>6, <3>1, MaximumIs
  <2>8. Max(Steps(B)) = c
    <3>1. Steps(B) \in SUBSET Int /\ c \in Steps(B)
      BY <1>1, <2>3, <2>5, <2>6
    <3>2. \A y \in Steps(B) : y <= c
      <4> HIDE DEF Steps, B
      <4>1. c \in Int
        BY <2>5, <2>6
      <4>2. \A y \in Steps(A) : y \in Int
        BY <1>1
      <4> QED
        BY <2>3, <2>5, <2>6, <4>1, <4>2
    <3> HIDE DEF Steps, B
    <3> QED
      BY <3>1, <3>2, MaximumIs
  <2> QED
    BY <2>2, <2>4, <2>7, <2>8
<1>5. {h[i].layer : i \in B} = {h[i].layer : i \in A} \cup {h[m].layer}
  OBVIOUS
<1>6. PICK a, b : a = PatternOf(h, A) /\ b = PatternOf(h, B)
  OBVIOUS
<1>7. PICK c, f, l, y : /\ c = Cardinality(A) /\ f = h[Min(A)].step
                        /\ l = Max(Steps(A)) /\ y = {h[i].layer : i \in A}
  OBVIOUS
<1>8. Is(a, c, f, l, y) /\ Is(b, c + 1, f, Max({l, h[m].step}), y \cup {h[m].layer})
  <2> HIDE DEF B
  <2> QED
    BY <1>2, <1>3, <1>4, <1>5, <1>6, <1>7 DEF PatternOf, Is
<1>9. b = Again(a, h[m])
  <2>1. Is(Again(a, h[m]), c + 1, f, Max({l, h[m].step}), y \cup {h[m].layer})
    BY <1>8, AgainExact
  <2> QED
    BY <1>8, <2>1 DEF Is
<1> QED
  BY <1>6, <1>9

(* One event alone.                                                        *)
LEMMA PatternOfOne ==
    ASSUME NEW h, IsHistory(h), NEW m \in DOMAIN h
    PROVE  PatternOf(h, {m}) = NewPattern(h[m])
<1>1. Cardinality({m}) = 1
  BY FS_Singleton
<1>2. m \in Int /\ h[m].step \in Int
  BY DEF IsHistory
<1>3. PICK k : k = h[m].step
  OBVIOUS
<1>4. Max({k}) = k
  <2>1. PICK S : S = {k}
    OBVIOUS
  <2>2. S \in SUBSET Int /\ k \in S /\ \A y \in S : y <= k
    BY <1>2, <1>3, <2>1
  <2>3. Max(S) = k
    BY <2>2, MaximumIs
  <2> QED
    BY <2>1, <2>3
<1>5. Min({m}) = m
  BY <1>2, MinimumIs
<1>6. {h[i].step : i \in {m}} = {h[m].step} /\ {h[i].layer : i \in {m}} = {h[m].layer}
  OBVIOUS
<1>7. Max({h[m].step}) = h[m].step
  BY <1>3, <1>4
<1> QED
  BY <1>1, <1>5, <1>6, <1>7 DEF PatternOf, NewPattern

(* What the fold does with an event is what the event adds.                *)
LEMMA PatternsGrow ==
    ASSUME NEW h, IsHistory(h), NEW s \in SUBSET DOMAIN h, NEW m \in s, \A i \in s : i <= m
    PROVE  PatternsOf(h, s) = AddEvent(PatternsOf(h, s \ {m}), h[m])
<1> DEFINE r == s \ {m}
           new == ToSet(h[m].experts)
<1>1. ExpertsAmong(h, s) = ExpertsAmong(h, r) \cup new
  BY DEF ExpertsAmong
<1>2. \A i \in r : i < m
  BY DEF IsHistory
<1>3. ASSUME NEW e \in ExpertsAmong(h, s)
      PROVE  PatternOf(h, Having(h, s, e)) =
                IF e \notin new THEN PatternsOf(h, r)[e]
                ELSE IF e \in ExpertsAmong(h, r) THEN Again(PatternsOf(h, r)[e], h[m])
                ELSE NewPattern(h[m])
  <2> DEFINE A == Having(h, r, e)
  <2>1. e \in ExpertsAmong(h, r) => PatternsOf(h, r)[e] = PatternOf(h, A)
    BY DEF PatternsOf
  <2>2. CASE e \notin new
    <3>1. Having(h, s, e) = A /\ e \in ExpertsAmong(h, r)
      BY <1>1, <2>2 DEF Having
    <3> QED
      BY <2>1, <2>2, <3>1
  <2>3. CASE e \in new /\ e \in ExpertsAmong(h, r)
    <3>1. Having(h, s, e) = A \cup {m} /\ A # {} /\ A \in SUBSET DOMAIN h /\ m \in DOMAIN h
      BY <2>3 DEF Having, ExpertsAmong
    <3>2. \A i \in A : i < m
      BY <1>2 DEF Having
    <3>3. PatternOf(h, A \cup {m}) = Again(PatternOf(h, A), h[m])
      <4> HIDE DEF A
      <4> QED
        BY <3>1, <3>2, PatternAgain
    <3> QED
      BY <2>1, <2>3, <3>1, <3>3
  <2>4. CASE e \in new /\ e \notin ExpertsAmong(h, r)
    <3>1. Having(h, s, e) = {m}
      BY <2>4 DEF Having, ExpertsAmong
    <3> QED
      BY <2>4, <3>1, PatternOfOne
  <2> QED
    BY <2>2, <2>3, <2>4
<1>4. DOMAIN PatternsOf(h, r) = ExpertsAmong(h, r)
  BY DEF PatternsOf
<1>5. PatternsOf(h, s) = [e \in ExpertsAmong(h, s) |->
                IF e \notin new THEN PatternsOf(h, r)[e]
                ELSE IF e \in ExpertsAmong(h, r) THEN Again(PatternsOf(h, r)[e], h[m])
                ELSE NewPattern(h[m])]
  BY <1>3 DEF PatternsOf
<1> QED
  BY <1>1, <1>4, <1>5 DEF AddEvent

(* The access patterns are what they are said to be.                       *)
LEMMA AccessPatternsExact ==
    ASSUME NEW h, IsHistory(h)
    PROVE  AccessPatterns(h) = PatternsOf(h, DOMAIN h)
<1> DEFINE D == DOMAIN h
<1>1. \A s \in SUBSET D : /\ IsFiniteSet(s) /\ Cardinality(s) \in Nat
                          /\ Cardinality(s) = 0 => s = {}
                          /\ s # {} => /\ Max(s) \in s /\ \A i \in s : i <= Max(s)
                                       /\ Cardinality(s \ {Max(s)}) = Cardinality(s) - 1
  <2> TAKE s \in SUBSET D
  <2>1. IsFiniteSet(D) /\ D \in SUBSET Int
    BY FS_Interval DEF IsHistory
  <2>2. IsFiniteSet(s) /\ Cardinality(s) \in Nat /\ s \in SUBSET Int
    BY <2>1, FS_Subset, FS_CardinalityType
  <2>3. s # {} => Max(s) \in s /\ \A i \in s : i <= Max(s)
    BY <2>2, MaximumExists
  <2> QED
    BY <2>2, <2>3, FS_RemoveElement, FS_EmptySet
<1>2. \A s \in SUBSET D : PatternsOf(h, s) =
         IF s = {} THEN <<>> ELSE AddEvent(PatternsOf(h, s \ {Max(s)}), h[Max(s)])
  <2> TAKE s \in SUBSET D
  <2>1. CASE s = {}
    BY <2>1 DEF PatternsOf, ExpertsAmong
  <2>2. CASE s # {}
    <3>1. PICK m \in s : m = Max(s)
      BY <1>1, <2>2
    <3>2. \A i \in s : i <= m
      BY <1>1, <2>2, <3>1
    <3> QED
      BY <2>2, <3>1, <3>2, PatternsGrow
  <2> QED
    BY <2>1, <2>2
<1>3. \E g : IsPattern(g, h)
  <2> DEFINE g == [s \in SUBSET D |-> PatternsOf(h, s)]
  <2>1. \A s \in SUBSET D : g[s \ {Max(s)}] = PatternsOf(h, s \ {Max(s)})
    OBVIOUS
  <2>2. IsPattern(g, h)
    BY <1>2, <2>1 DEF IsPattern
  <2> QED
    BY <2>2
<1>4. PICK g : IsPattern(g, h) /\ AccessPatterns(h) = g[D]
  BY <1>3, PatternsAreRecursive
<1> DEFINE Same == {n \in Nat : \A s \in SUBSET D : Cardinality(s) = n => g[s] = PatternsOf(h, s)}
<1>5. \A s \in SUBSET D : g[s] = IF s = {} THEN <<>> ELSE AddEvent(g[s \ {Max(s)}], h[Max(s)])
  BY <1>4 DEF IsPattern
<1>6. 0 \in Same
  BY <1>1, <1>2, <1>5
<1>7. ASSUME NEW n \in Nat, n \in Same
      PROVE  n + 1 \in Same
  <2> SUFFICES ASSUME NEW s \in SUBSET D, Cardinality(s) = n + 1
               PROVE  g[s] = PatternsOf(h, s)
    OBVIOUS
  <2>1. s # {}
    BY FS_EmptySet
  <2>2. Cardinality(s \ {Max(s)}) = n /\ s \ {Max(s)} \in SUBSET D
    BY <1>1, <2>1
  <2>3. g[s \ {Max(s)}] = PatternsOf(h, s \ {Max(s)})
    BY <1>7, <2>2
  <2> QED
    BY <1>2, <1>5, <2>1, <2>3
<1>8. Nat \subseteq Same
  <2> HIDE DEF Same
  <2> QED
    BY <1>6, <1>7, NatSetInduction
<1> QED
  BY <1>1, <1>4, <1>8

-----------------------------------------------------------------------------
(* No token has two events of one layer.                                   *)
OncePerLayer ==
    \A i, j \in DOMAIN collector :
        /\ TokenOf(collector[i]) = TokenOf(collector[j])
        /\ collector[i].layer = collector[j].layer
        => i = j

(* With aligned steps, the forward in progress goes on with the step of    *)
(* the predictor.                                                          *)
Continues == call.phase = "tokens" /\ call.position > 0 => call.base + call.position = step

(* With aligned steps, the history H is in the order of its steps.         *)
StepsInOrder(H) ==
    /\ \A event \in H : event.step < step
    /\ \A x, y \in H : x.step = y.step => TokenOf(x) = TokenOf(y)
    /\ \A i, j \in DOMAIN collector : i < j => collector[i].step <= collector[j].step

(* With aligned steps, the first and last step of an expert are those of   *)
(* events of H.                                                            *)
FirstAndLast(H) ==
    /\ \A event \in H : \A e \in ToSet(event.experts) :
          stats[e].first <= event.step /\ event.step <= stats[e].last
    /\ \A e \in ExpertsIn(H) :
          /\ \E event \in H : e \in ToSet(event.experts) /\ event.step = stats[e].first
          /\ \E event \in H : e \in ToSet(event.experts) /\ event.step = stats[e].last

(* When nobody but the capture observes, what is known is collected.       *)
HistoryInv ==
    /\ driver # "capture" => collector = <<>>
    /\ driver = "capture" =>
        /\ known = ExpertsIn(ToSet(collector))
        /\ OncePerLayer
        /\ Aligned => /\ StepsInOrder(ToSet(collector)) /\ FirstAndLast(ToSet(collector))
                      /\ Continues

(* The events of the token t, with the step s.                             *)
EventsOfOne(events, t, s) ==
    /\ events \in Seq(ObservedEvents) /\ events # <<>>
    /\ \A event \in ToSet(events) : TokenOf(event) = t /\ event.step = s
    /\ \A i, j \in DOMAIN events : events[i].layer = events[j].layer => i = j

(* What the predictor does with the experts of a token.                    *)
Learned(current) ==
    /\ step' = step + 1
    /\ known' = known \cup current
    /\ stats' = [e \in Experts |-> IF e \in current THEN SeenNow(e) ELSE stats[e]]

(* observe_step() adds the events of one token, one for each layer.        *)
LEMMA TokenAdded ==
    ASSUME CollectorInv, NEW id, NEW base, NEW position, NEW layers, NEW rows, NEW of,
           IsToken(id, base, position, layers, rows, of),
           ObserveToken(id, base, position, rows, of)
    PROVE  \E events : /\ EventsOfOne(events, <<id, position>>, base + position)
                       /\ collector' = collector \o events
                       /\ Learned(ExpertsIn(ToSet(events)))
<1> DEFINE place == Ascending(layers)
           n == Cardinality(layers)
<1>1. PICK events : events = EventsOf(id, base, position, rows, of)
  OBVIOUS
<1>2. /\ events \in Seq(ObservedEvents) /\ ExpertsOf(events) = ExpertsIn(ToSet(events))
      /\ \A event \in ToSet(events) : TokenOf(event) = <<id, position>>
  BY <1>1, TokenEvents
<1>3. collector' = collector \o events /\ Observe(Merged(events))
  BY <1>1 DEF ObserveToken, Merged
<1>4. Merged(events) \in Seq(Experts) /\ ToSet(Merged(events)) = ExpertsIn(ToSet(events))
  <2>1. /\ Merged(EventsOf(id, base, position, rows, of)) \in Seq(Experts)
        /\ ToSet(Merged(EventsOf(id, base, position, rows, of)))
              = ExpertsOf(EventsOf(id, base, position, rows, of))
    BY TokenExperts
  <2> QED
    BY <1>1, <1>2, <2>1
<1>5. PICK event : event = Distinct(Merged(events))
  OBVIOUS
<1>6. event \in Seq(Experts) /\ ToSet(event) = ExpertsIn(ToSet(events))
  BY <1>4, <1>5, DistinctExact
<1>7. event # <<>> /\ Learned(ToSet(event))
  BY <1>3, <1>5 DEF Observe, Learned
<1>8. events # <<>>
  <2>1. 1 \in DOMAIN event
    BY <1>6, <1>7
  <2>2. ToSet(event) # {}
    BY <2>1 DEF ToSet
  <2> QED
    BY <1>6, <2>2 DEF ExpertsIn, ToSet
<1>9. /\ DOMAIN rows = layers /\ n \in Nat /\ place \in [1 .. n -> layers]
      /\ \A i, j \in 1 .. n : i < j => place[i] < place[j]
      /\ layers \in SUBSET Nat
  <2>1. Layers \subseteq Nat /\ IsFiniteSet(Layers) /\ DOMAIN rows = layers /\ layers \subseteq Layers
    BY CaptureAssumption DEF IsToken
  <2>2. IsFiniteSet(layers)
    BY <2>1, FS_Subset
  <2>3. layers \in SUBSET Int
    BY <2>1
  <2> QED
    BY <2>1, <2>2, <2>3, AscendingExact
<1>10. events = [i \in 1 .. n |->
           [step |-> base + position, layer |-> place[i], experts |-> rows[place[i]],
            of |-> of[place[i]], call |-> id, position |-> position]]
  <2>1. DOMAIN place = 1 .. n
    BY <1>9
  <2> QED
    BY <1>1, <1>9, <2>1 DEF EventsOf
<1> HIDE DEF place, n
<1>11. \A event1 \in ToSet(events) : event1.step = base + position
  BY <1>10 DEF ToSet
<1>12. \A i, j \in DOMAIN events : events[i].layer = events[j].layer => i = j
  <2> SUFFICES ASSUME NEW i \in 1 .. n, NEW j \in 1 .. n, events[i].layer = events[j].layer
               PROVE  i = j
    BY <1>10
  <2>1. events[i].layer = place[i] /\ events[j].layer = place[j] /\ place[i] \in Nat /\ place[j] \in Nat
    BY <1>9, <1>10
  <2>2. \A k, l \in 1 .. n : k < l => place[k] # place[l]
    <3> SUFFICES ASSUME NEW k \in 1 .. n, NEW l \in 1 .. n, k < l
                 PROVE  place[k] # place[l]
      OBVIOUS
    <3>1. place[k] < place[l]
      BY <1>9
    <3>2. place[k] \in layers /\ place[l] \in layers
      BY <1>9
    <3>3. place[k] \in Nat /\ place[l] \in Nat
      BY <1>9, <3>2
    <3> QED
      BY <3>1, <3>3
  <2>3. i \in Int /\ j \in Int /\ (i < j \/ j < i \/ i = j)
    BY <1>9
  <2> QED
    BY <2>1, <2>2, <2>3
<1>13. EventsOfOne(events, <<id, position>>, base + position)
  BY <1>2, <1>8, <1>11, <1>12 DEF EventsOfOne
<1> QED
  BY <1>3, <1>6, <1>7, <1>13

(* The collector with events at its end.                                   *)
LEMMA GrownAt ==
    ASSUME NEW T, NEW c, c \in Seq(T), NEW events, events \in Seq(T), NEW d, d = c \o events
    PROVE  /\ d \in Seq(T) /\ Len(d) = Len(c) + Len(events)
           /\ DOMAIN d = 1 .. Len(d) /\ DOMAIN c = 1 .. Len(c) /\ DOMAIN events = 1 .. Len(events)
           /\ Len(c) \in Nat /\ Len(events) \in Nat
           /\ \A i \in DOMAIN c : i \in DOMAIN d /\ d[i] = c[i]
           /\ \A i \in DOMAIN d \ DOMAIN c :
                 /\ i > Len(c) /\ i - Len(c) \in DOMAIN events
                 /\ d[i] = events[i - Len(c)]
           /\ ToSet(d) = ToSet(c) \cup ToSet(events)
<1>1. /\ d \in Seq(T) /\ Len(d) = Len(c) + Len(events)
      /\ \A i \in 1 .. Len(c) + Len(events) : d[i] = IF i <= Len(c) THEN c[i] ELSE events[i - Len(c)]
  BY ConcatProperties
<1>2. ToSet(d) = ToSet(c) \cup ToSet(events)
  BY ConcatToSet
<1> QED
  BY <1>1, <1>2

(* The first and the last step of an expert that is observed.              *)
LEMMA SeenNowSteps ==
    ASSUME CountersInv, DistanceInv, NEW e \in Experts
    PROVE  /\ SeenNow(e).last = step
           /\ SeenNow(e).first = IF e \in known THEN stats[e].first ELSE step
           /\ stats[e].first \in Int /\ stats[e].last \in Int
<1>1. stats[e] \in StatsAt(step) /\ step \in Nat
  BY DEF CountersInv
<1>2. stats[e].first \in Int /\ stats[e].last \in Int
  BY <1>1 DEF StatsAt
<1>3. ASSUME NEW s, NEW now, s \in StatsAt(now)
      PROVE  Seen(s).last = step /\ Seen(s).first = s.first
  BY <1>3 DEF Seen, StatsAt
<1>4. CASE e \in known
  BY <1>1, <1>2, <1>3, <1>4 DEF SeenNow
<1>5. CASE e \notin known
  <2>1. PICK s : s = [NewStats EXCEPT !.first = step]
    OBVIOUS
  <2>2. s \in StatsAt(step) /\ s.first = step
    BY <1>1, <2>1 DEF NewStats, StatsAt
  <2>3. SeenNow(e) = Seen(s)
    BY <1>5, <2>1 DEF SeenNow
  <2> QED
    BY <1>2, <1>3, <1>5, <2>2, <2>3
<1> QED
  BY <1>4, <1>5

(* The token <<id, position>> comes after the tokens of the history H.     *)
LaterThan(H, id, position) ==
    \A t \in TokensIn(H) :
        /\ t[1] \in Nat /\ t[2] \in Nat /\ t[1] <= id
        /\ t[1] = id => t[2] < position

(* The steps are aligned with the new token only if they were before, and  *)
(* then the new token has the step of the predictor.                       *)
LEMMA AlignedBefore ==
    ASSUME CollectorInv, StepPerToken(ToSet(collector)),
           NEW id \in Nat, NEW position \in Nat, NEW s \in Nat,
           LaterThan(ToSet(collector), id, position),
           NEW events, EventsOfOne(events, <<id, position>>, s), collector' = collector \o events,
           Aligned'
    PROVE  Aligned /\ (position = 0 => s = step)
<1>a. PICK H, N, d, t : /\ H = ToSet(collector) /\ N = ToSet(events)
                        /\ d = collector' /\ t = <<id, position>>
  OBVIOUS
<1>b. t[1] = id /\ t[2] = position
  BY <1>a
<1>1. /\ collector \in Seq(ObservedEvents) /\ events \in Seq(ObservedEvents) /\ events # <<>>
      /\ d = collector \o events
      /\ \A y \in N : TokenOf(y) = t /\ y.step = s
      /\ LaterThan(H, id, position)
  BY <1>a DEF CollectorInv, EventsOfOne
<1>2. ToSet(d) = H \cup N /\ \A i \in DOMAIN collector : i \in DOMAIN d /\ d[i] = collector[i]
  <2>a. PICK c : c = collector
    OBVIOUS
  <2>e. PICK T : T = ObservedEvents
    OBVIOUS
  <2>b. c \in Seq(T)
    BY <1>1, <2>a, <2>e
  <2>d. events \in Seq(T) /\ d = c \o events
    BY <1>1, <2>a, <2>e
  <2>f. ToSet(d) = ToSet(c) \cup ToSet(events)
    BY <2>b, <2>d, ConcatToSet
  <2>g. \A i \in DOMAIN c : i \in DOMAIN d /\ d[i] = c[i]
    BY <2>b, <2>d, GrownAt
  <2>c. /\ ToSet(d) = ToSet(c) \cup ToSet(events)
        /\ \A i \in DOMAIN c : i \in DOMAIN d /\ d[i] = c[i]
    BY <2>f, <2>g
  <2>1. /\ ToSet(d) = ToSet(collector) \cup ToSet(events)
        /\ \A i \in DOMAIN collector : i \in DOMAIN d /\ d[i] = collector[i]
    BY <2>a, <2>c
  <2> QED
    BY <1>a, <2>1
<1>3. PICK x : x \in N
  <2>1. 1 \in DOMAIN events
    BY <1>1
  <2> QED
    BY <1>a, <2>1 DEF ToSet
<1>4. Tokens = TokensIn(H) /\ Tokens' = TokensIn(H) \cup {t}
  <2>1. \A c : {<<c[i].call, c[i].position>> : i \in DOMAIN c} = TokensIn(ToSet(c))
    BY DEF TokensIn, TokenOf, ToSet
  <2>2. Tokens = TokensIn(ToSet(collector)) /\ Tokens' = TokensIn(ToSet(d))
    BY <1>a, <2>1 DEF Tokens
  <2>3. TokensIn(H \cup N) = TokensIn(H) \cup {t}
    BY <1>1, <1>3 DEF TokensIn
  <2> QED
    BY <1>a, <1>2, <2>2, <2>3
<1>5. ASSUME NEW c \in Nat, c <= id
      PROVE  {u \in Tokens' : u[1] < c} = {u \in Tokens : u[1] < c}
  <2>1. ~(t[1] < c)
    BY <1>b, <1>5
  <2> QED
    BY <1>4, <2>1
<1>6. Aligned
  <2> SUFFICES ASSUME NEW i \in DOMAIN collector, collector[i].position = 0
               PROVE  collector[i].step = Cardinality({u \in Tokens : u[1] < collector[i].call})
    BY DEF Aligned
  <2>1. d[i].step = Cardinality({u \in Tokens' : u[1] < d[i].call})
    BY <1>a, <1>2 DEF Aligned
  <2>2. collector[i].call \in Nat /\ collector[i].call <= id
    <3>1. TokenOf(collector[i]) \in TokensIn(H)
      BY <1>a DEF TokensIn, ToSet
    <3>2. TokenOf(collector[i])[1] = collector[i].call
      BY DEF TokenOf
    <3> QED
      BY <1>1, <3>1, <3>2 DEF LaterThan
  <2>3. {u \in Tokens' : u[1] < collector[i].call} = {u \in Tokens : u[1] < collector[i].call}
    BY <1>5, <2>2
  <2> QED
    BY <1>2, <2>1, <2>3
<1>7. ASSUME position = 0
      PROVE  s = step
  <2>1. x \in ToSet(d) /\ TokenOf(x) = t /\ x.step = s
    BY <1>1, <1>2, <1>3
  <2>2. PICK j \in DOMAIN d : d[j] = x
    BY <2>1 DEF ToSet
  <2>3. x.call = id /\ x.position = 0
    BY <1>7, <1>a, <2>1 DEF TokenOf
  <2>4. s = Cardinality({u \in Tokens' : u[1] < id})
    BY <1>a, <2>1, <2>2, <2>3 DEF Aligned
  <2>5. {u \in Tokens' : u[1] < id} = {u \in Tokens : u[1] < id}
    BY <1>5
  <2>6. {u \in Tokens : u[1] < id} = TokensIn(H)
    <3>1. ASSUME NEW u \in TokensIn(H)
          PROVE  u[1] < id
      <4>1. u[1] \in Nat /\ u[2] \in Nat /\ u[1] <= id /\ (u[1] = id => u[2] < position)
        BY <1>1 DEF LaterThan
      <4> QED
        BY <1>7, <4>1
    <3> QED
      BY <1>4, <3>1
  <2> QED
    BY <1>a, <2>4, <2>5, <2>6 DEF StepPerToken
<1> QED
  BY <1>6, <1>7

(* Events of the collector have natural steps and known experts.           *)
LEMMA EventTyped ==
    ASSUME NEW c \in Seq(ObservedEvents), NEW event \in ToSet(c)
    PROVE  /\ event.step \in Nat /\ event.layer \in Layers /\ ToSet(event.experts) \subseteq Experts
           /\ TokenOf(event) \in Nat \X Nat
<1>1. event \in ObservedEvents
  BY DEF ToSet
<1> QED
  BY <1>1, CaptureAssumption DEF ObservedEvents, TokenOf

(* What HistoryInv says of a history grows with each token.                *)
LEMMA HistoryGrows ==
    ASSUME driver = "capture", CollectorInv, CountersInv, DistanceInv, HistoryInv,
           StepPerToken(ToSet(collector)),
           NEW id \in Nat, NEW position \in Nat, NEW s \in Nat,
           LaterThan(ToSet(collector), id, position),
           position > 0 /\ Aligned => s = step,
           NEW events, EventsOfOne(events, <<id, position>>, s),
           collector' = collector \o events, Learned(ExpertsIn(ToSet(events)))
    PROVE  /\ known' = ExpertsIn(ToSet(collector'))
           /\ OncePerLayer'
           /\ Aligned' => /\ s = step
                          /\ StepsInOrder(ToSet(collector))'
                          /\ FirstAndLast(ToSet(collector))'
<1>a. PICK H, N, c, d, t : /\ H = ToSet(collector) /\ N = ToSet(events) /\ c = collector
                           /\ d = collector' /\ t = <<id, position>>
  OBVIOUS
<1>b. t[1] = id /\ t[2] = position
  BY <1>a
<1>1. c \in Seq(ObservedEvents) /\ events \in Seq(ObservedEvents) /\ d = c \o events
  BY <1>a DEF CollectorInv, EventsOfOne
<1>2. /\ DOMAIN d = 1 .. Len(d) /\ DOMAIN c = 1 .. Len(c) /\ DOMAIN events = 1 .. Len(events)
      /\ Len(c) \in Nat /\ Len(events) \in Nat /\ Len(d) = Len(c) + Len(events)
      /\ \A i \in DOMAIN c : i \in DOMAIN d /\ d[i] = c[i]
      /\ \A i \in DOMAIN d \ DOMAIN c :
            /\ i > Len(c) /\ i - Len(c) \in DOMAIN events
            /\ d[i] = events[i - Len(c)]
  <2>1. PICK T : T = ObservedEvents
    OBVIOUS
  <2>2. c \in Seq(T)
    BY <1>1, <2>1
  <2>3. events \in Seq(T) /\ d = c \o events
    BY <1>1, <2>1
  <2> QED
    BY <2>2, <2>3, GrownAt
<1>3. ToSet(d) = H \cup N
  <2>1. ToSet(d) = ToSet(c) \cup ToSet(events)
    BY <1>1, ConcatToSet
  <2> QED
    BY <1>a, <2>1
<1>4. \A y \in N : TokenOf(y) = t /\ y.step = s
  BY <1>a DEF EventsOfOne
<1>5. t \notin TokensIn(H)
  BY <1>a, <1>b DEF LaterThan
<1>6. \A y \in H \cup N : y.step \in Nat /\ ToSet(y.experts) \subseteq Experts
  <2>1. \A y \in ToSet(c) : y.step \in Nat /\ ToSet(y.experts) \subseteq Experts
    BY <1>1, EventTyped
  <2>2. \A y \in ToSet(events) : y.step \in Nat /\ ToSet(y.experts) \subseteq Experts
    BY <1>1, EventTyped
  <2> QED
    BY <1>a, <2>1, <2>2
<1>7. known = ExpertsIn(H) /\ known' = ExpertsIn(H \cup N)
  <2>1. known = ExpertsIn(H) /\ known' = known \cup ExpertsIn(N)
    BY <1>a DEF HistoryInv, Learned
  <2>2. ExpertsIn(H \cup N) = ExpertsIn(H) \cup ExpertsIn(N)
    BY DEF ExpertsIn
  <2> QED
    BY <2>1, <2>2
<1>8. \A i \in DOMAIN c : c[i] \in H
  BY <1>a DEF ToSet
<1>9. \A i \in DOMAIN events : events[i] \in N
  BY <1>a DEF ToSet
<1>10. OncePerLayer'
  <2> SUFFICES ASSUME NEW i \in DOMAIN d, NEW j \in DOMAIN d,
                      TokenOf(d[i]) = TokenOf(d[j]), d[i].layer = d[j].layer
               PROVE  i = j
    BY <1>a DEF OncePerLayer, TokenOf
  <2>1. CASE i \in DOMAIN c /\ j \in DOMAIN c
    BY <1>2, <1>a, <2>1 DEF HistoryInv, OncePerLayer
  <2>2. CASE i \notin DOMAIN c /\ j \notin DOMAIN c
    <3>1. i - Len(c) \in DOMAIN events /\ j - Len(c) \in DOMAIN events
          /\ events[i - Len(c)].layer = events[j - Len(c)].layer
      BY <1>2, <2>2
    <3>2. i - Len(c) = j - Len(c)
      BY <3>1 DEF EventsOfOne
    <3> QED
      BY <1>2, <3>2
  <2>3. ASSUME NEW k \in DOMAIN c, NEW l \in DOMAIN d, l \notin DOMAIN c
        PROVE  TokenOf(d[k]) # TokenOf(d[l])
    <3>1. d[k] = c[k] /\ d[l] = events[l - Len(c)] /\ l - Len(c) \in DOMAIN events
      BY <1>2, <2>3
    <3>2. TokenOf(d[l]) = t
      BY <1>4, <1>9, <3>1
    <3>3. TokenOf(d[k]) \in TokensIn(H)
      BY <1>8, <3>1 DEF TokensIn
    <3> QED
      BY <1>5, <3>2, <3>3
  <2> QED
    BY <2>1, <2>2, <2>3
<1>11. ASSUME Aligned'
       PROVE  s = step /\ StepsInOrder(ToSet(collector))' /\ FirstAndLast(ToSet(collector))'
  <2>1. Aligned /\ s = step
    <3>1. Aligned /\ (position = 0 => s = step)
      BY <1>11, AlignedBefore
    <3> QED
      BY <3>1
  <2>2. StepsInOrder(H) /\ FirstAndLast(H)
    BY <1>a, <2>1 DEF HistoryInv
  <2>3. step \in Nat /\ step' = step + 1
    BY DEF CountersInv, Learned
  <2>4. StepsInOrder(ToSet(collector))'
    <3>1. \A event \in H \cup N : event.step < step + 1
      BY <1>4, <1>6, <2>1, <2>2, <2>3 DEF StepsInOrder
    <3>2. ASSUME NEW x \in H \cup N, NEW y \in H \cup N, x.step = y.step
          PROVE  TokenOf(x) = TokenOf(y)
      <4>1. \A z \in H : z.step # step
        BY <1>6, <2>2, <2>3 DEF StepsInOrder
      <4>2. \A z \in N : z.step = step /\ TokenOf(z) = t
        BY <1>4, <2>1
      <4> QED
        BY <2>2, <3>2, <4>1, <4>2 DEF StepsInOrder
    <3>3. ASSUME NEW i \in DOMAIN d, NEW j \in DOMAIN d, i < j
          PROVE  d[i].step <= d[j].step
      <4>1. CASE j \in DOMAIN c
        <5>1. i \in DOMAIN c
          BY <1>2, <3>3, <4>1
        <5>2. c[i].step <= c[j].step
          BY <1>a, <2>2, <3>3, <4>1, <5>1 DEF StepsInOrder
        <5> QED
          BY <1>2, <4>1, <5>1, <5>2
      <4>2. CASE j \notin DOMAIN c
        <5>1. d[j].step = step
          BY <1>2, <1>4, <1>9, <2>1, <4>2
        <5>2. d[i] \in H \cup N
          BY <1>3 DEF ToSet
        <5>3. d[i].step < step + 1 /\ d[i].step \in Nat
          BY <1>6, <3>1, <5>2
        <5> QED
          BY <2>3, <5>1, <5>3
      <4> QED
        BY <4>1, <4>2
    <3> QED
      BY <1>a, <1>3, <2>3, <3>1, <3>2, <3>3 DEF StepsInOrder
  <2>5. ASSUME NEW e \in Experts
        PROVE  stats'[e] = IF e \in ExpertsIn(N) THEN SeenNow(e) ELSE stats[e]
    BY <1>a, <2>5 DEF Learned
  <2>6. ASSUME NEW e \in ExpertsIn(N)
        PROVE  /\ e \in Experts /\ stats'[e].last = step
               /\ stats'[e].first = IF e \in ExpertsIn(H) THEN stats[e].first ELSE step
    <3>1. e \in Experts
      BY <1>6, <2>6 DEF ExpertsIn
    <3>2. stats'[e] = SeenNow(e)
      BY <2>5, <2>6, <3>1
    <3> QED
      BY <1>7, <3>1, <3>2, SeenNowSteps
  <2>7. ASSUME NEW e \in ExpertsIn(H)
        PROVE  /\ e \in Experts
               /\ \A event \in H : e \in ToSet(event.experts) =>
                     stats[e].first <= event.step /\ event.step <= stats[e].last /\ event.step < step
               /\ \E event \in H : e \in ToSet(event.experts) /\ event.step = stats[e].first
               /\ \E event \in H : e \in ToSet(event.experts) /\ event.step = stats[e].last
               /\ stats[e].first \in Nat /\ stats[e].first < step
    <3>1. e \in Experts
      BY <1>6, <2>7 DEF ExpertsIn
    <3>2. \A event \in H : event.step < step
      BY <2>2 DEF StepsInOrder
    <3>3. \A event \in H : e \in ToSet(event.experts) =>
                     stats[e].first <= event.step /\ event.step <= stats[e].last
      BY <2>2 DEF FirstAndLast
    <3>4. /\ \E event \in H : e \in ToSet(event.experts) /\ event.step = stats[e].first
          /\ \E event \in H : e \in ToSet(event.experts) /\ event.step = stats[e].last
      BY <2>2, <2>7 DEF FirstAndLast
    <3>5. stats[e].first \in Nat /\ stats[e].first < step
      BY <1>6, <3>2, <3>4
    <3> QED
      BY <3>1, <3>2, <3>3, <3>4, <3>5
  <2>8. ASSUME NEW event \in H \cup N, NEW e \in ToSet(event.experts)
        PROVE  stats'[e].first <= event.step /\ event.step <= stats'[e].last
    <3>1. CASE event \in N
      <4>1. e \in ExpertsIn(N) /\ event.step = step
        BY <1>4, <2>1, <3>1 DEF ExpertsIn
      <4>2. stats'[e].last = step /\ stats'[e].first = IF e \in ExpertsIn(H) THEN stats[e].first ELSE step
        BY <2>6, <4>1
      <4>3. e \in ExpertsIn(H) => stats[e].first \in Nat /\ stats[e].first < step
        BY <2>7
      <4> QED
        BY <2>3, <4>1, <4>2, <4>3
    <3>2. CASE event \in H
      <4>1. e \in ExpertsIn(H) /\ event.step \in Nat
        BY <1>6, <3>2 DEF ExpertsIn
      <4>2. e \in Experts /\ stats[e].first <= event.step /\ event.step <= stats[e].last /\ event.step < step
        BY <2>7, <3>2, <4>1
      <4>3. CASE e \in ExpertsIn(N)
        <5>1. stats'[e].last = step /\ stats'[e].first = stats[e].first
          BY <2>6, <4>1, <4>3
        <5> QED
          BY <2>3, <4>1, <4>2, <5>1
      <4>4. CASE e \notin ExpertsIn(N)
        BY <2>5, <4>2, <4>4
      <4> QED
        BY <4>3, <4>4
    <3> QED
      BY <3>1, <3>2
  <2>9. ASSUME NEW e \in ExpertsIn(H \cup N)
        PROVE  /\ \E event \in H \cup N : e \in ToSet(event.experts) /\ event.step = stats'[e].first
               /\ \E event \in H \cup N : e \in ToSet(event.experts) /\ event.step = stats'[e].last
    <3>1. CASE e \in ExpertsIn(N)
      <4>1. PICK x \in N : e \in ToSet(x.experts)
        BY <3>1 DEF ExpertsIn
      <4>2. x.step = step
        BY <1>4, <2>1
      <4>3. stats'[e].last = step /\ stats'[e].first = IF e \in ExpertsIn(H) THEN stats[e].first ELSE step
        BY <2>6, <3>1
      <4>4. e \in ExpertsIn(H) => \E event \in H : e \in ToSet(event.experts) /\ event.step = stats[e].first
        BY <2>7
      <4> QED
        BY <4>1, <4>2, <4>3, <4>4
    <3>2. CASE e \notin ExpertsIn(N)
      <4>1. e \in ExpertsIn(H)
        BY <2>9, <3>2 DEF ExpertsIn
      <4>2. e \in Experts /\ stats'[e] = stats[e]
        BY <2>5, <2>7, <3>2, <4>1
      <4> QED
        BY <2>7, <4>1, <4>2
    <3> QED
      BY <3>1, <3>2
  <2>10. FirstAndLast(ToSet(collector))'
    BY <1>a, <1>3, <2>8, <2>9 DEF FirstAndLast
  <2> QED
    BY <2>1, <2>4, <2>10
<1> QED
  BY <1>a, <1>3, <1>7, <1>10, <1>11

(* A step that observes nothing keeps the history.                         *)
LEMMA HistoryKept ==
    ASSUME HistoryInv, UNCHANGED <<driver, collector, step, stats, known>>,
           call'.phase = "tokens" /\ call'.position > 0 => call' = call
    PROVE  HistoryInv'
<1>1. Aligned' => Aligned
  BY DEF Aligned, Tokens
<1>2. Continues => Continues'
  BY DEF Continues
<1>3. StepsInOrder(ToSet(collector)) => StepsInOrder(ToSet(collector))'
  BY DEF StepsInOrder
<1>4. FirstAndLast(ToSet(collector)) => FirstAndLast(ToSet(collector))'
  BY DEF FirstAndLast
<1>5. OncePerLayer => OncePerLayer'
  BY DEF OncePerLayer
<1> QED
  BY <1>1, <1>2, <1>3, <1>4, <1>5 DEF HistoryInv

(* The next token of a forward goes on with the step of the predictor.     *)
LEMMA HistoryStep ==
    ASSUME HooksInv, RowsInv, CollectorInv, CountersInv, DistanceInv, TokenInv, HistoryInv,
           [CaptureNext]_allVars
    PROVE  HistoryInv'
<1>1. CASE UNCHANGED allVars
  BY <1>1, HistoryKept DEF allVars, captureVars, vars, predictorVars
<1>2. CASE driver # "capture" /\ ~UNCHANGED allVars
  BY <1>2 DEF HistoryInv, CaptureNext, captureVars
<1> SUFFICES ASSUME driver = "capture", CaptureStep, driver' = driver
             PROVE  HistoryInv'
  BY <1>1, <1>2 DEF CaptureNext
<1>3. /\ WholeTokens(ToSet(collector), calls) /\ StepPerToken(ToSet(collector))
      /\ TokensSoFar(ToSet(collector)) /\ calls \in Nat /\ calls + 1 \in Nat
  BY DEF TokenInv, CollectorInv
<1>4. ASSUME NEW id \in Nat, NEW base \in Int, NEW position \in Nat, NEW layers \in SUBSET Layers,
             NEW rows \in [layers -> Rows], NEW of, \A l \in layers : of[l] = id,
             Accepted(base, position, rows), ObserveToken(id, base, position, rows, of),
             LaterThan(ToSet(collector), id, position),
             position > 0 => base + position = step \/ ~Aligned,
             call'.phase = "tokens" /\ call'.position > 0 =>
                call'.base = base /\ call'.position = position + 1
      PROVE  HistoryInv'
  <2>1. PICK s : s = base + position
    OBVIOUS
  <2>2. s \in Nat
    BY <1>4, <2>1 DEF Accepted
  <2>3. IsToken(id, base, position, layers, rows, of)
    BY <1>4 DEF IsToken
  <2>4. PICK events : /\ EventsOfOne(events, <<id, position>>, base + position)
                      /\ collector' = collector \o events
                      /\ Learned(ExpertsIn(ToSet(events)))
    BY <1>4, <2>3, TokenAdded
  <2>5. EventsOfOne(events, <<id, position>>, s)
    BY <2>1, <2>4
  <2>6. position > 0 /\ Aligned => s = step
    BY <1>4, <2>1
  <2>7. /\ known' = ExpertsIn(ToSet(collector'))
        /\ OncePerLayer'
        /\ Aligned' => /\ s = step
                       /\ StepsInOrder(ToSet(collector))'
                       /\ FirstAndLast(ToSet(collector))'
    BY <1>3, <1>4, <2>2, <2>4, <2>5, <2>6, HistoryGrows
  <2>8. Aligned' => Continues'
    <3>1. step \in Nat /\ step' = step + 1
      BY <2>4 DEF Learned, CountersInv
    <3> QED
      BY <1>4, <2>1, <2>7, <3>1 DEF Continues
  <2> QED
    BY <2>7, <2>8 DEF HistoryInv
<1>5. CASE BridgeObserves
  <2>1. /\ calls' = calls + 1 /\ call' = call /\ call = Idle
        /\ \E base \in CallerSteps, layers \in SUBSET Layers : \E rows \in [layers -> Rows] :
              /\ Accepted(base, 0, rows)
              /\ ObserveToken(calls + 1, base, 0, rows, [l \in layers |-> calls + 1])
    BY <1>5 DEF BridgeObserves
  <2>2. PICK base \in CallerSteps, layers \in SUBSET Layers : \E rows \in [layers -> Rows] :
           /\ Accepted(base, 0, rows)
           /\ ObserveToken(calls + 1, base, 0, rows, [l \in layers |-> calls + 1])
    BY <2>1
  <2>3. PICK rows \in [layers -> Rows] :
           /\ Accepted(base, 0, rows)
           /\ ObserveToken(calls + 1, base, 0, rows, [l \in layers |-> calls + 1])
    BY <2>2
  <2>4. PICK id, of, position : /\ id = calls + 1 /\ of = [l \in layers |-> calls + 1]
                                /\ position = 0
    OBVIOUS
  <2>5. /\ base \in Int /\ id \in Nat /\ position \in Nat /\ \A l \in layers : of[l] = id
        /\ ObserveToken(id, base, position, rows, of) /\ Accepted(base, position, rows)
    BY <1>3, <2>3, <2>4, CaptureAssumption
  <2>6. LaterThan(ToSet(collector), id, position)
    BY <1>3, <2>4 DEF LaterThan, WholeTokens
  <2>7. call'.phase # "tokens" /\ ~(position > 0)
    BY <2>1, <2>4 DEF Idle
  <2> QED
    BY <1>4, <2>5, <2>6, <2>7
<1>6. CASE TokenObserved
  <2>1. /\ call.phase = "tokens" /\ UNCHANGED calls
        /\ call # Idle /\ call.base \in Int /\ call.position \in Nat
    BY <1>6 DEF TokenObserved, HooksInv
  <2>2. CASE UNCHANGED <<predictorVars, collector>> /\ Finish
    <3>1. call' = Idle /\ UNCHANGED <<collector, step, stats, known>>
      BY <2>2 DEF Finish, predictorVars
    <3> QED
      BY <3>1, HistoryKept DEF Idle
  <2>3. ASSUME NEW rows \in [DOMAIN captured -> Rows], Accepted(call.base, call.position, rows),
               ObserveToken(calls, call.base, call.position, rows, [l \in DOMAIN captured |-> captured[l].of]),
               call' = [call EXCEPT !.position = @ + 1] \/ call' = Idle
        PROVE  HistoryInv'
    <3>1. PICK id, of, layers, base, position :
               /\ id = calls /\ of = [l \in DOMAIN captured |-> captured[l].of]
               /\ layers = DOMAIN captured
               /\ base = call.base /\ position = call.position
      OBVIOUS
    <3>2. layers \in SUBSET Layers /\ \A l \in layers : of[l] = id
      BY <2>1, <3>1 DEF RowsInv, CollectorInv
    <3>3. /\ base \in Int /\ id \in Nat /\ position \in Nat /\ rows \in [layers -> Rows]
          /\ ObserveToken(id, base, position, rows, of) /\ Accepted(base, position, rows)
      BY <1>3, <2>1, <2>3, <3>1
    <3>4. LaterThan(ToSet(collector), id, position)
      <4>1. \A t \in TokensIn(ToSet(collector)) : t[1] \in 1 .. calls /\ t[2] \in Nat
        BY <1>3 DEF WholeTokens
      <4>2. \A t \in TokensIn(ToSet(collector)) : t[1] = calls => t[2] < call.position
        BY <1>3, <2>1 DEF TokensSoFar
      <4> QED
        BY <3>1, <1>3, <4>1, <4>2 DEF LaterThan
    <3>5. position > 0 => base + position = step \/ ~Aligned
      BY <2>1, <3>1 DEF HistoryInv, Continues
    <3>6. call'.phase = "tokens" /\ call'.position > 0 =>
             call'.base = base /\ call'.position = position + 1
      BY <2>1, <2>3, <3>1 DEF HooksInv, Idle
    <3> QED
      BY <1>4, <3>2, <3>3, <3>4, <3>5, <3>6
  <2> QED
    BY <1>6, <2>2, <2>3 DEF TokenObserved, Finish
<1>7. CASE RemoveHooks \/ ClearCaptured \/ PlainForward \/ \E m \in Models : Install(m)
  <2>1. call' = call /\ UNCHANGED <<collector, step, stats, known>>
    BY <1>7 DEF RemoveHooks, ClearCaptured, PlainForward, Install, vars, predictorVars
  <2> QED
    BY <2>1, HistoryKept
<1>8. ASSUME NEW m \in Models, NEW base \in CallerSteps, NEW n \in 1 .. MaxTokens, Begin(m, base, n)
      PROVE  HistoryInv'
  <2>1. /\ UNCHANGED <<collector, step, stats, known>>
        /\ call'.phase # "tokens"
    BY <1>8 DEF Begin, vars, predictorVars, Idle
  <2> QED
    BY <2>1, HistoryKept
<1>9. CASE GateRuns \/ ForwardReturns \/ ForwardRaises
  <2>1. /\ call.phase = "forward" /\ UNCHANGED <<collector, step, stats, known>>
        /\ call # Idle
    BY <1>9 DEF GateRuns, ForwardReturns, ForwardRaises, HooksInv, vars, predictorVars
  <2>2. call.position = 0
    BY <1>3, <2>1 DEF TokensSoFar
  <2>3. call'.phase = "tokens" => ~(call'.position > 0)
    BY <1>9, <2>1, <2>2 DEF GateRuns, NextGate, ForwardReturns, ForwardRaises, Finish, HooksInv, Idle
  <2> QED
    BY <2>1, <2>3, HistoryKept
<1> QED
  BY <1>5, <1>6, <1>7, <1>8, <1>9 DEF CaptureStep

(* The history of a capture: no layer twice for a token, and, when callers *)
(* number their steps by the tokens before, in the order of the steps      *)
(* (integration.py:51-160, 289-301).                                       *)
THEOREM HistoryInvariance == CaptureSpec => []HistoryInv
<1>1. CaptureInit => HistoryInv
  <2> SUFFICES ASSUME CaptureInit
               PROVE  HistoryInv
    OBVIOUS
  <2>1. collector = <<>> /\ known = {} /\ call = Idle
    BY DEF CaptureInit, Init, PredictorInit
  <2>2. ToSet(collector) = {} /\ DOMAIN collector = {}
    BY <2>1 DEF ToSet
  <2> QED
    BY <2>1, <2>2 DEF HistoryInv, OncePerLayer, StepsInOrder, FirstAndLast, Continues, Idle, ExpertsIn
<1>2. /\ HistoryInv /\ TokenInv /\ CountersInv /\ DistanceInv /\ HooksInv /\ RowsInv /\ CollectorInv
      /\ [CaptureNext]_allVars
      => HistoryInv'
  BY HistoryStep
<1> QED
  BY <1>1, <1>2, CaptureInvariance, CollectorInvariance, CountersInvariance, TokenInvariance, PTL
     DEF CaptureSpec

(* The events of the history h with the expert e.                          *)
Accesses(h, e) == Having(h, DOMAIN h, e)

(* The experts of a history are those that its patterns are of.            *)
LEMMA HistoryTyped ==
    ASSUME NEW h \in Seq(ObservedEvents)
    PROVE  /\ IsHistory(h) /\ IsFiniteSet(DOMAIN h) /\ DOMAIN h \subseteq Nat
           /\ DOMAIN AccessPatterns(h) = ExpertsOf(h)
           /\ ExpertsOf(h) \subseteq Experts /\ IsFiniteSet(ExpertsOf(h))
           /\ \A e \in ExpertsOf(h) :
                 /\ AccessPatterns(h)[e] = PatternOf(h, Accesses(h, e))
                 /\ Accesses(h, e) # {} /\ Accesses(h, e) \subseteq DOMAIN h
                 /\ IsFiniteSet(Accesses(h, e))
           /\ \A i \in DOMAIN h : /\ h[i].step \in Nat /\ h[i].layer \in Layers
                                  /\ h[i].experts \in Seq(Experts) /\ ValidRow(h[i].experts)
<1>1. Len(h) \in Nat /\ DOMAIN h = 1 .. Len(h) /\ IsFiniteSet(1 .. Len(h))
  BY FS_Interval
<1>2. \A i \in DOMAIN h : /\ h[i].step \in Nat /\ h[i].layer \in Layers
                          /\ h[i].experts \in Seq(Experts) /\ ValidRow(h[i].experts)
  <2> SUFFICES ASSUME NEW i \in DOMAIN h
               PROVE  /\ h[i].step \in Nat /\ h[i].layer \in Layers
                      /\ h[i].experts \in Seq(Experts) /\ ValidRow(h[i].experts)
    OBVIOUS
  <2>1. h[i] \in ObservedEvents
    OBVIOUS
  <2>2. /\ h[i].step \in Nat /\ h[i].layer \in Layers /\ h[i].experts \in Rows
        /\ ValidRow(h[i].experts)
    BY <2>1 DEF ObservedEvents
  <2>3. PICK row : row = h[i].experts
    OBVIOUS
  <2>4. row \in Seq(Int) /\ ToSet(row) \subseteq Experts
    BY <2>2, <2>3, CaptureAssumption
  <2>5. \A j \in 1 .. Len(row) : row[j] \in Experts
    BY <2>4 DEF ToSet
  <2>6. row \in Seq(Experts)
    BY <2>4, <2>5
  <2> QED
    BY <2>2, <2>3, <2>6
<1>3. IsHistory(h)
  BY <1>1, <1>2 DEF IsHistory
<1>4. AccessPatterns(h) = PatternsOf(h, DOMAIN h)
  BY <1>3, AccessPatternsExact
<1>5. ExpertsAmong(h, DOMAIN h) = ExpertsOf(h)
  BY DEF ExpertsAmong, ExpertsOf
<1>6. ExpertsOf(h) \subseteq Experts
  BY <1>2 DEF ExpertsOf, ToSet
<1>7. IsFiniteSet(ExpertsOf(h))
  BY <1>6, FS_Subset, PredictorAssumption
<1>8. ASSUME NEW e \in ExpertsOf(h)
      PROVE  /\ Accesses(h, e) # {} /\ Accesses(h, e) \subseteq DOMAIN h
             /\ IsFiniteSet(Accesses(h, e))
  <2>1. Accesses(h, e) # {} /\ Accesses(h, e) \subseteq DOMAIN h
    BY <1>8 DEF Accesses, Having, ExpertsOf
  <2> QED
    BY <1>1, <2>1, FS_Subset
<1>9. /\ DOMAIN PatternsOf(h, DOMAIN h) = ExpertsOf(h)
      /\ \A e \in ExpertsOf(h) : PatternsOf(h, DOMAIN h)[e] = PatternOf(h, Accesses(h, e))
  BY <1>5 DEF PatternsOf, Accesses
<1> QED
  BY <1>1, <1>2, <1>3, <1>4, <1>6, <1>7, <1>8, <1>9

(* An expert is accessed once per layer of the tokens that chose it.       *)
LEMMA AccessesCounted ==
    ASSUME NEW h \in Seq(ObservedEvents), NEW e \in ExpertsOf(h), IsFiniteSet(TokensWith(ToSet(h), e)),
           \A i, j \in DOMAIN h : /\ TokenOf(h[i]) = TokenOf(h[j])
                                  /\ h[i].layer = h[j].layer
                                  => i = j
    PROVE  /\ Cardinality(TokensWith(ToSet(h), e)) <= Cardinality(Accesses(h, e))
           /\ Cardinality(Accesses(h, e)) <= Cardinality(TokensWith(ToSet(h), e))
                                               * Cardinality({h[i].layer : i \in Accesses(h, e)})
<1>1. PICK S, W, L : /\ S = Accesses(h, e) /\ W = TokensWith(ToSet(h), e)
                     /\ L = {h[i].layer : i \in S}
  OBVIOUS
<1>2. IsFiniteSet(S) /\ S \subseteq DOMAIN h
  BY <1>1, HistoryTyped
<1>3. W = {TokenOf(h[i]) : i \in S}
  BY <1>1 DEF TokensWith, TokensIn, ExpertsIn, At, ToSet, Accesses, Having
<1>4. Cardinality(W) <= Cardinality(S)
  <2>1. PICK f : f = [i \in S |-> TokenOf(h[i])]
    OBVIOUS
  <2>2. W = {f[i] : i \in S}
    BY <1>3, <2>1
  <2> QED
    BY <1>2, <2>2, ImageCounted
<1>5. IsFiniteSet(L)
  <2>1. PICK f : f = [i \in S |-> h[i].layer]
    OBVIOUS
  <2>2. L = {f[i] : i \in S}
    BY <1>1, <2>1
  <2> QED
    BY <1>2, <2>2, ImageCounted
<1>6. Cardinality(S) <= Cardinality(W) * Cardinality(L)
  <2>1. PICK g : g = [i \in S |-> <<TokenOf(h[i]), h[i].layer>>]
    OBVIOUS
  <2>2. PICK P : P = {g[i] : i \in S}
    OBVIOUS
  <2>3. \A i, j \in S : g[i] = g[j] => i = j
    BY <1>2, <2>1
  <2>4. Cardinality(P) = Cardinality(S)
    <3>1. IsFiniteSet(S)
      BY <1>2
    <3> QED
      BY <2>2, <2>3, <3>1, InjectiveImage
  <2>5. P \subseteq W \X L
    BY <1>1, <1>3, <2>1, <2>2
  <2>6. IsFiniteSet(W)
    BY <1>1
  <2>7. IsFiniteSet(W \X L) /\ Cardinality(W \X L) = Cardinality(W) * Cardinality(L)
    BY <1>5, <2>6, FS_Product
  <2>8. Cardinality(P) <= Cardinality(W \X L)
    BY <2>5, <2>7, FS_Subset
  <2> QED
    BY <2>4, <2>7, <2>8
<1> QED
  BY <1>1, <1>4, <1>6

(* An expert has at most one successor per access, as a row has no expert  *)
(* twice.                                                                  *)
LEMMA SuccessorsCounted ==
    ASSUME NEW h \in Seq(ObservedEvents), NEW e \in ExpertsOf(h)
    PROVE  /\ TotalsFrom(TransitionCounts(h))[e] <= Cardinality(Accesses(h, e))
           /\ TotalsFrom(TransitionCounts(h))[e] \in Nat
           /\ \A x \in ExpertsOf(h) :
                 /\ TransitionCounts(h)[e][x] \in Nat
                 /\ TransitionCounts(h)[e][x] <= TotalsFrom(TransitionCounts(h))[e]
<1>1. PICK E, D : E = ExpertsOf(h) /\ D = DOMAIN h
  OBVIOUS
<1>2. IsFiniteSet(E) /\ IsFiniteSet(D)
  BY <1>1, HistoryTyped
<1>3. PICK A : A = [x \in E |-> {i \in D : Follows(h[i].experts, e, x)}]
  OBVIOUS
<1>4. PICK f : f = [x \in E |-> Cardinality(A[x])]
  OBVIOUS
<1>5. TransitionCounts(h)[e] = f
  <2>1. TransitionCounts(h) = [p \in E |-> [x \in E |-> Cardinality({i \in D : Follows(h[i].experts, p, x)})]]
    BY <1>1 DEF TransitionCounts
  <2> QED
    BY <1>1, <1>3, <1>4, <2>1
<1>6. TotalsFrom(TransitionCounts(h))[e] = SumFunctionOnSet(f, E)
  <2>1. DOMAIN TransitionCounts(h) = E
    BY <1>1 DEF TransitionCounts
  <2>2. TotalsFrom(TransitionCounts(h))[e] = SumFunction(f)
    BY <1>1, <1>5, <2>1 DEF TotalsFrom
  <2>3. DOMAIN f = E
    BY <1>4
  <2> QED
    BY <2>2, <2>3, SumIsOverDomain
<1>7. \A x, y \in E : x # y => A[x] \cap A[y] = {}
  <2> SUFFICES ASSUME NEW x \in E, NEW y \in E, NEW i \in D,
                      Follows(h[i].experts, e, x), Follows(h[i].experts, e, y)
               PROVE  x = y
    BY <1>3
  <2>1. PICK row : row = h[i].experts
    OBVIOUS
  <2>2. row \in Seq(Experts) /\ IsInjective(row)
    BY <1>1, <2>1, HistoryTyped DEF ValidRow
  <2>3. PICK j \in 1 .. Len(row) - 1 : row[j] = e /\ row[j + 1] = x
    BY <2>1 DEF Follows
  <2>4. PICK k \in 1 .. Len(row) - 1 : row[k] = e /\ row[k + 1] = y
    BY <2>1 DEF Follows
  <2>5. j \in DOMAIN row /\ k \in DOMAIN row
    BY <2>2
  <2>6. j = k
    BY <2>2, <2>3, <2>4, <2>5 DEF IsInjective
  <2> QED
    BY <2>3, <2>4, <2>6
<1>8. PICK U : U = UNION {A[x] : x \in E}
  OBVIOUS
<1>9. SumFunctionOnSet(f, E) = Cardinality(U)
  <2>1. A \in [E -> SUBSET D] /\ \A x \in E : f[x] = Cardinality(A[x])
    BY <1>3, <1>4
  <2> QED
    BY <1>2, <1>7, <1>8, <2>1, DisjointSum
<1>10. U \subseteq Accesses(h, e)
  <2> SUFFICES ASSUME NEW i \in D, NEW x \in E, Follows(h[i].experts, e, x)
               PROVE  i \in Accesses(h, e)
    BY <1>3, <1>8
  <2>1. PICK row : row = h[i].experts
    OBVIOUS
  <2>2. row \in Seq(Experts)
    BY <1>1, <2>1, HistoryTyped
  <2>3. PICK j \in 1 .. Len(row) - 1 : row[j] = e
    BY <2>1 DEF Follows
  <2>4. j \in DOMAIN row
    BY <2>2
  <2>5. e \in ToSet(row)
    BY <2>3, <2>4 DEF ToSet
  <2> QED
    BY <1>1, <2>1, <2>5 DEF Accesses, Having
<1>11. Cardinality(U) <= Cardinality(Accesses(h, e)) /\ Cardinality(U) \in Nat
  <2>1. IsFiniteSet(Accesses(h, e))
    BY HistoryTyped
  <2>2. IsFiniteSet(U) /\ Cardinality(U) <= Cardinality(Accesses(h, e))
    BY <1>10, <2>1, FS_Subset
  <2> QED
    BY <2>2, FS_CardinalityType
<1>12. ASSUME NEW x \in E
       PROVE  f[x] \in Nat /\ f[x] <= Cardinality(U)
  <2>1. A[x] \subseteq U /\ f[x] = Cardinality(A[x])
    BY <1>4, <1>8
  <2>2. IsFiniteSet(U)
    BY <1>10, FS_Subset, HistoryTyped
  <2>3. IsFiniteSet(A[x]) /\ Cardinality(A[x]) <= Cardinality(U)
    BY <2>1, <2>2, FS_Subset
  <2> QED
    BY <2>1, <2>3, FS_CardinalityType
<1> QED
  BY <1>1, <1>5, <1>6, <1>9, <1>11, <1>12

(* With aligned steps, the first and last step of the accesses of an       *)
(* expert are those of the predictor.                                      *)
LEMMA FirstAndLastAgree ==
    ASSUME collector \in Seq(ObservedEvents), NEW e \in ExpertsOf(collector),
           StepsInOrder(ToSet(collector)), FirstAndLast(ToSet(collector))
    PROVE  /\ PatternOf(collector, Accesses(collector, e)).first = stats[e].first
           /\ PatternOf(collector, Accesses(collector, e)).last = stats[e].last
<1>1. PICK h, H, S : h = collector /\ H = ToSet(h) /\ S = Accesses(h, e)
  OBVIOUS
<1>2. /\ S # {} /\ S \subseteq DOMAIN h /\ DOMAIN h \subseteq Nat
      /\ \A i \in DOMAIN h : h[i].step \in Nat
  <2>1. h \in Seq(ObservedEvents) /\ e \in ExpertsOf(h)
    BY <1>1
  <2> QED
    BY <1>1, <2>1, HistoryTyped
<1>3. \A i \in S : h[i] \in H /\ e \in ToSet(h[i].experts)
  BY <1>1 DEF Accesses, Having, ToSet
<1>4. \A i \in S : stats[e].first <= h[i].step /\ h[i].step <= stats[e].last
  BY <1>1, <1>3 DEF FirstAndLast
<1>5. \A x \in H : e \in ToSet(x.experts) => \E i \in S : h[i] = x
  BY <1>1 DEF Accesses, Having, ToSet
<1>6. e \in ExpertsIn(H)
  BY <1>2, <1>3 DEF ExpertsIn
<1>7. PICK j \in S : h[j].step = stats[e].first
  BY <1>1, <1>5, <1>6 DEF FirstAndLast
<1>8. PICK k \in S : h[k].step = stats[e].last
  BY <1>1, <1>5, <1>6 DEF FirstAndLast
<1>9. h[Min(S)].step = stats[e].first
  <2>1. PICK m : m = Min(S)
    OBVIOUS
  <2>2. S \in SUBSET Nat
    BY <1>2
  <2>3. m \in S /\ m <= j
    BY <1>2, <2>1, <2>2, MinimumExists
  <2>4. h[m].step <= h[j].step
    <3>1. CASE m = j
      BY <1>2, <3>1
    <3>2. CASE m # j
      <4>1. m < j /\ m \in DOMAIN h /\ j \in DOMAIN h
        BY <1>2, <2>3, <3>2
      <4> QED
        BY <1>1, <4>1 DEF StepsInOrder
    <3> QED
      BY <3>1, <3>2
  <2>5. stats[e].first <= h[m].step
    BY <1>4, <2>3
  <2>6. h[m].step \in Nat /\ h[j].step \in Nat
    BY <1>2, <2>3
  <2>7. h[m].step = stats[e].first
    BY <1>7, <2>4, <2>5, <2>6
  <2> QED
    BY <2>1, <2>7
<1>10. Max({h[i].step : i \in S}) = stats[e].last
  <2>1. PICK T, l : T = {h[i].step : i \in S} /\ l = h[k].step
    OBVIOUS
  <2>2. T \in SUBSET Int /\ l \in T
    BY <1>2, <2>1
  <2>3. \A y \in T : y <= l
    BY <1>4, <1>8, <2>1
  <2>4. Max(T) = l
    BY <2>2, <2>3, MaximumIs
  <2> QED
    BY <1>8, <2>1, <2>4
<1> QED
  BY <1>1, <1>9, <1>10 DEF PatternOf

(* With aligned steps, a step has one event per layer.                     *)
LEMMA StepsAgree ==
    ASSUME collector \in Seq(ObservedEvents), StepsInOrder(ToSet(collector)), OncePerLayer, NEW s
    PROVE  Cardinality(ToSet(ByStep(collector, s))) =
              Cardinality({l \in Layers : \E i \in DOMAIN collector :
                              collector[i].layer = l /\ collector[i].step = s})
<1>1. PICK h, S : h = collector /\ S = {i \in DOMAIN h : h[i].step = s}
  OBVIOUS
<1>2. PICK f, g, A, B : /\ f = [i \in S |-> h[i]] /\ g = [i \in S |-> h[i].layer]
                        /\ A = {f[i] : i \in S} /\ B = {g[i] : i \in S}
  OBVIOUS
<1>3. /\ h \in Seq(ObservedEvents) /\ S \in SUBSET DOMAIN h /\ IsFiniteSet(DOMAIN h)
      /\ \A i \in DOMAIN h : h[i].layer \in Layers
  <2>1. h \in Seq(ObservedEvents) /\ S \in SUBSET DOMAIN h
    BY <1>1
  <2> QED
    BY <2>1, HistoryTyped
<1>4. IsFiniteSet(S)
  BY <1>3, FS_Subset
<1>5. \A i, j \in S : h[i].layer = h[j].layer => i = j
  <2> SUFFICES ASSUME NEW i \in S, NEW j \in S, h[i].layer = h[j].layer
               PROVE  i = j
    OBVIOUS
  <2>1. h[i] \in ToSet(h) /\ h[j] \in ToSet(h) /\ h[i].step = h[j].step
    BY <1>1 DEF ToSet
  <2>2. TokenOf(h[i]) = TokenOf(h[j])
    BY <1>1, <2>1 DEF StepsInOrder
  <2> QED
    BY <1>1, <2>2 DEF OncePerLayer
<1>6. \A i, j \in S : f[i] = f[j] => i = j
  BY <1>2, <1>5
<1>7. \A i, j \in S : g[i] = g[j] => i = j
  BY <1>2, <1>5
<1>8. Cardinality(A) = Cardinality(S)
  BY <1>2, <1>4, <1>6, InjectiveImage
<1>9. Cardinality(B) = Cardinality(S)
  BY <1>2, <1>4, <1>7, InjectiveImage
<1>10. ToSet(ByStep(h, s)) = A
  <2>1. ToSet(SubSequence(h, S)) = {h[i] : i \in S}
    BY <1>3, SubSequenceExact
  <2> QED
    BY <1>1, <1>2, <2>1 DEF ByStep
<1>11. {l \in Layers : \E i \in DOMAIN h : h[i].layer = l /\ h[i].step = s} = B
  BY <1>1, <1>2, <1>3
<1> QED
  BY <1>1, <1>8, <1>9, <1>10, <1>11

(* The history that is analysed later and the predictor that learns at     *)
(* once tell the same (access_pattern.py:42-78, transition.py:33-76,       *)
(* integration.py:296-301, predictor.py:93-206).                           *)
THEOREM HistoryAgrees == CaptureSpec => []HistoryAgreesWithPredictor
<1>1. ASSUME CollectorInv, TokenInv, HistoryInv
      PROVE  HistoryAgreesWithPredictor
  <2> SUFFICES ASSUME driver = "capture"
               PROVE  HistoryAgreesWithPredictor
    BY DEF HistoryAgreesWithPredictor
  <2>1. PICK h, H, patterns, sums :
           /\ h = collector /\ H = ToSet(h)
           /\ patterns = AccessPatterns(h) /\ sums = TotalsFrom(TransitionCounts(h))
    OBVIOUS
  <2>2. h \in Seq(ObservedEvents)
    BY <1>1, <2>1 DEF CollectorInv
  <2>3. known = ExpertsOf(h)
    <3>1. known = ExpertsIn(ToSet(h))
      BY <1>1, <2>1 DEF HistoryInv
    <3> QED
      BY <3>1 DEF ExpertsIn, ExpertsOf, ToSet
  <2>4. DOMAIN patterns = known
    BY <2>1, <2>2, <2>3, HistoryTyped
  <2>5. ASSUME NEW e \in known
        PROVE  /\ stats[e].frequency <= patterns[e].count
               /\ patterns[e].count <= stats[e].frequency * Cardinality(patterns[e].layers)
               /\ sums[e] <= patterns[e].count
               /\ Len(ByExpert(h, e)) = patterns[e].count
    <3>1. PICK S : S = Accesses(h, e)
      OBVIOUS
    <3>2. e \in ExpertsOf(h) /\ e \in Experts /\ patterns[e] = PatternOf(h, S) /\ S \subseteq DOMAIN h
      BY <2>1, <2>2, <2>3, <3>1, HistoryTyped
    <3>3. patterns[e].count = Cardinality(S) /\ patterns[e].layers = {h[i].layer : i \in S}
      BY <3>2 DEF PatternOf
    <3>4. stats[e].frequency = Cardinality(TokensWith(H, e))
      BY <1>1, <2>1, <3>2 DEF TokenInv, StepPerToken
    <3>5. IsFiniteSet(TokensWith(ToSet(h), e))
      <4>1. IsFiniteSet(TokensIn(H))
        BY <1>1, <2>1 DEF TokenInv, StepPerToken
      <4>2. TokensWith(H, e) \subseteq TokensIn(H)
        BY DEF TokensWith
      <4> QED
        BY <2>1, <4>1, <4>2, FS_Subset
    <3>6. \A i, j \in DOMAIN h : TokenOf(h[i]) = TokenOf(h[j]) /\ h[i].layer = h[j].layer => i = j
      BY <1>1, <2>1 DEF HistoryInv, OncePerLayer
    <3>7. /\ Cardinality(TokensWith(ToSet(h), e)) <= Cardinality(Accesses(h, e))
          /\ Cardinality(Accesses(h, e)) <= Cardinality(TokensWith(ToSet(h), e))
                                               * Cardinality({h[i].layer : i \in Accesses(h, e)})
      BY <2>2, <3>2, <3>5, <3>6, AccessesCounted
    <3>8. sums[e] <= Cardinality(S)
      BY <2>1, <2>2, <3>1, <3>2, SuccessorsCounted
    <3>9. Len(ByExpert(h, e)) = Cardinality(S)
      <4>1. ByExpert(h, e) = SubSequence(h, S)
        BY <3>1 DEF ByExpert, Accesses, Having
      <4>2. S \in SUBSET DOMAIN h
        BY <3>2
      <4> QED
        BY <2>2, <4>1, <4>2, SubSequenceExact
    <3> QED
      BY <2>1, <3>1, <3>3, <3>4, <3>7, <3>8, <3>9
  <2>6. ASSUME Aligned
        PROVE  /\ \A e \in known : patterns[e].first = stats[e].first /\ patterns[e].last = stats[e].last
               /\ \A s \in 0 .. step : Cardinality(ToSet(ByStep(h, s))) =
                     Cardinality({l \in Layers : \E i \in DOMAIN h : h[i].layer = l /\ h[i].step = s})
    <3>1. StepsInOrder(ToSet(collector)) /\ FirstAndLast(ToSet(collector)) /\ OncePerLayer
      BY <1>1, <2>6 DEF HistoryInv
    <3>2. ASSUME NEW e \in known
          PROVE  patterns[e].first = stats[e].first /\ patterns[e].last = stats[e].last
      <4>1. e \in ExpertsOf(h) /\ patterns[e] = PatternOf(h, Accesses(h, e))
        BY <2>1, <2>2, <2>3, HistoryTyped
      <4>2. /\ PatternOf(collector, Accesses(collector, e)).first = stats[e].first
            /\ PatternOf(collector, Accesses(collector, e)).last = stats[e].last
        BY <2>1, <2>2, <3>1, <4>1, FirstAndLastAgree
      <4> QED
        BY <2>1, <4>1, <4>2
    <3>3. \A s \in 0 .. step : Cardinality(ToSet(ByStep(h, s))) =
             Cardinality({l \in Layers : \E i \in DOMAIN h : h[i].layer = l /\ h[i].step = s})
      BY <2>1, <2>2, <3>1, StepsAgree
    <3> QED
      BY <3>2, <3>3
  <2> QED
    BY <2>1, <2>4, <2>5, <2>6 DEF HistoryAgreesWithPredictor
<1> QED
  BY <1>1, CollectorInvariance, TokenInvariance, HistoryInvariance, PTL

(* The common denominator of the transitions.                              *)
IsCommon(g, t, S) ==
    g = [s \in SUBSET S |-> IF s = {} THEN 1 ELSE g[s \ {Pick(s)}] * Max({1, t[Pick(s)]})]

(* The fold over the current experts is that function.                     *)
LEMMA CommonIsRecursive ==
    ASSUME NEW t, NEW S
    PROVE  Common(t, S) = (CHOOSE g : IsCommon(g, t, S))[S]
  BY Zenon DEF Common, FoldSet, MapThenFoldSet, IsCommon, Pick

(* It is positive.                                                         *)
LEMMA CommonPositive ==
    ASSUME NEW S, IsFiniteSet(S), NEW t, \A p \in S : t[p] \in Nat
    PROVE  Common(t, S) \in Nat \ {0}
<1>1. PICK k : k = [p \in S |-> Max({1, t[p]})]
  OBVIOUS
<1>2. \A p \in S : k[p] \in Nat \ {0}
  <2> TAKE p \in S
  <2>1. PICK A, m : A = {1, t[p]} /\ m = Max(A)
    OBVIOUS
  <2>2. IsFiniteSet(A)
    <3>1. IsFiniteSet({1} \cup {t[p]})
      BY FS_Singleton, FS_AddElement
    <3>2. {1} \cup {t[p]} = A
      BY <2>1
    <3> QED
      BY <3>1, <3>2
  <2>3. A \in SUBSET Int /\ 1 \in A /\ A \subseteq Nat
    BY <2>1
  <2>4. m \in A /\ 1 <= m
    BY <2>1, <2>2, <2>3, MaximumExists
  <2> QED
    BY <1>1, <2>1, <2>3, <2>4
<1>3. \A s \in SUBSET S : s # {} => k[Pick(s)] = Max({1, t[Pick(s)]})
  <2> TAKE s \in SUBSET S
  <2>1. s # {} => Pick(s) \in S
    BY PickInSet
  <2> QED
    BY <1>1, <2>1
<1>4. ASSUME NEW g
      PROVE  IsProduct(g, k, S) <=> IsCommon(g, t, S)
  <2>1. [s \in SUBSET S |-> IF s = {} THEN 1 ELSE g[s \ {Pick(s)}] * Max({1, t[Pick(s)]})]
          = [s \in SUBSET S |-> IF s = {} THEN 1 ELSE g[s \ {Pick(s)}] * k[Pick(s)]]
    BY <1>3
  <2> QED
    BY <2>1 DEF IsProduct, IsCommon
<1>5. PICK g : g = CHOOSE h : IsCommon(h, t, S)
  OBVIOUS
<1>6. IsCommon(g, t, S)
  BY <1>4, <1>5, ProductExists
<1>7. IsProduct(g, k, S)
  BY <1>4, <1>6
<1>8. g[S] \in Nat \ {0}
  BY <1>2, <1>7, ProductPositive
<1> QED
  BY <1>5, <1>8, CommonIsRecursive

(* No part of a whole is more than the whole.                              *)
LEMMA PartOfWhole ==
    ASSUME NEW c \in Nat, NEW t \in Nat \ {0}, c <= t, NEW n \in Nat
    PROVE  c * (n \div t) \in 0 .. n
<1>1. PICK q : q = n \div t
  OBVIOUS
<1>2. q \in Nat /\ t * q <= n
  BY <1>1
<1>3. c * q <= t * q /\ c * q \in Nat /\ t * q \in Nat
  BY <1>2
<1> QED
  BY <1>1, <1>2, <1>3

(* A transition is at most certain.                                        *)
LEMMA StrongestBounds ==
    ASSUME NEW S, IsFiniteSet(S), NEW counts, NEW t, NEW e,
           \A p \in S : t[p] \in Nat /\ counts[p][e] \in Nat /\ counts[p][e] <= t[p]
    PROVE  StrongestTransition(counts, t, S, e) \in 0 .. Common(t, S)
<1>1. PICK n, U : n = Common(t, S) /\ U = {q \in S : t[q] > 0}
  OBVIOUS
<1>2. n \in Nat
  BY <1>1, CommonPositive
<1>3. IsFiniteSet(U) /\ U \subseteq S
  BY <1>1, FS_Subset
<1>4. PICK f : f = [p \in U |-> counts[p][e] * (n \div t[p])]
  OBVIOUS
<1>5. \A p \in U : f[p] \in 0 .. n
  <2> TAKE p \in U
  <2>1. PICK c, k : c = counts[p][e] /\ k = t[p]
    OBVIOUS
  <2>2. c \in Nat /\ k \in Nat \ {0} /\ c <= k
    BY <1>1, <2>1
  <2>3. c * (n \div k) \in 0 .. n
    BY <1>2, <2>2, PartOfWhole
  <2> QED
    BY <1>4, <2>1, <2>3
<1>6. PICK A, m : A = {f[p] : p \in U} \cup {0} /\ m = Max(A)
  OBVIOUS
<1>7. IsFiniteSet(A)
  <2>1. IsFiniteSet({f[p] : p \in U})
    BY <1>3, ImageFinite
  <2>2. IsFiniteSet({f[p] : p \in U} \cup {0})
    BY <2>1, FS_AddElement
  <2> QED
    BY <1>6, <2>2
<1>8. A \in SUBSET Int /\ A # {} /\ \A y \in A : y \in 0 .. n
  BY <1>2, <1>5, <1>6
<1>9. m \in 0 .. n
  BY <1>6, <1>7, <1>8, MaximumExists
<1>10. StrongestTransition(counts, t, S, e) = m
  <2>1. {0} \cup {counts[p][e] * (Common(t, S) \div t[p]) : p \in {q \in S : t[q] > 0}} = A
    BY <1>1, <1>4, <1>6
  <2> QED
    BY <1>6, <2>1 DEF StrongestTransition
<1> QED
  BY <1>1, <1>9, <1>10

(* The arithmetic of the scores: three parts of 1 with their weights.      *)
LEMMA ScoreArithmetic ==
    ASSUME NEW FW \in Nat, NEW RW \in Nat, NEW TW \in Nat,
           NEW n \in Nat, NEW m \in Nat, NEW s \in Nat,
           NEW f \in 0 .. m, NEW d \in 0 .. s, NEW t \in 0 .. n
    PROVE  FW * f * n * s + RW * d * m * n + TW * t * m * s \in 0 .. (FW + RW + TW) * m * n * s
<1>1. \A x, y \in Nat : x * y \in Nat
  OBVIOUS
<1>2. \A x, y, z \in Nat : x <= y => z * x <= z * y
  OBVIOUS
<1>3. PICK u, v, x, w : u = n * s /\ v = m * n /\ x = m * s /\ w = m * u
  OBVIOUS
<1>4. u \in Nat /\ v \in Nat /\ x \in Nat /\ w \in Nat
  BY <1>1, <1>3
<1>5. /\ FW * f * n * s = FW * (f * u)
      /\ RW * d * m * n = RW * (d * v)
      /\ TW * t * m * s = TW * (t * x)
  BY <1>3
<1>6. (FW + RW + TW) * m * n * s = FW * w + RW * w + TW * w
  BY <1>3
<1>7. w = s * v /\ w = n * x
  BY <1>3
<1>8. f * u <= w /\ d * v <= w /\ t * x <= w
  <2>1. u * f <= u * m
    BY <1>2, <1>4
  <2>2. v * d <= v * s
    BY <1>2, <1>4
  <2>3. x * t <= x * n
    BY <1>2, <1>4
  <2> QED
    BY <1>3, <1>4, <1>7, <2>1, <2>2, <2>3
<1>9. f * u \in Nat /\ d * v \in Nat /\ t * x \in Nat
  BY <1>1, <1>4
<1>10. PICK a, b, c : a = f * u /\ b = d * v /\ c = t * x
  OBVIOUS
<1>11. a \in Nat /\ b \in Nat /\ c \in Nat /\ a <= w /\ b <= w /\ c <= w
  BY <1>8, <1>9, <1>10
<1>12. /\ FW * a <= FW * w /\ RW * b <= RW * w /\ TW * c <= TW * w
       /\ FW * a \in Nat /\ RW * b \in Nat /\ TW * c \in Nat
  BY <1>1, <1>2, <1>4, <1>11
<1> QED
  BY <1>1, <1>4, <1>5, <1>6, <1>10, <1>12

(* The selection has the best: what is left out does not score more.       *)
LEMMA SelectionExact ==
    ASSUME NEW K, K \subseteq Nat, IsFiniteSet(K), NEW scores \in [K -> Nat],
           NEW topK \in Nat \ {0}, NEW minScore \in Nat, NEW selected,
           selected = SelectTopK(scores, topK, minScore)
    PROVE  /\ selected \in Seq(K)
           /\ \A i \in DOMAIN selected : scores[selected[i]] >= minScore
           /\ \A e \in K \ ToSet(selected), i \in DOMAIN selected : scores[e] <= scores[selected[i]]
<1>1. PICK S : S = {e \in K : scores[e] >= minScore}
  OBVIOUS
<1>2. PICK R : R = OrderOn(S, LAMBDA x, y :
                       scores[x] > scores[y] \/ (scores[x] = scores[y] /\ x < y))
  OBVIOUS
<1>3. \A x, y \in S : <<x, y>> \in R <=> (scores[x] > scores[y] \/ (scores[x] = scores[y] /\ x < y))
  BY <1>2 DEF OrderOn
<1>4. PICK r, n : r = Ordered(S, R) /\ n = Cardinality(S)
  OBVIOUS
<1>5. IsFiniteSet(S) /\ S \subseteq K /\ \A x \in S : x \in Nat /\ scores[x] \in Nat
  BY <1>1, FS_Subset
<1>6. StrictOrderOn(S, R)
  <2>1. \A x, y \in S : <<x, y>> \in R => <<y, x>> \notin R
    BY <1>3, <1>5
  <2>2. \A x, y \in S : x # y => <<x, y>> \in R \/ <<y, x>> \in R
    BY <1>3, <1>5
  <2>3. \A x, y, z \in S : <<x, y>> \in R /\ <<y, z>> \in R => <<x, z>> \in R
    BY <1>3, <1>5
  <2> QED
    BY <2>1, <2>2, <2>3 DEF StrictOrderOn
<1>7. /\ n \in Nat /\ r \in [1 .. n -> S]
      /\ \A i, j \in 1 .. n : i < j => <<r[i], r[j]>> \in R
      /\ \A x \in S : \E i \in 1 .. n : r[i] = x
  <2>1. /\ Cardinality(S) \in Nat
        /\ Ordered(S, R) \in [1 .. Cardinality(S) -> S]
        /\ \A i, j \in 1 .. Cardinality(S) : i < j => <<Ordered(S, R)[i], Ordered(S, R)[j]>> \in R
        /\ \A x \in S : \E i \in 1 .. Cardinality(S) : Ordered(S, R)[i] = x
    BY <1>5, <1>6, OrderedExact
  <2> QED
    BY <1>4, <2>1
<1>8. Len(r) = n
  BY <1>7, SeqDef
<1>9. PICK m : m = IF topK <= n THEN topK ELSE n
  OBVIOUS
<1>10. m \in 0 .. n
  BY <1>7, <1>9
<1>11. selected = SubSeq(r, 1, m)
  <2>1. DOMAIN scores = K
    OBVIOUS
  <2>2. selected = SubSeq(r, 1, Min({topK, Len(r)}))
    BY <1>1, <1>2, <1>4, <2>1 DEF SelectTopK
  <2>3. Min({topK, n}) = m
    BY <1>7, <1>9, MinimumOfTwo
  <2> QED
    BY <1>8, <2>2, <2>3
<1>12. \A i, j \in 1 .. n : i < j => r[i] # r[j]
  <2> SUFFICES ASSUME NEW i \in 1 .. n, NEW j \in 1 .. n, i < j
               PROVE  r[i] # r[j]
    OBVIOUS
  <2>1. r[i] \in S /\ r[j] \in S /\ <<r[i], r[j]>> \in R
    BY <1>7
  <2> QED
    BY <1>6, <2>1 DEF StrictOrderOn
<1>13. IsTop(S, r, m, selected)
  BY <1>7, <1>10, <1>11, <1>12, FirstEntries
<1>14. /\ selected \in Seq(S) /\ DOMAIN selected = 1 .. m
       /\ \A i \in 1 .. m : selected[i] = r[i] /\ i \in 1 .. n /\ r[i] \in S
       /\ ToSet(selected) = {r[i] : i \in 1 .. m}
  <2>1. selected \in Seq(S) /\ Len(selected) = m /\ \A i \in 1 .. m : selected[i] = r[i]
    BY <1>13 DEF IsTop
  <2>2. \A i \in 1 .. m : i \in 1 .. n /\ r[i] \in S
    BY <1>7, <1>10
  <2>3. DOMAIN selected = 1 .. m
    BY <2>1
  <2> QED
    BY <1>13, <2>1, <2>2, <2>3 DEF IsTop
<1>15. selected \in Seq(K)
  <2>1. Len(selected) = m /\ \A i \in 1 .. m : selected[i] \in K
    BY <1>5, <1>13, <1>14 DEF IsTop
  <2> QED
    BY <1>14, <2>1, SeqDef
<1>16. ASSUME NEW i \in 1 .. m
       PROVE  scores[selected[i]] >= minScore
  BY <1>1, <1>14
<1>17. ASSUME NEW e \in K \ ToSet(selected), NEW i \in 1 .. m
       PROVE  scores[e] <= scores[selected[i]]
  <2>1. PICK x : x = selected[i]
    OBVIOUS
  <2>2. x \in S /\ x = r[i] /\ scores[x] >= minScore /\ scores[x] \in Nat /\ scores[e] \in Nat
    BY <1>5, <1>14, <1>16, <2>1
  <2>3. CASE e \notin S
    BY <1>1, <2>1, <2>2, <2>3
  <2>4. CASE e \in S
    <3>1. PICK j \in 1 .. n : r[j] = e
      BY <1>7, <2>4
    <3>2. j \notin 1 .. m
      BY <1>14, <3>1
    <3>3. i < j /\ i \in 1 .. n
      BY <1>7, <1>10, <3>2
    <3>4. <<x, e>> \in R
      BY <1>7, <2>2, <3>1, <3>3
    <3>5. scores[x] > scores[e] \/ scores[x] = scores[e]
      BY <1>3, <2>2, <2>4, <3>4
    <3> QED
      BY <2>1, <2>2, <3>5
  <2> QED
    BY <2>3, <2>4
<1> QED
  BY <1>14, <1>15, <1>16, <1>17

(* The last step of a history is that of some of its experts, and of none  *)
(* later.                                                                  *)
LEMMA LastStepExact ==
    ASSUME NEW h \in Seq(ObservedEvents), h # <<>>,
           NEW last, last = Max({h[i].step : i \in DOMAIN h})
    PROVE  /\ last \in Nat
           /\ \A e \in ExpertsOf(h) : /\ AccessPatterns(h)[e].last \in Nat
                                      /\ AccessPatterns(h)[e].last <= last
           /\ \E e \in ExpertsOf(h) : AccessPatterns(h)[e].last = last
<1>1. PICK D, f, A : D = DOMAIN h /\ f = [i \in D |-> h[i].step] /\ A = {f[i] : i \in D}
  OBVIOUS
<1>2. IsFiniteSet(D) /\ 1 \in D /\ \A i \in D : f[i] \in Nat
  BY <1>1, HistoryTyped
<1>3. last = Max(A)
  <2>1. {h[i].step : i \in DOMAIN h} = A
    BY <1>1
  <2> QED
    BY <2>1
<1>4. IsFiniteSet(A)
  BY <1>1, <1>2, ImageFinite
<1>5. A \in SUBSET Int /\ A # {} /\ A \subseteq Nat
  BY <1>1, <1>2
<1>6. last \in A /\ \A y \in A : y <= last
  BY <1>3, <1>4, <1>5, MaximumExists
<1>7. ASSUME NEW e \in ExpertsOf(h)
      PROVE  /\ AccessPatterns(h)[e].last \in Nat
             /\ AccessPatterns(h)[e].last <= last
             /\ \A i \in D : e \in ToSet(h[i].experts) => h[i].step <= AccessPatterns(h)[e].last
  <2>1. PICK S, B, m : S = Accesses(h, e) /\ B = {f[i] : i \in S} /\ m = Max(B)
    OBVIOUS
  <2>2. /\ S # {} /\ S \subseteq D /\ IsFiniteSet(S)
        /\ AccessPatterns(h)[e] = PatternOf(h, S)
    BY <1>1, <2>1, HistoryTyped
  <2>3. B = {h[i].step : i \in S}
    BY <1>1, <2>1, <2>2
  <2>4. AccessPatterns(h)[e].last = m
    <3>1. PatternOf(h, S).last = Max({h[i].step : i \in S})
      BY DEF PatternOf
    <3> QED
      BY <2>1, <2>2, <2>3, <3>1
  <2>5. IsFiniteSet(B)
    BY <2>1, <2>2, ImageFinite
  <2>6. B \in SUBSET Int /\ B # {} /\ B \subseteq A
    <3>1. \A i \in S : f[i] \in A /\ f[i] \in B
      BY <1>1, <2>1, <2>2
    <3>2. B \subseteq A /\ B # {}
      BY <2>1, <2>2, <3>1
    <3> QED
      BY <1>5, <3>2
  <2>7. m \in B /\ \A y \in B : y <= m
    BY <2>1, <2>5, <2>6, MaximumExists
  <2>8. ASSUME NEW i \in D, e \in ToSet(h[i].experts)
        PROVE  h[i].step <= m
    <3>1. i \in S
      BY <1>1, <2>1, <2>8 DEF Accesses, Having
    <3>2. h[i].step \in B
      BY <2>3, <3>1
    <3> QED
      BY <2>7, <3>2
  <2> QED
    BY <1>5, <1>6, <2>4, <2>6, <2>7, <2>8
<1>8. PICK i \in D : h[i].step = last
  BY <1>1, <1>6
<1>9. \E e \in ExpertsOf(h) : e \in ToSet(h[i].experts)
  <2>1. PICK row : row = h[i].experts
    OBVIOUS
  <2>2. row \in Seq(Experts) /\ row # <<>>
    BY <1>1, <1>8, <2>1, HistoryTyped DEF ValidRow
  <2>3. 1 \in DOMAIN row
    BY <2>2
  <2>4. row[1] \in ToSet(row)
    BY <2>3 DEF ToSet
  <2> QED
    BY <1>1, <1>8, <2>1, <2>4 DEF ExpertsOf
<1>10. PICK e \in ExpertsOf(h) : e \in ToSet(h[i].experts)
  BY <1>9
<1>11. AccessPatterns(h)[e].last = last
  <2>1. PICK l : l = AccessPatterns(h)[e].last
    OBVIOUS
  <2>2. l \in Nat /\ l <= last /\ last <= l
    BY <1>7, <1>8, <1>10, <2>1
  <2>3. last \in Nat
    BY <1>5, <1>6
  <2> QED
    BY <2>1, <2>2, <2>3
<1> QED
  BY <1>5, <1>6, <1>7, <1>11

(* Features within the full score: m for the frequency, n the transitions. *)
IsFeature(feature, m, n) ==
    /\ feature.frequency \in 0 .. m /\ feature.recency \in Nat
    /\ feature.transition \in 0 .. n

(* From its last step on, the features of every candidate are within it.   *)
LEMMA FeaturesBounded ==
    ASSUME NEW h \in Seq(ObservedEvents), h # <<>>, NEW current \in SUBSET ExpertsOf(h),
           NEW now \in Nat, \A e \in ExpertsOf(h) : AccessPatterns(h)[e].last <= now,
           NEW features, features = CandidateFeatures(h, now, current),
           NEW m, m = MaxFrequencyOf(features),
           NEW n, n = Common(TotalsFrom(TransitionCounts(h)), current)
    PROVE  /\ DOMAIN features = ExpertsOf(h) /\ m \in Nat /\ n \in Nat
           /\ \A e \in ExpertsOf(h) : IsFeature(features[e], m, n)
<1>1. PICK E, patterns, counts, sums :
         /\ E = ExpertsOf(h) /\ patterns = AccessPatterns(h)
         /\ counts = TransitionCounts(h) /\ sums = TotalsFrom(counts)
  OBVIOUS
<1>2. DOMAIN patterns = E /\ IsFiniteSet(E) /\ E # {}
  <2>1. \E e : e \in E
    <3>1. PICK last : last = Max({h[i].step : i \in DOMAIN h})
      OBVIOUS
    <3> QED
      BY <1>1, <3>1, LastStepExact
  <2> QED
    BY <1>1, <2>1, HistoryTyped
<1>3. DOMAIN sums = E
  BY <1>1 DEF TotalsFrom, TransitionCounts
<1>4. current \cap DOMAIN sums = current
  BY <1>1, <1>3
<1>5. features = [e \in E |->
         [frequency |-> patterns[e].count, recency |-> now - patterns[e].last,
          transition |-> StrongestTransition(counts, sums, current, e)]]
  BY <1>1, <1>2, <1>4 DEF CandidateFeatures
<1>6. PICK f : f = [e \in E |-> features[e].frequency]
  OBVIOUS
<1>7. \A e \in E : f[e] \in Nat
  <2> TAKE e \in E
  <2>1. patterns[e] = PatternOf(h, Accesses(h, e)) /\ IsFiniteSet(Accesses(h, e))
    BY <1>1, HistoryTyped
  <2>2. patterns[e].count = Cardinality(Accesses(h, e))
    BY <2>1 DEF PatternOf
  <2> QED
    BY <1>5, <1>6, <2>1, <2>2, FS_CardinalityType
<1>8. PICK A : A = {f[e] : e \in E}
  OBVIOUS
<1>9. m = Max(A)
  <2>1. {features[e].frequency : e \in DOMAIN features} = A
    BY <1>5, <1>6, <1>8
  <2> QED
    BY <2>1 DEF MaxFrequencyOf
<1>10. m \in Nat /\ \A e \in E : f[e] <= m
  <2>1. IsFiniteSet(A)
    BY <1>2, <1>8, ImageFinite
  <2>2. A \in SUBSET Int /\ A # {} /\ A \subseteq Nat /\ \A e \in E : f[e] \in A
    BY <1>2, <1>7, <1>8
  <2> QED
    BY <1>9, <2>1, <2>2, MaximumExists
<1>11. IsFiniteSet(current)
  BY <1>1, <1>2, FS_Subset
<1>12. \A p, e \in E : sums[p] \in Nat /\ counts[p][e] \in Nat /\ counts[p][e] <= sums[p]
  BY <1>1, SuccessorsCounted
<1>13. n \in Nat
  <2>1. \A p \in current : sums[p] \in Nat
    BY <1>1, <1>12
  <2>2. Common(sums, current) \in Nat \ {0}
    BY <1>11, <2>1, CommonPositive
  <2> QED
    BY <1>1, <2>2
<1>14. ASSUME NEW e \in E
       PROVE  IsFeature(features[e], m, n)
  <2>1. \A p \in current : sums[p] \in Nat /\ counts[p][e] \in Nat /\ counts[p][e] <= sums[p]
    BY <1>1, <1>12
  <2>2. StrongestTransition(counts, sums, current, e) \in 0 .. Common(sums, current)
    BY <1>11, <2>1, StrongestBounds
  <2>3. features[e].transition \in 0 .. n
    BY <1>1, <1>5, <2>2
  <2>4. PICK l : l = patterns[e].last
    OBVIOUS
  <2>5. l \in Nat /\ l <= now
    <3>1. PICK last : last = Max({h[i].step : i \in DOMAIN h})
      OBVIOUS
    <3> QED
      BY <1>1, <2>4, <3>1, LastStepExact
  <2>6. features[e].recency = now - l /\ now - l \in Nat
    BY <1>5, <2>4, <2>5
  <2>7. features[e].frequency \in 0 .. m
    BY <1>6, <1>7, <1>10
  <2> QED
    BY <2>3, <2>6, <2>7 DEF IsFeature
<1> QED
  BY <1>1, <1>5, <1>10, <1>13, <1>14

(* A score is at most a full one.                                          *)
LEMMA HistoryScoreBounds ==
    ASSUME NEW features, NEW n \in Nat, NEW e, MaxFrequencyOf(features) \in Nat,
           IsFeature(features[e], MaxFrequencyOf(features), n)
    PROVE  HistoryScore(features, n, e, Weights) \in 0 .. FullScore(features, n, Weights)
<1>1. PICK FW, RW, TW, s, decay :
         /\ FW = Weights.frequency /\ RW = Weights.recency /\ TW = Weights.transition
         /\ s = Weights.scale /\ decay = Weights.decay
  OBVIOUS
<1>2. /\ FW \in Nat /\ RW \in Nat /\ TW \in Nat /\ s \in Nat
      /\ \A a \in Nat : decay[a] \in 0 .. s
  <2>1. /\ FW = FrequencyWeight /\ RW = RecencyWeight /\ TW = TransitionWeight /\ s = RecencyScale
        /\ decay = [a \in Nat |-> IF a = 0 THEN RecencyScale
                                  ELSE IF a <= MaxStep THEN Recency[a] ELSE 0]
    BY <1>1 DEF Weights
  <2>2. \A a \in Nat : a # 0 /\ a <= MaxStep => Recency[a] \in 0 .. RecencyScale
    <3>1. \A a \in 1 .. MaxStep : Recency[a] \in 0 .. RecencyScale - 1
      BY PredictorAssumption
    <3>2. MaxStep \in Nat /\ RecencyScale \in Nat
      BY PredictorAssumption
    <3> QED
      BY <3>1, <3>2
  <2>3. RecencyScale \in Nat /\ FrequencyWeight \in Nat /\ RecencyWeight \in Nat /\ TransitionWeight \in Nat
    BY PredictorAssumption
  <2> QED
    BY <2>1, <2>2, <2>3
<1>3. PICK m, f, d, t, a : /\ m = MaxFrequencyOf(features) /\ f = features[e].frequency
                           /\ a = features[e].recency /\ d = decay[a]
                           /\ t = features[e].transition
  OBVIOUS
<1>4. m \in Nat /\ f \in 0 .. m /\ d \in 0 .. s /\ t \in 0 .. n
  BY <1>2, <1>3 DEF IsFeature
<1>5. FW * f * n * s + RW * d * m * n + TW * t * m * s \in 0 .. (FW + RW + TW) * m * n * s
  BY <1>2, <1>4, ScoreArithmetic
<1>6. HistoryScore(features, n, e, Weights) = FW * f * n * s + RW * d * m * n + TW * t * m * s
  BY <1>1, <1>3 DEF HistoryScore
<1>7. FullScore(features, n, Weights) = (FW + RW + TW) * m * n * s
  BY <1>1, <1>3 DEF FullScore
<1> QED
  BY <1>5, <1>6, <1>7

(* Any history that a capture leaves can be scored, and what goes to the   *)
(* scheduler leaves out nothing better (features.py:108-240,               *)
(* normalization.py:46-92, scoring.py:91-163, top_k.py:6-31,               *)
(* predictive_scheduler/adapter.py:9-62).                                  *)
THEOREM ScoresAccepted == CaptureSpec => []ScoresAreAccepted
<1>1. ASSUME CollectorInv, TokenInv, HistoryInv
      PROVE  ScoresAreAccepted
  <2> SUFFICES ASSUME call = Idle, collector # <<>>
               PROVE  ScoresAreAccepted
    BY DEF ScoresAreAccepted
  <2>1. driver = "capture"
    BY <1>1 DEF HistoryInv
  <2>2. PICK h, sums, last :
           /\ h = collector /\ sums = TotalsFrom(TransitionCounts(h))
           /\ last = Max({h[i].step : i \in DOMAIN h})
    OBVIOUS
  <2>3. h \in Seq(ObservedEvents) /\ h # <<>>
    BY <1>1, <2>2 DEF CollectorInv
  <2>4. known = ExpertsOf(h) /\ DOMAIN AccessPatterns(h) = known
        /\ known \subseteq Experts /\ IsFiniteSet(known)
    <3>1. known = ExpertsIn(ToSet(h))
      BY <1>1, <2>1, <2>2 DEF HistoryInv
    <3>2. known = ExpertsOf(h)
      BY <3>1 DEF ExpertsIn, ExpertsOf, ToSet
    <3> QED
      BY <2>3, <3>2, HistoryTyped
  <2>5. /\ last \in Nat
        /\ \A e \in known : /\ AccessPatterns(h)[e].last \in Nat
                            /\ AccessPatterns(h)[e].last <= last
        /\ \E e \in known : AccessPatterns(h)[e].last = last
    <3>1. /\ last \in Nat
          /\ \A e \in ExpertsOf(h) : /\ AccessPatterns(h)[e].last \in Nat
                                     /\ AccessPatterns(h)[e].last <= last
          /\ \E e \in ExpertsOf(h) : AccessPatterns(h)[e].last = last
      BY <2>2, <2>3, LastStepExact
    <3> QED
      BY <2>4, <3>1
  <2>6. ToSet(previous) \subseteq known
    <3>1. ToSet(previous) = ExpertsIn(At(ToSet(h), TokenOf(Last(h))))
      BY <1>1, <2>1, <2>2, <2>3 DEF TokenInv, StepPerToken
    <3>2. known = ExpertsIn(ToSet(h))
      BY <1>1, <2>1, <2>2 DEF HistoryInv
    <3> QED
      BY <3>1, <3>2 DEF ExpertsIn, At
  <2>7. FeaturesRaise(h, last - 1)
    <3>1. PICK e \in known : AccessPatterns(h)[e].last = last
      BY <2>5
    <3>2. last - 1 < AccessPatterns(h)[e].last
      BY <2>5, <3>1
    <3> QED
      BY <2>4, <3>2 DEF FeaturesRaise
  <2>8. ASSUME NEW now \in {last, last + 1},
               NEW current \in {ToSet(previous)} \cup {{e} : e \in known},
               NEW features, features = CandidateFeatures(h, now, current),
               NEW n, n = Common(sums, current),
               NEW scores, scores = [e \in known |-> HistoryScore(features, n, e, Weights)],
               NEW selected, selected = SelectTopK(scores, 2, 1),
               NEW sent, sent = SchedulerPredictions(selected, scores, [e \in known |-> 1])
        PROVE  /\ ~FeaturesRaise(h, now)
               /\ \A i \in DOMAIN sent : sent[i].probability \in 0 .. FullScore(features, n, Weights)
               /\ \A e \in known \ ToSet(selected), i \in DOMAIN selected : scores[e] <= scores[selected[i]]
    <3>1. now \in Nat /\ current \in SUBSET ExpertsOf(h)
      BY <2>4, <2>5, <2>6
    <3>2. \A e \in known : AccessPatterns(h)[e].last <= now
      BY <2>5
    <3>3. ~FeaturesRaise(h, now)
      <4>1. \A e \in known : ~(now < AccessPatterns(h)[e].last)
        BY <2>5, <3>1, <3>2
      <4>2. ~(now < 0)
        BY <3>1
      <4> QED
        BY <2>4, <4>1, <4>2 DEF FeaturesRaise
    <3>4. PICK m, full : m = MaxFrequencyOf(features) /\ full = FullScore(features, n, Weights)
      OBVIOUS
    <3>5. m \in Nat /\ n \in Nat /\ \A e \in known : IsFeature(features[e], m, n)
      BY <2>2, <2>3, <2>4, <2>8, <3>1, <3>2, <3>4, FeaturesBounded
    <3>6. \A e \in known : HistoryScore(features, n, e, Weights) \in 0 .. full
      BY <3>4, <3>5, HistoryScoreBounds
    <3>7. scores \in [known -> Nat] /\ \A e \in known : scores[e] \in 0 .. full
      BY <2>8, <3>6
    <3>8. known \subseteq Nat
      BY <2>4, PredictorAssumption
    <3>9. /\ selected \in Seq(known)
          /\ \A e \in known \ ToSet(selected), i \in DOMAIN selected : scores[e] <= scores[selected[i]]
      <4>1. PICK K, topK, minScore : K = known /\ topK = 2 /\ minScore = 1
        OBVIOUS
      <4>2. /\ K \subseteq Nat /\ IsFiniteSet(K) /\ scores \in [K -> Nat]
            /\ topK \in Nat \ {0} /\ minScore \in Nat
        BY <2>4, <3>7, <3>8, <4>1
      <4>3. selected = SelectTopK(scores, topK, minScore)
        BY <2>8, <4>1
      <4>4. /\ selected \in Seq(K)
            /\ \A e \in K \ ToSet(selected), i \in DOMAIN selected : scores[e] <= scores[selected[i]]
        BY <4>2, <4>3, SelectionExact
      <4> QED
        BY <4>1, <4>4
    <3>10. \A i \in DOMAIN sent : sent[i].probability \in 0 .. full
      <4>1. DOMAIN sent = DOMAIN selected /\ \A i \in DOMAIN selected : sent[i].probability = scores[selected[i]]
        BY <2>8 DEF SchedulerPredictions
      <4>2. \A i \in DOMAIN selected : selected[i] \in known
        BY <3>9
      <4> QED
        BY <3>7, <4>1, <4>2
    <3> QED
      BY <3>3, <3>4, <3>9, <3>10
  <2> DEFINE Features(now, current) == CandidateFeatures(collector, now, current)
             N(current) == Common(TotalsFrom(TransitionCounts(collector)), current)
             Scores(now, current) ==
                [e \in known |-> HistoryScore(Features(now, current), N(current), e, Weights)]
             Selected(now, current) == SelectTopK(Scores(now, current), 2, 1)
             Sent(now, current) ==
                SchedulerPredictions(Selected(now, current), Scores(now, current), [e \in known |-> 1])
  <2>9. ASSUME NEW now \in {last, last + 1},
               NEW current \in {ToSet(previous)} \cup {{e} : e \in known}
        PROVE  /\ ~FeaturesRaise(collector, now)
               /\ \A i \in DOMAIN Sent(now, current) : Sent(now, current)[i].probability
                     \in 0 .. FullScore(Features(now, current), N(current), Weights)
               /\ \A e \in known \ ToSet(Selected(now, current)), i \in DOMAIN Selected(now, current) :
                     Scores(now, current)[e] <= Scores(now, current)[Selected(now, current)[i]]
    <3>1. PICK features, n, scores, selected, sent :
             /\ features = Features(now, current) /\ n = N(current)
             /\ scores = Scores(now, current) /\ selected = Selected(now, current)
             /\ sent = Sent(now, current)
      OBVIOUS
    <3>2. /\ ~FeaturesRaise(h, now)
          /\ \A i \in DOMAIN sent : sent[i].probability \in 0 .. FullScore(features, n, Weights)
          /\ \A e \in known \ ToSet(selected), i \in DOMAIN selected : scores[e] <= scores[selected[i]]
      <4>1. /\ features = CandidateFeatures(h, now, current) /\ n = Common(sums, current)
            /\ scores = [e \in known |-> HistoryScore(features, n, e, Weights)]
            /\ selected = SelectTopK(scores, 2, 1)
            /\ sent = SchedulerPredictions(selected, scores, [e \in known |-> 1])
        BY <2>2, <3>1
      <4> QED
        BY <2>8, <2>9, <4>1
    <3> HIDE DEF Features, N, Scores, Selected, Sent
    <3> QED
      BY <2>2, <3>1, <3>2
  <2>10. last = Max({collector[i].step : i \in DOMAIN collector}) /\ FeaturesRaise(collector, last - 1)
    BY <2>2, <2>7
  <2> QED
    BY <2>9, <2>10 DEF ScoresAreAccepted
<1> QED
  BY <1>1, CollectorInvariance, TokenInvariance, HistoryInvariance, PTL
===============================================================================
