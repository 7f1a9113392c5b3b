------------------------ MODULE ExpertSchedulerProofs ------------------------
(***************************************************************************)
(* Theorems of ExpertScheduler and EvictionSelection: what plan_           *)
(* predictions() and select_evictions() return is right for every call,    *)
(* with any number of predictions, experts and candidates.                 *)
(*                                                                         *)
(* The argument follows the loops.  After k predictions "unique" holds the *)
(* first of the strongest prediction of each expert among these k          *)
(* (Deduplicated); after m candidates a candidate among these m is left    *)
(* out for want of benefit or of space only, and with experts of one size  *)
(* none after it was taken (Evaluated); space only shrinks, so what did    *)
(* not fit then does not fit in the end.  A selection is always a prefix   *)
(* of the sorted candidates (EvictionInv).                                 *)
(***************************************************************************)
EXTENDS ExpertScheduler, CollectionLemmas

(* The first of the strongest predictions of its expert, among the first k *)
(* that were given.                                                        *)
FirstStrongest(u, k) ==
    LET s == call.predictions IN
    \E i \in 1 .. k :
        /\ s[i] = u
        /\ \A j \in 1 .. k : s[j].expert = u.expert =>
              s[j].score <= u.score /\ (j < i => s[j].score < u.score)

(* The predictions come in the order of their scores, and the experts have *)
(* one size.                                                               *)
StrongestFirst ==
    \A i, j \in DOMAIN call.predictions : i <= j => call.predictions[i].score >= call.predictions[j].score
OneSize == \A e, f \in Experts : call.size[e] = call.size[f]

(* The types of what the loops keep.                                       *)
PlanTypeOK ==
    /\ pc \in {"idle", "deduplicate", "evaluate", "returned", "raised"}
    /\ call \in Call
    /\ todo \in Seq(Prediction) /\ unique \in Seq(Prediction) /\ requests \in Seq(Prediction)
    /\ used \in Nat

(* The first loop has looked at k predictions.                             *)
Deduplicated(k) ==
    LET s == call.predictions IN
    /\ \A i \in DOMAIN unique : FirstStrongest(unique[i], k) /\ unique[i].expert \notin call.resident
    /\ \A i, j \in DOMAIN unique : unique[i].expert = unique[j].expert => i = j
    /\ \A j \in 1 .. k : s[j].expert \notin call.resident =>
          \E i \in DOMAIN unique : unique[i].expert = s[j].expert
    /\ StrongestFirst => \A i, j \in DOMAIN unique : i <= j => unique[i].score >= unique[j].score

(* The second loop has looked at m of the candidates.                      *)
Evaluated(m) ==
    /\ \A i \in DOMAIN requests : \E j \in 1 .. m : requests[i] = unique[j] /\ IsWorthIt(unique[j])
    /\ \A i, j \in DOMAIN requests : requests[i] = requests[j] => i = j
    /\ \A i \in 1 .. m : IsWorthIt(unique[i]) /\ unique[i] \notin ToSet(requests) =>
          /\ call.capacity # NoCapacity /\ ~CanFit(call.size[unique[i].expert])
          /\ OneSize => \A j \in 1 .. m : unique[j] \in ToSet(requests) => j < i

(* What is used is what was used and what is requested.                    *)
WithinCapacity ==
    call.capacity # NoCapacity => used = call.used + TotalSize(requests) /\ used <= call.capacity

(* The invariant of a call, by the place where it is.                      *)
PlanInv ==
    /\ PlanTypeOK
    /\ pc = "idle" => call = NoCall /\ todo = <<>> /\ unique = <<>> /\ requests = <<>> /\ used = 0
    /\ pc = "deduplicate" =>
          LET k == Len(call.predictions) - Len(todo) IN
          /\ k \in Nat /\ \A i \in DOMAIN todo : todo[i] = call.predictions[k + i]
          /\ Deduplicated(k)
          /\ requests = <<>> /\ WithinCapacity
    /\ pc \in {"evaluate", "returned"} =>
          LET m == Len(unique) - Len(todo) IN
          /\ m \in Nat /\ \A i \in DOMAIN todo : todo[i] = unique[m + i]
          /\ Deduplicated(Len(call.predictions))
          /\ Evaluated(m) /\ WithinCapacity
    /\ pc = "returned" => todo = <<>>
    /\ pc = "raised" => \/ call.capacity # NoCapacity /\ call.used > call.capacity
                        \/ \E e \in Predicted : ~IsValid(Strongest(e))
-----------------------------------------------------------------------------
(* The size of a plan with one request more.                               *)
LEMMA TotalSizeExact ==
    ASSUME call \in Call, NEW s \in Seq(Prediction), NEW p \in Prediction
    PROVE  /\ TotalSize(<<>>) = 0
           /\ TotalSize(s) \in Int
           /\ TotalSize(Append(s, p)) = TotalSize(s) + call.size[p.expert]
<1> DEFINE f == [i \in DOMAIN s |-> call.size[s[i].expert]]
           t == Append(s, p)
           g == [i \in DOMAIN t |-> call.size[t[i].expert]]
           n == Len(s)
<1>1. n \in Nat /\ DOMAIN s = 1 .. n /\ DOMAIN t = 1 .. n + 1
      /\ t[n + 1] = p /\ \A i \in 1 .. n : t[i] = s[i] /\ s[i] \in Prediction
  OBVIOUS
<1>2. \A q \in Prediction : call.size[q.expert] \in Int
  BY DEF Call, Prediction
<1> HIDE DEF t
<1>3. /\ \A i \in 1 .. n : f[i] \in Int /\ g[i] = f[i]
      /\ g[n + 1] = call.size[p.expert] /\ g[n + 1] \in Int
  BY <1>1, <1>2
<1>4. DOMAIN f = 1 .. n /\ DOMAIN g = 1 .. n + 1
  BY <1>1
<1>5. TotalSize(s) = SumFunctionOnSet(f, 1 .. n) /\ TotalSize(t) = SumFunctionOnSet(g, 1 .. n + 1)
  BY <1>4 DEF TotalSize, SumFunction
<1> HIDE DEF f, g, n
<1>6. SumFunctionOnSet(g, 1 .. n + 1) = SumFunctionOnSet(f, 1 .. n) + g[n + 1]
  <2>1. n \in Nat
    BY <1>1
  <2> QED
    BY <1>3, <2>1, SumAppended
<1>7. IsFiniteSet(1 .. n)
  BY <1>1, FS_Interval
<1>8. SumFunctionOnSet(f, 1 .. n) \in Int
  BY <1>3, <1>7, SumWithout
<1>9. TotalSize(<<>>) = 0
  <2> DEFINE h == [i \in DOMAIN <<>> |-> call.size[<<>>[i].expert]]
  <2>1. DOMAIN h = {}
    OBVIOUS
  <2>2. SumFunctionOnSet(h, {}) = 0
    BY SumPick, FS_EmptySet
  <2> QED
    BY <2>1, <2>2 DEF TotalSize, SumFunction
<1> QED
  BY <1>3, <1>5, <1>6, <1>8, <1>9 DEF t

(* Between calls there is none.                                            *)
LEMMA NoCallIsCall == NoCall \in Call /\ NoCall.capacity = NoCapacity
  BY DEF NoCall, Call

LEMMA PlanInitially ==
    ASSUME Init
    PROVE  PlanInv
  BY NoCallIsCall DEF Init, PlanInv, PlanTypeOK

(* A call begins with no prediction looked at, or is refused.              *)
LEMMA PlanStarts ==
    ASSUME PlanInv, pc = "idle", NEW c \in Calls, Plan(c)
    PROVE  PlanInv'
<1>1. c \in Call /\ call' = c /\ todo' = c.predictions /\ used' = c.used /\ unique' = <<>>
      /\ requests' = <<>> /\ pc' \in {"deduplicate", "raised"}
  BY SchedulerAssumption DEF PlanInv, Plan, Raise
<1>2. PlanTypeOK'
  BY <1>1 DEF PlanTypeOK, Call
<1>3. CASE c.capacity # NoCapacity /\ c.used > c.capacity
  BY <1>1, <1>2, <1>3 DEF Plan, Raise, PlanInv
<1>4. CASE ~(c.capacity # NoCapacity /\ c.used > c.capacity)
  <2>1. pc' = "deduplicate"
    BY <1>1, <1>4 DEF Plan
  <2>2. c.used \in Nat /\ (c.capacity # NoCapacity => c.capacity \in Nat) /\ c.predictions \in Seq(Prediction)
    BY <1>1 DEF Call
  <2>3. TotalSize(<<>>)' = 0
    <3> DEFINE h == [i \in DOMAIN <<>> |-> call'.size[<<>>[i].expert]]
    <3>1. DOMAIN h = {}
      OBVIOUS
    <3>2. SumFunctionOnSet(h, {}) = 0
      BY SumPick, FS_EmptySet
    <3> QED
      BY <3>1, <3>2 DEF TotalSize, SumFunction
  <2>4. WithinCapacity'
    BY <1>1, <1>4, <2>2, <2>3 DEF WithinCapacity
  <2>5. Deduplicated(0)'
    BY <1>1 DEF Deduplicated
  <2> QED
    BY <1>1, <1>2, <2>1, <2>2, <2>4, <2>5 DEF PlanInv
<1> QED
  BY <1>3, <1>4

(* The strongest of its expert stays the strongest if the next is not      *)
(* above it.                                                               *)
LEMMA FirstStrongestStays ==
    ASSUME call \in Call, NEW k \in Nat, k + 1 <= Len(call.predictions),
           NEW u, FirstStrongest(u, k),
           call.predictions[k + 1].expert = u.expert => call.predictions[k + 1].score <= u.score
    PROVE  FirstStrongest(u, k + 1)
<1> DEFINE s == call.predictions
<1>1. PICK i \in 1 .. k : /\ s[i] = u
                          /\ \A j \in 1 .. k : s[j].expert = u.expert =>
                                s[j].score <= u.score /\ (j < i => s[j].score < u.score)
  BY DEF FirstStrongest
<1>2. \A j \in 1 .. k + 1 : s[j].expert = u.expert =>
                                s[j].score <= u.score /\ (j < i => s[j].score < u.score)
  <2> TAKE j \in 1 .. k + 1
  <2>1. CASE j \in 1 .. k
    BY <1>1, <2>1
  <2>2. CASE j = k + 1
    BY <2>2
  <2> QED
    BY <2>1, <2>2
<1>3. i \in 1 .. k + 1
  OBVIOUS
<1> HIDE DEF s
<1> QED
  BY <1>1, <1>2, <1>3 DEF FirstStrongest, s

(* One prediction more: it is left out, replaces one of its expert in its  *)
(* place, or is added at the end.                                          *)
LEMMA KeepStrongestExact ==
    ASSUME PlanTypeOK, NEW k \in Nat, k + 1 <= Len(call.predictions), Deduplicated(k),
           UNCHANGED call,
           unique' = IF call.predictions[k + 1].expert \in call.resident THEN unique
                     ELSE KeepStrongest(call.predictions[k + 1])
    PROVE  unique' \in Seq(Prediction) /\ Deduplicated(k + 1)'
<1> DEFINE s == call.predictions
           p == s[k + 1]
<1>1. p \in Prediction /\ call \in Call /\ unique \in Seq(Prediction) /\ s \in Seq(Prediction)
      /\ k + 1 \in DOMAIN s /\ DOMAIN s = 1 .. Len(s)
  BY DEF PlanTypeOK, Call
<1>2. \A u \in Prediction : u.score \in Nat
  BY DEF Prediction
<1>3. /\ \A i \in DOMAIN unique : FirstStrongest(unique[i], k) /\ unique[i].expert \notin call.resident
      /\ \A i, j \in DOMAIN unique : unique[i].expert = unique[j].expert => i = j
      /\ \A j \in 1 .. k : s[j].expert \notin call.resident =>
            \E i \in DOMAIN unique : unique[i].expert = s[j].expert
      /\ StrongestFirst => \A i, j \in DOMAIN unique : i <= j => unique[i].score >= unique[j].score
  BY DEF Deduplicated
<1>4. StrongestFirst => \A i \in DOMAIN unique : unique[i].score >= p.score
  <2> SUFFICES ASSUME StrongestFirst, NEW i \in DOMAIN unique
               PROVE  unique[i].score >= p.score
    OBVIOUS
  <2>1. PICK j \in 1 .. k : s[j] = unique[i]
    BY <1>3 DEF FirstStrongest
  <2>2. j \in DOMAIN s /\ j <= k + 1
    BY <1>1
  <2> QED
    BY <1>1, <2>1, <2>2 DEF StrongestFirst
<1>5. /\ \A u : FirstStrongest(u, k + 1)' <=> FirstStrongest(u, k + 1)
      /\ StrongestFirst' <=> StrongestFirst
  BY DEF FirstStrongest, StrongestFirst
<1> DEFINE same == {i \in DOMAIN unique : unique[i].expert = p.expert}
           i0 == CHOOSE i \in same : TRUE
<1>6. CASE unique' = unique /\ (p.expert \in call.resident \/ \E i \in same : ~(p.score > unique[i].score))
  <2>1. \A i \in DOMAIN unique : FirstStrongest(unique[i], k + 1)
    <3> TAKE i \in DOMAIN unique
    <3>1. p.expert = unique[i].expert => p.score <= unique[i].score
      BY <1>1, <1>2, <1>3, <1>6
    <3> QED
      BY <1>1, <1>3, <3>1, FirstStrongestStays
  <2>2. \A j \in 1 .. k + 1 : s[j].expert \notin call.resident =>
            \E i \in DOMAIN unique : unique[i].expert = s[j].expert
    <3> TAKE j \in 1 .. k + 1
    <3>1. CASE j \in 1 .. k
      BY <1>3, <3>1
    <3>2. CASE j = k + 1
      BY <1>6, <3>2
    <3> QED
      BY <3>1, <3>2
  <2> QED
    BY <1>1, <1>3, <1>5, <1>6, <2>1, <2>2 DEF Deduplicated
<1>7. CASE unique' = Append(unique, p) /\ p.expert \notin call.resident /\ same = {}
  <2> DEFINE n == Len(unique)
  <2>1. n \in Nat /\ DOMAIN unique = 1 .. n /\ DOMAIN unique' = 1 .. n + 1
        /\ unique'[n + 1] = p /\ \A i \in 1 .. n : unique'[i] = unique[i]
    BY <1>1, <1>7
  <2>2. unique' \in Seq(Prediction)
    BY <1>1, <1>7
  <2> HIDE DEF n
  <2>3. \A i \in 1 .. n : FirstStrongest(unique[i], k + 1)
    BY <1>1, <1>3, <1>7, <2>1, FirstStrongestStays
  <2>4. FirstStrongest(p, k + 1)
    <3>1. \A j \in 1 .. k : s[j].expert # p.expert
      BY <1>3, <1>7
    <3>2. \A j \in 1 .. k + 1 : s[j].expert = p.expert => j = k + 1
      BY <3>1
    <3>3. k + 1 \in 1 .. k + 1
      OBVIOUS
    <3> QED
      BY <1>1, <1>2, <3>2, <3>3 DEF FirstStrongest
  <2>5. \A i \in 1 .. n + 1 : FirstStrongest(unique'[i], k + 1) /\ unique'[i].expert \notin call.resident
    BY <1>3, <1>7, <2>1, <2>3, <2>4
  <2>6. \A i, j \in 1 .. n + 1 : unique'[i].expert = unique'[j].expert => i = j
    <3>1. \A i, j \in 1 .. n : unique'[i].expert = unique'[j].expert => i = j
      <4>1. \A i, j \in 1 .. n : unique[i].expert = unique[j].expert => i = j
        BY <1>3, <2>1
      <4>2. \A i \in 1 .. n : unique'[i] = unique[i]
        BY <2>1
      <4> QED
        BY <4>1, <4>2
    <3>2. \A i \in 1 .. n : unique'[i].expert # p.expert
      BY <1>7, <2>1
    <3>3. unique'[n + 1].expert = p.expert
      BY <2>1
    <3>4. \A i \in 1 .. n + 1 : i \in 1 .. n \/ i = n + 1
      BY <2>1
    <3> QED
      BY <3>1, <3>2, <3>3, <3>4
  <2>7. \A j \in 1 .. k + 1 : s[j].expert \notin call.resident =>
            \E i \in 1 .. n + 1 : unique'[i].expert = s[j].expert
    <3> TAKE j \in 1 .. k + 1
    <3> HAVE s[j].expert \notin call.resident
    <3>1. CASE j \in 1 .. k
      <4>1. PICK i \in 1 .. n : unique[i].expert = s[j].expert
        BY <1>3, <2>1, <3>1
      <4>2. i \in 1 .. n + 1 /\ unique'[i] = unique[i]
        BY <2>1
      <4> QED
        BY <4>1, <4>2
    <3>2. CASE j = k + 1
      BY <2>1, <3>2
    <3> QED
      BY <3>1, <3>2
  <2>8. StrongestFirst => \A i, j \in 1 .. n + 1 : i <= j => unique'[i].score >= unique'[j].score
    <3> SUFFICES ASSUME StrongestFirst, NEW i \in 1 .. n + 1, NEW j \in 1 .. n + 1, i <= j
                 PROVE  unique'[i].score >= unique'[j].score
      OBVIOUS
    <3>1. CASE j \in 1 .. n
      <4>1. i \in 1 .. n
        BY <2>1, <3>1
      <4> QED
        BY <1>3, <2>1, <3>1, <4>1
    <3>2. CASE i \in 1 .. n /\ j = n + 1
      BY <1>4, <2>1, <3>2
    <3>3. CASE i = n + 1 /\ j = n + 1
      BY <1>1, <1>2, <2>1, <3>3
    <3> QED
      BY <2>1, <3>1, <3>2, <3>3
  <2>9. StrongestFirst' => \A i, j \in 1 .. n + 1 : i <= j => unique'[i].score >= unique'[j].score
    BY <1>5, <2>8
  <2>10. Deduplicated(k + 1)'
    BY <1>5, <2>1, <2>5, <2>6, <2>7, <2>9 DEF Deduplicated
  <2> QED
    BY <2>2, <2>10
<1>8. CASE /\ unique' = [unique EXCEPT ![i0] = p] /\ p.expert \notin call.resident
           /\ i0 \in same /\ p.score > unique[i0].score
  <2>1. i0 \in DOMAIN unique /\ unique[i0].expert = p.expert
    BY <1>8
  <2> HIDE DEF i0
  <2>2. /\ DOMAIN unique' = DOMAIN unique /\ unique' \in Seq(Prediction)
        /\ \A i \in DOMAIN unique : unique'[i] = IF i = i0 THEN p ELSE unique[i]
    BY <1>1, <1>8, <2>1
  <2>3. \A i \in DOMAIN unique : i # i0 => FirstStrongest(unique[i], k + 1)
    BY <1>1, <1>3, <2>1, FirstStrongestStays
  <2>4. FirstStrongest(p, k + 1)
    <3>1. \A j \in 1 .. k : s[j].expert = p.expert => s[j].score < p.score
      <4> TAKE j \in 1 .. k
      <4>1. s[j].expert = p.expert => s[j].score <= unique[i0].score
        BY <1>3, <2>1 DEF FirstStrongest
      <4>2. s[j].score \in Nat /\ p.score \in Nat /\ unique[i0].score \in Nat
        BY <1>1, <1>2, <2>1
      <4> QED
        BY <1>8, <4>1, <4>2
    <3>2. k + 1 \in 1 .. k + 1
      OBVIOUS
    <3>3. \A j \in 1 .. k + 1 : s[j].expert = p.expert =>
              s[j].score <= p.score /\ (j < k + 1 => s[j].score < p.score)
      <4> TAKE j \in 1 .. k + 1
      <4>1. s[j].score \in Nat /\ p.score \in Nat
        BY <1>1, <1>2
      <4>2. CASE j \in 1 .. k
        BY <3>1, <4>1, <4>2
      <4>3. CASE j = k + 1
        BY <4>1, <4>3
      <4> QED
        BY <4>2, <4>3
    <3> QED
      BY <3>2, <3>3 DEF FirstStrongest
  <2>5. ~StrongestFirst
    BY <1>1, <1>2, <1>4, <1>8, <2>1
  <2>6. \A i, j \in DOMAIN unique : unique'[i].expert = unique'[j].expert => i = j
    <3>1. \A i \in DOMAIN unique : unique'[i].expert = unique[i].expert
      BY <2>1, <2>2
    <3> QED
      BY <1>3, <3>1
  <2>7. \A i \in DOMAIN unique : FirstStrongest(unique'[i], k + 1) /\ unique'[i].expert \notin call.resident
    BY <1>3, <1>8, <2>2, <2>3, <2>4
  <2>8. \A j \in 1 .. k + 1 : s[j].expert \notin call.resident =>
            \E i \in DOMAIN unique : unique'[i].expert = s[j].expert
    <3> TAKE j \in 1 .. k + 1
    <3>1. CASE j \in 1 .. k
      BY <1>3, <2>1, <2>2, <3>1
    <3>2. CASE j = k + 1
      BY <2>1, <2>2, <3>2
    <3> QED
      BY <3>1, <3>2
  <2> QED
    BY <1>5, <2>2, <2>5, <2>6, <2>7, <2>8 DEF Deduplicated
<1>9. \/ p.expert \in call.resident /\ unique' = unique
      \/ p.expert \notin call.resident /\ same = {} /\ unique' = Append(unique, p)
      \/ p.expert \notin call.resident /\ i0 \in same /\ p.score > unique[i0].score
         /\ unique' = [unique EXCEPT ![i0] = p]
      \/ p.expert \notin call.resident /\ i0 \in same /\ ~(p.score > unique[i0].score)
         /\ unique' = unique
  BY DEF KeepStrongest
<1> QED
  BY <1>6, <1>7, <1>8, <1>9

(* The steps of the first loop, and its end.                               *)
LEMMA PlanDeduplicates ==
    ASSUME PlanInv, Deduplicate
    PROVE  PlanInv'
<1> DEFINE s == call.predictions
<1>1. PICK k \in Nat :
         /\ PlanTypeOK /\ pc = "deduplicate" /\ todo # <<>> /\ k = Len(s) - Len(todo)
         /\ \A i \in DOMAIN todo : todo[i] = s[k + i]
         /\ Deduplicated(k) /\ requests = <<>> /\ WithinCapacity
  BY DEF PlanInv, Deduplicate
<1>2. /\ todo' = Tail(todo) /\ pc' = pc /\ call' = call /\ used' = used /\ requests' = requests
  BY DEF Deduplicate
<1>3. /\ todo \in Seq(Prediction) /\ s \in Seq(Prediction) /\ Len(todo) \in Nat /\ Len(s) \in Nat
      /\ Len(todo) >= 1 /\ Head(todo) = todo[1] /\ 1 \in DOMAIN todo
  BY <1>1 DEF PlanTypeOK, Call
<1>4. /\ todo' \in Seq(Prediction) /\ Len(todo') = Len(todo) - 1
      /\ \A i \in DOMAIN todo' : i + 1 \in DOMAIN todo /\ todo'[i] = todo[i + 1] /\ i \in Nat
  BY <1>2, <1>3
<1>5. Head(todo) = s[k + 1] /\ k + 1 <= Len(s)
  BY <1>1, <1>3
<1>6. unique' = IF s[k + 1].expert \in call.resident THEN unique ELSE KeepStrongest(s[k + 1])
  BY <1>5 DEF Deduplicate
<1>7. unique' \in Seq(Prediction) /\ Deduplicated(k + 1)'
  BY <1>1, <1>2, <1>5, <1>6, KeepStrongestExact
<1>8. k + 1 = Len(call'.predictions) - Len(todo') /\ k + 1 \in Nat
  BY <1>1, <1>2, <1>3, <1>4
<1>9. \A i \in DOMAIN todo' : todo'[i] = call'.predictions[(k + 1) + i]
  <2> TAKE i \in DOMAIN todo'
  <2>1. k + (i + 1) = (k + 1) + i
    <3>1. i \in Nat
      BY <1>4
    <3> QED
      BY <3>1
  <2>2. todo'[i] = s[k + (i + 1)]
    BY <1>1, <1>4
  <2> QED
    BY <1>2, <2>1, <2>2
<1>10. PlanTypeOK'
  BY <1>1, <1>2, <1>4, <1>7 DEF PlanTypeOK
<1>11. WithinCapacity'
  BY <1>1, <1>2 DEF WithinCapacity, TotalSize
<1> QED
  BY <1>1, <1>2, <1>7, <1>8, <1>9, <1>10, <1>11 DEF PlanInv

LEMMA PlanBeginsEvaluation ==
    ASSUME PlanInv, BeginEvaluation
    PROVE  PlanInv'
<1>1. /\ PlanTypeOK /\ todo = <<>> /\ requests = <<>> /\ WithinCapacity
      /\ Deduplicated(Len(call.predictions) - Len(todo)) /\ Len(call.predictions) - Len(todo) \in Nat
  BY DEF PlanInv, BeginEvaluation
<1>2. pc' = "evaluate" /\ todo' = unique /\ UNCHANGED <<call, unique, used, requests>>
  BY DEF BeginEvaluation
<1>3. Len(call.predictions) - Len(todo) = Len(call.predictions) /\ Len(call.predictions) \in Nat
      /\ unique \in Seq(Prediction)
  BY <1>1 DEF PlanTypeOK, Call
<1>4. Deduplicated(Len(call.predictions))'
  <2>1. Deduplicated(Len(call.predictions))
    BY <1>1, <1>3
  <2> QED
    BY <1>2, <2>1 DEF Deduplicated, FirstStrongest, StrongestFirst
<1>5. Evaluated(0)'
  BY <1>1, <1>2 DEF Evaluated
<1>6. PlanTypeOK' /\ WithinCapacity'
  BY <1>1, <1>2 DEF PlanTypeOK, WithinCapacity, TotalSize
<1>7. /\ Len(unique') - Len(todo') = 0
      /\ \A i \in DOMAIN todo' : todo'[i] = unique'[0 + i]
  BY <1>2, <1>3
<1> QED
  BY <1>2, <1>4, <1>5, <1>6, <1>7 DEF PlanInv

(* The candidates are the predictions that the properties speak of.        *)
LEMMA StrongestExact ==
    ASSUME call \in Call, NEW u, FirstStrongest(u, Len(call.predictions))
    PROVE  u \in Prediction /\ Strongest(u.expert) = u /\ \E p \in ToSet(call.predictions) : p = u
<1> DEFINE s == call.predictions
           mine == {i \in DOMAIN s : s[i].expert = u.expert}
           best == {i \in mine : \A j \in mine : s[j].score <= s[i].score}
<1>1. s \in Seq(Prediction) /\ DOMAIN s = 1 .. Len(s) /\ Len(s) \in Nat
  BY DEF Call
<1>2. \A i \in DOMAIN s : s[i] \in Prediction /\ s[i].score \in Nat
  <2>1. \A p \in Prediction : p.score \in Nat
    BY DEF Prediction
  <2> HIDE DEF s
  <2> QED
    BY <1>1, <2>1
<1>3. PICK i \in DOMAIN s : /\ s[i] = u
                            /\ \A j \in DOMAIN s : s[j].expert = u.expert =>
                                  s[j].score <= u.score /\ (j < i => s[j].score < u.score)
  BY <1>1 DEF FirstStrongest
<1>4. i \in best
  BY <1>2, <1>3
<1>5. \A j \in best : i <= j
  BY <1>1, <1>2, <1>3
<1>6. \A j \in best : (\A h \in best : j <= h) => j = i
  BY <1>1, <1>4, <1>5
<1>7. (CHOOSE j \in best : \A h \in best : j <= h) = i
  <2> HIDE DEF best
  <2> QED
    BY <1>4, <1>5, <1>6
<1> QED
  BY <1>2, <1>3, <1>7 DEF Strongest, ToSet

(* A candidate that is not taken.                                          *)
LEMMA SkipEvaluated ==
    ASSUME PlanTypeOK, Deduplicated(Len(call.predictions)), NEW m \in Nat, m + 1 \in DOMAIN unique,
           Evaluated(m), IsWorthIt(unique[m + 1]) =>
              call.capacity # NoCapacity /\ ~CanFit(call.size[unique[m + 1].expert]),
           UNCHANGED <<call, unique, used, requests>>
    PROVE  Evaluated(m + 1)'
<1> DEFINE InRequests(i) == unique[i] \in ToSet(requests)
<1>1. unique \in Seq(Prediction) /\ 1 .. m \subseteq DOMAIN unique /\ 1 .. m \subseteq 1 .. m + 1
      /\ \A i \in 1 .. m + 1 : i # m + 1 => i \in 1 .. m
  BY DEF PlanTypeOK
<1>2. ~InRequests(m + 1)
  <2>1. \A i \in DOMAIN requests : \E j \in 1 .. m : requests[i] = unique[j]
    BY DEF Evaluated
  <2>2. \A j \in 1 .. m : unique[j] # unique[m + 1]
    BY <1>1 DEF Deduplicated
  <2> QED
    BY <2>1, <2>2 DEF ToSet
<1>3. Evaluated(m + 1)
  <2>1. \A i \in DOMAIN requests : \E j \in 1 .. m + 1 : requests[i] = unique[j] /\ IsWorthIt(unique[j])
    BY <1>1 DEF Evaluated
  <2>2. ASSUME NEW i \in 1 .. m + 1, IsWorthIt(unique[i]), ~InRequests(i)
        PROVE  /\ call.capacity # NoCapacity /\ ~CanFit(call.size[unique[i].expert])
               /\ OneSize => \A j \in 1 .. m + 1 : InRequests(j) => j < i
    <3>1. CASE i = m + 1
      BY <1>1, <1>2, <2>2, <3>1
    <3>2. CASE i \in 1 .. m
      BY <1>1, <1>2, <2>2, <3>2 DEF Evaluated
    <3> QED
      BY <1>1, <3>1, <3>2
  <2> QED
    BY <2>1, <2>2 DEF Evaluated
<1> QED
  BY <1>3 DEF Evaluated, IsWorthIt, Benefit, CanFit, OneSize

(* A candidate that is taken: it fits, so it would have fitted before.     *)
LEMMA TakeEvaluated ==
    ASSUME PlanTypeOK, Deduplicated(Len(call.predictions)), NEW m \in Nat, m + 1 \in DOMAIN unique,
           Evaluated(m), IsWorthIt(unique[m + 1]),
           requests' = Append(requests, unique[m + 1]), UNCHANGED <<call, unique>>,
           \/ call.capacity = NoCapacity /\ used' = used
           \/ call.capacity # NoCapacity /\ CanFit(call.size[unique[m + 1].expert])
              /\ used' = used + call.size[unique[m + 1].expert]
    PROVE  Evaluated(m + 1)'
<1> DEFINE p == unique[m + 1]
           n == Len(requests)
<1>1. /\ unique \in Seq(Prediction) /\ 1 .. m \subseteq DOMAIN unique /\ p \in Prediction
      /\ \A i \in 1 .. m + 1 : i # m + 1 => i \in 1 .. m
      /\ \A i \in 1 .. m : i \in 1 .. m + 1
      /\ \A i \in 1 .. m + 1 : unique[i] \in Prediction
  BY DEF PlanTypeOK
<1>2. /\ n \in Nat /\ DOMAIN requests = 1 .. n /\ DOMAIN requests' = 1 .. n + 1
      /\ requests'[n + 1] = p /\ \A i \in 1 .. n : requests'[i] = requests[i]
  BY DEF PlanTypeOK
<1>3. /\ call \in Call /\ used \in Nat /\ \A q \in Prediction : call.size[q.expert] \in Nat
      /\ call.capacity # NoCapacity => call.capacity \in Nat
  BY DEF PlanTypeOK, Call, Prediction
<1>4. \A j \in 1 .. m : unique[j] # p
  BY <1>1 DEF Deduplicated
<1> HIDE DEF p, n
<1>5. p \notin ToSet(requests)
  BY <1>4 DEF Evaluated, ToSet
<1>6. ToSet(requests') = ToSet(requests) \cup {p}
  BY <1>2 DEF ToSet
<1>7. \A q : /\ IsWorthIt(q)' <=> IsWorthIt(q)
             /\ q \in Prediction /\ CanFit(call.size[q.expert])' => CanFit(call.size[q.expert])
  <2>1. call' = call /\ call.capacity # NoCapacity => call.capacity \in Nat
    BY <1>1, <1>3
  <2>2. \A q : IsWorthIt(q)' <=> IsWorthIt(q)
    BY <1>1 DEF IsWorthIt, Benefit
  <2>3. call.size[p.expert] \in Nat
    BY <1>3 DEF p, PlanTypeOK
  <2>4. used' = used \/ (call.capacity # NoCapacity /\ used' = used + call.size[p.expert])
    BY <1>1 DEF p
  <2>5. \A q \in Prediction : CanFit(call.size[q.expert])' => CanFit(call.size[q.expert])
    <3>1. PICK c, d, u, v : c = call.capacity /\ d = call.size[p.expert] /\ u = used /\ v = used'
      OBVIOUS
    <3>2. CASE used' = used
      BY <1>1, <3>2 DEF CanFit
    <3>3. CASE c # NoCapacity /\ used' = used + d
      <4>1. c \in Nat /\ d \in Nat /\ u \in Nat /\ v = u + d
        BY <1>3, <2>3, <3>1, <3>3
      <4>2. \A z \in Nat : z <= c - v => z <= c - u
        BY <4>1
      <4>3. \A z \in Nat : CanFit(z)' => CanFit(z)
        BY <1>1, <3>1, <4>2 DEF CanFit
      <4> QED
        BY <1>1, <1>3, <4>3
    <3> QED
      BY <2>4, <3>1, <3>2, <3>3
  <2> QED
    BY <2>2, <2>5
<1>8. OneSize' <=> OneSize
  BY DEF OneSize
<1>9. \A i \in DOMAIN requests' : \E j \in 1 .. m + 1 : requests'[i] = unique'[j] /\ IsWorthIt(unique[j])'
  <2> TAKE i \in DOMAIN requests'
  <2>1. CASE i \in 1 .. n
    <3>1. PICK j \in 1 .. m : requests[i] = unique[j] /\ IsWorthIt(unique[j])
      BY <1>2, <2>1 DEF Evaluated
    <3> QED
      BY <1>1, <1>2, <1>7, <2>1, <3>1
  <2>2. CASE i = n + 1
    <3>1. m + 1 \in 1 .. m + 1
      OBVIOUS
    <3> QED
      BY <1>2, <1>7, <2>2, <3>1 DEF p
  <2> QED
    BY <1>2, <2>1, <2>2
<1>10. \A i, j \in DOMAIN requests' : requests'[i] = requests'[j] => i = j
  BY <1>2, <1>5 DEF Evaluated, ToSet
<1>11. ASSUME NEW i \in 1 .. m + 1, IsWorthIt(unique[i]), unique[i] \notin ToSet(requests')
       PROVE  /\ call.capacity # NoCapacity /\ ~CanFit(call.size[unique[i].expert])'
              /\ OneSize => \A j \in 1 .. m + 1 : unique[j] \in ToSet(requests') => j < i
  <2>1. i \in 1 .. m /\ unique[i] \notin ToSet(requests) /\ unique[i] \in Prediction
    BY <1>1, <1>6, <1>11 DEF p
  <2>2. /\ call.capacity # NoCapacity /\ ~CanFit(call.size[unique[i].expert])
        /\ OneSize => \A j \in 1 .. m : unique[j] \in ToSet(requests) => j < i
    BY <1>11, <2>1 DEF Evaluated
  <2>3. ~OneSize
    <3>1. CanFit(call.size[p.expert])
      BY <2>2 DEF p
    <3>2. p.expert \in Experts /\ unique[i].expert \in Experts
      BY <1>1, <2>1 DEF Prediction
    <3> QED
      BY <2>2, <3>1, <3>2 DEF OneSize
  <2> QED
    BY <1>7, <2>1, <2>2, <2>3
<1> QED
  BY <1>7, <1>8, <1>9, <1>10, <1>11 DEF Evaluated

(* The steps of the second loop.                                           *)
LEMMA PlanEvaluates ==
    ASSUME PlanInv, Evaluate
    PROVE  PlanInv'
<1>1. PICK m \in Nat :
         /\ PlanTypeOK /\ pc = "evaluate" /\ todo # <<>> /\ m = Len(unique) - Len(todo)
         /\ \A i \in DOMAIN todo : todo[i] = unique[m + i]
         /\ Deduplicated(Len(call.predictions)) /\ Evaluated(m) /\ WithinCapacity
  BY DEF PlanInv, Evaluate
<1> DEFINE p == unique[m + 1]
<1>2. /\ todo \in Seq(Prediction) /\ unique \in Seq(Prediction) /\ requests \in Seq(Prediction)
      /\ Len(todo) \in Nat /\ Len(unique) \in Nat /\ Len(todo) >= 1 /\ Head(todo) = todo[1] /\ 1 \in DOMAIN todo
  BY <1>1 DEF PlanTypeOK
<1>3. /\ todo' = Tail(todo) /\ todo' \in Seq(Prediction) /\ Len(todo') = Len(todo) - 1
      /\ \A i \in DOMAIN todo' : i + 1 \in DOMAIN todo /\ todo'[i] = todo[i + 1] /\ i \in Nat
  BY <1>2 DEF Evaluate
<1>4. Head(todo) = p /\ m + 1 \in DOMAIN unique /\ p \in Prediction
  <2>1. Head(todo) = p
    BY <1>1, <1>2
  <2>2. m + 1 \in 1 .. Len(unique)
    BY <1>1, <1>2
  <2>3. p \in Prediction
    BY <1>2, <2>2
  <2> QED
    BY <1>2, <2>1, <2>2, <2>3
<1>5. call' = call /\ unique' = unique
  BY DEF Evaluate
<1>6. m + 1 = Len(unique') - Len(todo') /\ m + 1 \in Nat
  BY <1>1, <1>2, <1>3, <1>5
<1>7. \A i \in DOMAIN todo' : todo'[i] = unique'[(m + 1) + i]
  <2> TAKE i \in DOMAIN todo'
  <2>1. m + (i + 1) = (m + 1) + i
    <3>1. i \in Nat
      BY <1>3
    <3> QED
      BY <3>1
  <2>2. todo'[i] = unique[m + (i + 1)]
    BY <1>1, <1>3
  <2> QED
    BY <1>5, <2>1, <2>2
<1>8. Deduplicated(Len(call.predictions))'
  BY <1>1, <1>5 DEF Deduplicated, FirstStrongest, StrongestFirst
<1>9. /\ FirstStrongest(p, Len(call.predictions)) /\ p.expert \notin call.resident
      /\ call \in Call /\ call.size[p.expert] \in Nat
  BY <1>1, <1>4 DEF Deduplicated, PlanTypeOK, Call, Prediction
<1>10. p.expert \in Predicted /\ Strongest(p.expert) = p
  BY <1>9, StrongestExact DEF Predicted
<1> HIDE DEF p
<1>11. CASE ~IsValid(p) /\ Raise /\ UNCHANGED used
  <2>1. PlanTypeOK'
    <3>1. pc' = "raised" /\ requests' = <<>> /\ used' = used
      BY <1>11 DEF Raise
    <3> QED
      BY <1>1, <1>2, <1>3, <1>5, <3>1 DEF PlanTypeOK
  <2>2. (\E e \in Predicted : ~IsValid(Strongest(e)))'
    <3>1. Predicted' = Predicted
      BY <1>5 DEF Predicted
    <3>2. \A e : Strongest(e)' = Strongest(e)
      BY <1>5 DEF Strongest
    <3>3. \E e \in Predicted : ~IsValid(Strongest(e))
      BY <1>10, <1>11
    <3> QED
      BY <3>1, <3>2, <3>3 DEF IsValid
  <2> QED
    BY <1>11, <2>1, <2>2 DEF PlanInv, Raise
<1>12. CASE Decide(p) # "PREFETCH" /\ UNCHANGED <<pc, used, requests>>
  <2>1. IsWorthIt(p) => call.capacity # NoCapacity /\ ~CanFit(call.size[p.expert])
    BY <1>12 DEF Decide
  <2>2. Evaluated(m + 1)'
    BY <1>1, <1>4, <1>5, <1>12, <2>1, SkipEvaluated DEF p
  <2>3. PlanTypeOK' /\ WithinCapacity'
    BY <1>1, <1>3, <1>5, <1>12 DEF PlanTypeOK, WithinCapacity, TotalSize
  <2> QED
    BY <1>1, <1>6, <1>7, <1>8, <1>12, <2>2, <2>3 DEF PlanInv
<1>13. CASE /\ Decide(p) = "PREFETCH" /\ requests' = Append(requests, p) /\ UNCHANGED pc
            /\ \/ call.capacity = NoCapacity /\ used' = used
               \/ call.capacity # NoCapacity /\ CanFit(call.size[p.expert])
                  /\ used' = used + call.size[p.expert]
  <2>1. IsWorthIt(p)
    BY <1>13 DEF Decide
  <2>2. Evaluated(m + 1)'
    BY <1>1, <1>4, <1>5, <1>13, <2>1, TakeEvaluated DEF p
  <2>3. used' \in Nat /\ requests' \in Seq(Prediction)
    BY <1>1, <1>2, <1>4, <1>9, <1>13 DEF PlanTypeOK
  <2>4. PlanTypeOK'
    BY <1>1, <1>3, <1>5, <1>13, <2>3 DEF PlanTypeOK
  <2>5. TotalSize(requests') = TotalSize(requests) + call.size[p.expert] /\ TotalSize(requests) \in Int
    BY <1>2, <1>4, <1>9, <1>13, TotalSizeExact
  <2>6. TotalSize(requests)' = TotalSize(requests')
    BY <1>5 DEF TotalSize
  <2>7. WithinCapacity'
    <3>1. call.used \in Nat /\ used \in Nat /\ (call.capacity # NoCapacity => call.capacity \in Nat)
      BY <1>1 DEF PlanTypeOK, Call
    <3>2. CASE call.capacity = NoCapacity
      BY <1>5, <3>2 DEF WithinCapacity
    <3>3. CASE call.capacity # NoCapacity
      <4>1. used = call.used + TotalSize(requests) /\ call.capacity \in Nat
        BY <1>1, <3>1, <3>3 DEF WithinCapacity
      <4>2. call.size[p.expert] <= call.capacity - used /\ used' = used + call.size[p.expert]
        BY <1>13, <3>3 DEF CanFit
      <4>3. used' <= call.capacity
        BY <1>9, <3>1, <4>1, <4>2
      <4>4. used' = call.used + (TotalSize(requests) + call.size[p.expert])
        BY <1>9, <2>5, <3>1, <4>1, <4>2
      <4>5. used' = call.used + TotalSize(requests)'
        BY <2>5, <2>6, <4>4
      <4> QED
        BY <1>5, <4>3, <4>5 DEF WithinCapacity
    <3> QED
      BY <3>2, <3>3
  <2> QED
    BY <1>1, <1>6, <1>7, <1>8, <1>13, <2>2, <2>4, <2>7 DEF PlanInv
<1>14. CASE /\ Decide(p) = "PREFETCH" /\ call.capacity # NoCapacity /\ ~CanFit(call.size[p.expert])
  BY <1>14 DEF Decide
<1> QED
  BY <1>4, <1>11, <1>12, <1>13, <1>14 DEF Evaluate, Reserve

(* Multiplying both sides by a positive number.                            *)
LEMMA ProductMonotonic ==
    ASSUME NEW x \in Int, NEW y \in Int, NEW n \in Nat, n >= 1
    PROVE  x * n \in Int /\ y * n \in Int /\ (x < y <=> x * n < y * n)
  BY SMTT(30)

(* Comparing crosswise is transitive, as comparing the quotients is.       *)
LEMMA CrosswiseTransitive ==
    ASSUME NEW a \in Int, NEW b \in Int, NEW c \in Int,
           NEW u \in Nat, NEW v \in Nat, NEW w \in Nat, u >= 1, v >= 1, w >= 1,
           a * v <= b * u, b * w <= c * v
    PROVE  a * w <= c * u /\ (a * v < b * u \/ b * w < c * v => a * w < c * u)
<1>1. /\ a * v \in Int /\ b * u \in Int /\ b * w \in Int /\ c * v \in Int /\ a * w \in Int /\ c * u \in Int
  OBVIOUS
<1>2. (a * v) * w <= (b * u) * w /\ (a * v < b * u => (a * v) * w < (b * u) * w)
  BY <1>1, ProductMonotonic
<1>3. (b * w) * u <= (c * v) * u /\ (b * w < c * v => (b * w) * u < (c * v) * u)
  BY <1>1, ProductMonotonic
<1>4. (b * u) * w = (b * w) * u /\ (a * v) * w = (a * w) * v /\ (c * v) * u = (c * u) * v
  BY SMTT(30)
<1>5. /\ (a * w) * v <= (c * u) * v
      /\ a * v < b * u \/ b * w < c * v => (a * w) * v < (c * u) * v
  <2>1. (b * w) * u \in Int /\ (a * w) * v \in Int /\ (c * u) * v \in Int
    BY <1>1
  <2> QED
    BY <1>2, <1>3, <1>4, <2>1
<1>6. /\ a * w < c * u <=> (a * w) * v < (c * u) * v
      /\ c * u < a * w <=> (c * u) * v < (a * w) * v
      /\ (a * w) * v \in Int /\ (c * u) * v \in Int
  BY <1>1, ProductMonotonic
<1> QED
  BY <1>1, <1>5, <1>6

(* The order of the plan is a weak order, as sort() needs it.              *)
LEMMA BeforeIsWeak ==
    ASSUME call \in Call, NEW S \in SUBSET Prediction
    PROVE  WeakOrderOn(S, OrderOn(S, Before))
<1> DEFINE b(p) == Benefit(p)
           w(p) == Slowdown(p)
           R == OrderOn(S, Before)
<1>1. \A p \in Prediction : b(p) \in Int /\ w(p) \in Nat /\ w(p) >= 1 /\ p.expert \in Nat
  <2> TAKE p \in Prediction
  <2>1. p.expert \in Experts /\ p.score \in Nat /\ p.distance \in Nat \cup {NoDistance}
    BY DEF Prediction
  <2>2. call.cost[p.expert] \in Nat
    BY <2>1 DEF Call
  <2>3. Benefit(p) \in Int
    BY <2>1, <2>2, SchedulerAssumption DEF Benefit
  <2>4. Slowdown(p) \in Nat /\ Slowdown(p) >= 1
    BY <2>1 DEF Slowdown
  <2> QED
    BY <2>1, <2>3, <2>4, SchedulerAssumption
<1>2. \A p, q \in S : <<p, q>> \in R <=>
         \/ b(p) * w(q) > b(q) * w(p)
         \/ b(p) * w(q) = b(q) * w(p) /\ p.expert < q.expert
  BY DEF OrderOn, Before
<1> HIDE DEF b, w, R
<1>3. \A x, y \in S : <<x, y>> \in R => <<y, x>> \notin R
  <2> TAKE x, y \in S
  <2>1. b(x) * w(y) \in Int /\ b(y) * w(x) \in Int
    BY <1>1
  <2>2. x.expert \in Nat /\ y.expert \in Nat
    BY <1>1
  <2> HIDE DEF b, w
  <2> QED
    BY <1>2, <2>1, <2>2
<1>4. \A x, y, z \in S : <<x, z>> \in R => <<x, y>> \in R \/ <<y, z>> \in R
  <2> TAKE x, y, z \in S
  <2> HAVE <<x, z>> \in R
  <2>1. SUFFICES ASSUME <<x, y>> \notin R, <<y, z>> \notin R
                 PROVE  FALSE
    OBVIOUS
  <2>2. b(x) \in Int /\ b(y) \in Int /\ b(z) \in Int /\ w(x) \in Nat /\ w(y) \in Nat /\ w(z) \in Nat
        /\ w(x) >= 1 /\ w(y) >= 1 /\ w(z) >= 1
    BY <1>1
  <2>3. /\ b(x) * w(y) \in Int /\ b(y) * w(x) \in Int /\ b(y) * w(z) \in Int
        /\ b(z) * w(y) \in Int /\ b(x) * w(z) \in Int /\ b(z) * w(x) \in Int
        /\ x.expert \in Nat /\ y.expert \in Nat /\ z.expert \in Nat
    BY <1>1, <2>2
  <2>4. b(x) * w(y) <= b(y) * w(x) /\ b(y) * w(z) <= b(z) * w(y)
    BY <1>2, <2>1, <2>3
  <2>5. /\ b(x) * w(z) <= b(z) * w(x)
        /\ b(x) * w(y) < b(y) * w(x) \/ b(y) * w(z) < b(z) * w(y) => b(x) * w(z) < b(z) * w(x)
    BY <2>2, <2>4, CrosswiseTransitive
  <2> QED
    BY <1>2, <2>1, <2>3, <2>4, <2>5
<1> QED
  BY <1>3, <1>4 DEF WeakOrderOn, R

(* Sorting a plan changes neither what is in it nor its size.              *)
LEMMA PlanRanks ==
    ASSUME PlanInv, Rank
    PROVE  PlanInv'
<1> DEFINE R == OrderOn(ToSet(requests), Before)
           f == [i \in DOMAIN requests |-> call.size[requests[i].expert]]
           g == [i \in DOMAIN requests |-> call.size[requests'[i].expert]]
<1>1. PICK m \in Nat :
         /\ PlanTypeOK /\ pc = "evaluate" /\ todo = <<>> /\ m = Len(unique) - Len(todo)
         /\ Deduplicated(Len(call.predictions)) /\ Evaluated(m) /\ WithinCapacity
  BY DEF PlanInv, Rank
<1>2. pc' = "returned" /\ requests' = StableSort(requests, R) /\ UNCHANGED <<call, todo, unique, used>>
  BY DEF Rank
<1>3. requests \in Seq(Prediction) /\ call \in Call /\ \A p \in Prediction : call.size[p.expert] \in Int
  BY <1>1 DEF PlanTypeOK, Call, Prediction
<1>4. ToSet(requests) \in SUBSET Prediction
  BY <1>3 DEF ToSet
<1> HIDE DEF f, g
<1>4a. WeakOrderOn(ToSet(requests), R)
  BY <1>3, <1>4, BeforeIsWeak
<1> HIDE DEF R
<1>5. PICK place \in [DOMAIN requests -> DOMAIN requests] :
         /\ requests' \in Seq(Prediction) /\ Len(requests') = Len(requests)
         /\ \A i, j \in DOMAIN requests : i # j => place[i] # place[j]
         /\ \A x \in DOMAIN requests : \E i \in DOMAIN requests : place[i] = x
         /\ \A i \in DOMAIN requests : requests'[i] = requests[place[i]]
         /\ ToSet(requests') = ToSet(requests)
  <2>1. /\ StableSort(requests, R) \in Seq(Prediction)
        /\ Len(StableSort(requests, R)) = Len(requests)
        /\ ToSet(StableSort(requests, R)) = ToSet(requests)
        /\ Rearranged(requests, StableSort(requests, R))
    BY <1>3, <1>4a, StableSortExact
  <2> QED
    BY <1>2, <2>1 DEF Rearranged
<1>6. DOMAIN requests = 1 .. Len(requests) /\ DOMAIN requests' = DOMAIN requests /\ IsFiniteSet(DOMAIN requests)
  BY <1>3, <1>5, FS_Interval
<1>7. Evaluated(m)'
  <2>1. \A i \in DOMAIN requests : \E j \in 1 .. m : requests'[i] = unique[j] /\ IsWorthIt(unique[j])
    <3> TAKE i \in DOMAIN requests
    <3>1. place[i] \in DOMAIN requests /\ requests'[i] = requests[place[i]]
      BY <1>5
    <3> QED
      BY <1>1, <3>1 DEF Evaluated
  <2>2. \A i, j \in DOMAIN requests : requests'[i] = requests'[j] => i = j
    BY <1>1, <1>5 DEF Evaluated
  <2>3. \A i \in 1 .. m : IsWorthIt(unique[i]) /\ unique[i] \notin ToSet(requests') =>
          /\ call.capacity # NoCapacity /\ ~CanFit(call.size[unique[i].expert])
          /\ OneSize => \A j \in 1 .. m : unique[j] \in ToSet(requests') => j < i
    BY <1>1, <1>5 DEF Evaluated
  <2> QED
    BY <1>2, <1>6, <2>1, <2>2, <2>3 DEF Evaluated, IsWorthIt, Benefit, CanFit, OneSize
<1>8. TotalSize(requests') = TotalSize(requests)
  <2>1. \A i \in DOMAIN requests : f[i] \in Int /\ g[i] = f[place[i]]
    <3> TAKE i \in DOMAIN requests
    <3>1. place[i] \in DOMAIN requests /\ requests'[i] = requests[place[i]] /\ requests[i] \in Prediction
      BY <1>3, <1>5
    <3> QED
      BY <1>3, <3>1 DEF f, g
  <2>2. DOMAIN f = DOMAIN requests /\ DOMAIN g = DOMAIN requests
    BY DEF f, g
  <2>3. TotalSize(requests) = SumFunctionOnSet(f, DOMAIN requests)
    BY <2>2 DEF TotalSize, SumFunction, f
  <2>4. TotalSize(requests') = SumFunctionOnSet(g, DOMAIN requests)
    BY <1>6, <2>2 DEF TotalSize, SumFunction, g
  <2> DEFINE D == DOMAIN requests
  <2>6. /\ IsFiniteSet(D) /\ place \in [D -> D] /\ \A i \in D : f[i] \in Int /\ g[i] = f[place[i]]
        /\ \A i, j \in D : i # j => place[i] # place[j]
        /\ \A x \in D : \E i \in D : place[i] = x
    BY <1>5, <1>6, <2>1
  <2> HIDE DEF D
  <2>5. SumFunctionOnSet(g, D) = SumFunctionOnSet(f, D)
    BY <2>6, SumReindexed
  <2> QED
    BY <2>3, <2>4, <2>5 DEF D
<1>9. WithinCapacity'
  <2>1. TotalSize(requests)' = TotalSize(requests')
    BY <1>2 DEF TotalSize
  <2> QED
    BY <1>1, <1>2, <1>8, <2>1 DEF WithinCapacity
<1>10. PlanTypeOK'
  BY <1>1, <1>2, <1>5 DEF PlanTypeOK
<1>11. Deduplicated(Len(call.predictions))'
  BY <1>1, <1>2 DEF Deduplicated, FirstStrongest, StrongestFirst
<1>12. m = Len(unique') - Len(todo') /\ \A i \in DOMAIN todo' : todo'[i] = unique'[m + i]
  BY <1>1, <1>2
<1> QED
  BY <1>1, <1>2, <1>7, <1>9, <1>10, <1>11, <1>12 DEF PlanInv

(* After a call, and between the calls.                                    *)
LEMMA PlanReturns ==
    ASSUME Return
    PROVE  PlanInv'
  BY NoCallIsCall DEF Return, PlanInv, PlanTypeOK

LEMMA PlanUntouched ==
    ASSUME PlanInv, UNCHANGED planVars
    PROVE  PlanInv'
<1>1. UNCHANGED <<pc, call, todo, unique, used, requests>>
  BY DEF planVars
<1>2. \A k : Deduplicated(k)' <=> Deduplicated(k)
  BY <1>1 DEF Deduplicated, FirstStrongest, StrongestFirst
<1>3. \A m : Evaluated(m)' <=> Evaluated(m)
  BY <1>1 DEF Evaluated, OneSize, IsWorthIt, Benefit, CanFit
<1>4. (WithinCapacity' <=> WithinCapacity) /\ (PlanTypeOK' <=> PlanTypeOK)
  BY <1>1 DEF WithinCapacity, TotalSize, PlanTypeOK
<1>5. Predicted' = Predicted /\ \A e : Strongest(e)' = Strongest(e)
  BY <1>1 DEF Predicted, Strongest
<1>6. (NoCall' = NoCall) /\ \A p : IsValid(p)' <=> IsValid(p)
  BY DEF NoCall, IsValid
<1> QED
  BY <1>1, <1>2, <1>3, <1>4, <1>5, <1>6 DEF PlanInv

(* The two loops do what PlanInv says of them.                             *)
THEOREM PlanInvariant == Spec => []PlanInv
<1>1. ASSUME PlanInv, [Next]_vars
      PROVE  PlanInv'
  <2>1. CASE pc = "idle" /\ \E c \in Calls : Plan(c)
    BY <1>1, <2>1, PlanStarts
  <2>2. CASE Deduplicate
    BY <1>1, <2>2, PlanDeduplicates
  <2>3. CASE BeginEvaluation
    BY <1>1, <2>3, PlanBeginsEvaluation
  <2>4. CASE Evaluate
    BY <1>1, <2>4, PlanEvaluates
  <2>5. CASE Rank
    BY <1>1, <2>5, PlanRanks
  <2>6. CASE Return
    BY <2>6, PlanReturns
  <2>7. CASE UNCHANGED planVars
    BY <1>1, <2>7, PlanUntouched
  <2> QED
    BY <1>1, <2>1, <2>2, <2>3, <2>4, <2>5, <2>6, <2>7 DEF Next, PlanNext, vars
<1> QED
  BY <1>1, PlanInitially, PTL DEF Spec

(* The three properties, from the invariant.                               *)
LEMMA PlanInvGivesNoOvercommit ==
    ASSUME PlanInv
    PROVE  NoOvercommit
<1>1. call \in Call /\ pc \in {"idle", "deduplicate", "evaluate", "returned", "raised"}
  BY DEF PlanInv, PlanTypeOK
<1>2. pc = "idle" => call.capacity = NoCapacity
  BY NoCallIsCall DEF PlanInv
<1>3. pc \in {"deduplicate", "evaluate", "returned"} => WithinCapacity
  BY DEF PlanInv
<1>4. pc = "raised" => \/ call.capacity # NoCapacity /\ call.used > call.capacity
                       \/ \E e \in Predicted : ~IsValid(Strongest(e))
  BY DEF PlanInv
<1> QED
  BY <1>1, <1>2, <1>3, <1>4 DEF NoOvercommit, WithinCapacity

(* When the call returns, every candidate has been looked at.              *)
LEMMA ReturnedPlan ==
    ASSUME PlanInv, pc = "returned"
    PROVE  /\ call \in Call /\ unique \in Seq(Prediction) /\ requests \in Seq(Prediction)
           /\ Deduplicated(Len(call.predictions)) /\ Evaluated(Len(unique))
           /\ \A i \in DOMAIN unique : unique[i].expert \in Predicted /\ Strongest(unique[i].expert) = unique[i]
           /\ \A p \in Wanted : \E i \in DOMAIN unique : unique[i] = p /\ IsWorthIt(p)
           /\ \A p \in ToSet(requests) : \E i \in DOMAIN unique : unique[i] = p
<1> DEFINE s == call.predictions
<1>1. PICK m \in Nat : PlanTypeOK /\ todo = <<>> /\ m = Len(unique) - Len(todo)
                       /\ Deduplicated(Len(s)) /\ Evaluated(m)
  BY DEF PlanInv
<1>2. call \in Call /\ unique \in Seq(Prediction) /\ requests \in Seq(Prediction) /\ s \in Seq(Prediction)
  BY <1>1 DEF PlanTypeOK, Call
<1>3. m = Len(unique) /\ DOMAIN unique = 1 .. m /\ DOMAIN s = 1 .. Len(s)
  BY <1>1, <1>2
<1>4. ASSUME NEW i \in DOMAIN unique
      PROVE  unique[i].expert \in Predicted /\ Strongest(unique[i].expert) = unique[i]
  BY <1>1, <1>2, StrongestExact DEF Deduplicated, Predicted
<1>5. ASSUME NEW p \in Wanted
      PROVE  \E i \in DOMAIN unique : unique[i] = p /\ IsWorthIt(p)
  <2>1. PICK e \in Predicted : p = Strongest(e) /\ IsWorthIt(p)
    BY <1>5 DEF Wanted
  <2>2. PICK j \in 1 .. Len(s) : s[j].expert = e /\ e \notin call.resident
    BY <1>3 DEF Predicted, ToSet
  <2>3. PICK i \in DOMAIN unique : unique[i].expert = e
    BY <1>1, <2>2 DEF Deduplicated
  <2> QED
    BY <1>4, <2>1, <2>3
<1>6. \A p \in ToSet(requests) : \E i \in DOMAIN unique : unique[i] = p
  BY <1>1, <1>3 DEF Evaluated, ToSet
<1> QED
  BY <1>1, <1>2, <1>3, <1>4, <1>5, <1>6

LEMMA PlanInvGivesPlanIsFull ==
    ASSUME PlanInv
    PROVE  PlanIsFull
<1> SUFFICES ASSUME pc = "returned"
             PROVE  /\ ToSet(requests) \subseteq Wanted
                    /\ Len(requests) = Cardinality(ToSet(requests))
                    /\ \A p \in Wanted \ ToSet(requests) :
                          call.capacity # NoCapacity /\ ~CanFit(call.size[p.expert])
  BY DEF PlanIsFull
<1>1. /\ unique \in Seq(Prediction) /\ requests \in Seq(Prediction) /\ Evaluated(Len(unique))
      /\ \A i \in DOMAIN unique : unique[i].expert \in Predicted /\ Strongest(unique[i].expert) = unique[i]
      /\ \A p \in Wanted : \E i \in DOMAIN unique : unique[i] = p /\ IsWorthIt(p)
  BY ReturnedPlan
<1>2. DOMAIN unique = 1 .. Len(unique) /\ DOMAIN requests = 1 .. Len(requests) /\ Len(requests) \in Nat
  BY <1>1
<1>3. ToSet(requests) \subseteq Wanted
  <2> SUFFICES ASSUME NEW i \in DOMAIN requests
               PROVE  requests[i] \in Wanted
    BY DEF ToSet
  <2>1. PICK j \in DOMAIN unique : requests[i] = unique[j] /\ IsWorthIt(unique[j])
    BY <1>1, <1>2 DEF Evaluated
  <2> QED
    BY <1>1, <2>1 DEF Wanted
<1>4. Len(requests) = Cardinality(ToSet(requests))
  <2>1. \A i, j \in DOMAIN requests : requests[i] = requests[j] => i = j
    BY <1>1 DEF Evaluated
  <2>2. requests \in Bijection(1 .. Len(requests), ToSet(requests))
    BY <1>1, <1>2, <2>1 DEF ToSet, Bijection, Injection, Surjection, IsInjective
  <2>3. IsFiniteSet(1 .. Len(requests)) /\ Cardinality(1 .. Len(requests)) = Len(requests)
    <3>1. Len(requests) \in Int /\ 1 \in Int /\ Len(requests) >= 0
      BY <1>2
    <3>2. PICK l : l = Len(requests)
      OBVIOUS
    <3>3. \A m \in Nat : IsFiniteSet(1 .. m) /\ Cardinality(1 .. m) = m
      BY FS_Interval
    <3>4. l \in Nat
      BY <3>1, <3>2
    <3> QED
      BY <3>2, <3>3, <3>4
  <2> QED
    BY <2>2, <2>3, FS_Bijection DEF ExistsBijection
<1>5. \A p \in Wanted \ ToSet(requests) : call.capacity # NoCapacity /\ ~CanFit(call.size[p.expert])
  BY <1>1, <1>2 DEF Evaluated
<1> QED
  BY <1>3, <1>4, <1>5

LEMMA PlanInvGivesStrongestGetTheSpace ==
    ASSUME PlanInv
    PROVE  StrongestGetTheSpace
<1> SUFFICES ASSUME pc = "returned", StrongestFirst, OneSize,
                    NEW p \in ToSet(requests), NEW q \in Wanted \ ToSet(requests)
             PROVE  p.score >= q.score
  BY DEF StrongestGetTheSpace, StrongestFirst, OneSize
<1>1. /\ unique \in Seq(Prediction) /\ Evaluated(Len(unique)) /\ Deduplicated(Len(call.predictions))
      /\ \A r \in Wanted : \E i \in DOMAIN unique : unique[i] = r /\ IsWorthIt(r)
      /\ \A r \in ToSet(requests) : \E i \in DOMAIN unique : unique[i] = r
  BY ReturnedPlan
<1>2. DOMAIN unique = 1 .. Len(unique)
  BY <1>1
<1>3. PICK j \in DOMAIN unique : unique[j] = p
  BY <1>1
<1>4. PICK i \in DOMAIN unique : unique[i] = q /\ IsWorthIt(q)
  BY <1>1
<1>5. j < i
  BY <1>1, <1>2, <1>3, <1>4 DEF Evaluated
<1>6. j <= i
  BY <1>2, <1>5
<1> QED
  BY <1>1, <1>3, <1>4, <1>6 DEF Deduplicated

(* No overcommitment, whatever is called: requests and what the cache held *)
(* before fit in it together, at every moment of the loop, and the error   *)
(* of CapacityManager.reserve() cannot come (scheduler.py:378-382).        *)
THEOREM NeverOvercommitted == Spec => []NoOvercommit
  BY PlanInvariant, PlanInvGivesNoOvercommit, PTL

(* A plan has the strongest prediction of every expert that is worth it,   *)
(* but for those that do not fit beside it (scheduler.py:244-382).         *)
THEOREM PlansAreFull == Spec => []PlanIsFull
  BY PlanInvariant, PlanInvGivesPlanIsFull, PTL

(* With experts of one size and predictions in the order of their scores,  *)
(* the capacity goes to the strongest (scheduler.py:272, 357-382).         *)
THEOREM SpaceGoesToTheStrongest == Spec => []StrongestGetTheSpace
  BY PlanInvariant, PlanInvGivesStrongestGetTheSpace, PTL
-----------------------------------------------------------------------------
(* The order in which the candidates are to leave, what the first k of     *)
(* them free, and that an expert is there once.                            *)
EvictionOrder == Sorted(CandidatesOf(asked.states))
FreedBy(I) == SumFunctionOnSet([i \in DOMAIN EvictionOrder |-> EvictionOrder[i].size], I)
EachOnce(s) == \A i, j \in DOMAIN s : s[i].expert = s[j].expert => i = j

(* The types of what the selection keeps.                                  *)
EvictionTypeOK ==
    /\ phase \in {"idle", "select", "returned", "raised"}
    /\ asked \in EvictionCall /\ EachOnce(asked.states)
    /\ ordered \in Seq(ExpertState) /\ selected \in Seq(ExpertState) /\ released \in Nat

(* The first candidates are selected, the others are left in their order.  *)
Selecting ==
    LET k == Len(selected) IN
    /\ k + Len(ordered) = Len(EvictionOrder)
    /\ \A i \in DOMAIN selected : selected[i] = EvictionOrder[i]
    /\ \A i \in DOMAIN ordered : ordered[i] = EvictionOrder[k + i]
    /\ released = FreedBy(1 .. k)

(* Nothing is selected beyond what is required: the last one selected was  *)
(* still missing.                                                          *)
EvictionInv ==
    /\ EvictionTypeOK
    /\ phase = "idle" => ordered = <<>> /\ selected = <<>> /\ released = 0
    /\ phase = "select" => Selecting /\ released < RequiredFree(asked)
    /\ phase = "returned" =>
          \/ selected = <<>> /\ RequiredFree(asked) = 0
          \/ /\ Selecting /\ selected # <<>> /\ released >= RequiredFree(asked)
             /\ FreedBy(1 .. Len(selected) - 1) < RequiredFree(asked)
    /\ phase = "raised" => FreedBy(DOMAIN EvictionOrder) < RequiredFree(asked)

(* All candidates, each once, and no one before one who should leave       *)
(* before him.                                                             *)
LEMMA SortedCandidates ==
    ASSUME NEW a \in EvictionCall, EachOnce(a.states)
    PROVE  LET order == Sorted(CandidatesOf(a.states)) IN
           /\ order \in Seq(ExpertState)
           /\ ToSet(order) = {s \in ToSet(a.states) : OnGpu(s)}
           /\ EachOnce(order)
           /\ \A i, j \in DOMAIN order : i < j => ~EvictedBefore(order[j], order[i])
<1> DEFINE s == a.states
           places == {i \in DOMAIN s : OnGpu(s[i])}
           c == SubSequence(s, places)
           R == OrderOn(ToSet(c), EvictedBefore)
           r == StableSort(c, R)
<1>1. s \in Seq(ExpertState) /\ places \in SUBSET DOMAIN s
  BY DEF EvictionCall
<1>2. Sorted(CandidatesOf(s)) = r
  BY DEF Sorted, CandidatesOf
<1> HIDE DEF places
<1>3. PICK place \in [1 .. Cardinality(places) -> places] :
         /\ c \in Seq(ExpertState) /\ Len(c) = Cardinality(places)
         /\ \A i, j \in 1 .. Cardinality(places) : i < j => place[i] < place[j]
         /\ \A i \in 1 .. Cardinality(places) : c[i] = s[place[i]]
         /\ ToSet(c) = {s[i] : i \in places}
  <2>1. c \in Seq(ExpertState) /\ Len(c) = Cardinality(places) /\ Kept(s, places, c)
        /\ ToSet(c) = {s[i] : i \in places}
    BY <1>1, SubSequenceExact
  <2> HIDE DEF c
  <2> QED
    BY <2>1 DEF Kept
<1>4. ToSet(c) = {x \in ToSet(s) : OnGpu(x)}
  <2>1. ToSet(c) = {s[i] : i \in places} /\ ToSet(s) = {s[i] : i \in DOMAIN s}
    BY <1>3 DEF ToSet
  <2> QED
    BY <2>1 DEF places
<1>5. EachOnce(c)
  <2>1. DOMAIN c = 1 .. Len(c) /\ Len(c) \in Nat
    BY <1>3
  <2>2. \A i \in DOMAIN c : place[i] \in DOMAIN s /\ c[i] = s[place[i]]
    BY <1>1, <1>3, <2>1
  <2>3. \A i, j \in DOMAIN c : c[i].expert = c[j].expert => place[i] = place[j]
    BY <2>2 DEF EachOnce
  <2>4. \A i, j \in DOMAIN c : place[i] = place[j] => i = j
    <3>1. \A i, j \in DOMAIN c : i < j => place[i] < place[j]
      BY <1>3, <2>1
    <3>2. DOMAIN s \subseteq Int
      BY <1>1
    <3> QED
      BY <2>1, <2>2, <3>1, <3>2
  <2> QED
    BY <2>3, <2>4 DEF EachOnce
<1> HIDE DEF c
<1>6. \A x, y \in ToSet(c) : <<x, y>> \in R <=> EvictedBefore(x, y)
  BY DEF OrderOn
<1> HIDE DEF R
<1>7. WeakOrderOn(ToSet(c), R)
  <2>1. \A x \in ToSet(c) : x.priority \in Int /\ x.size \in Int
    <3>1. \A x \in ExpertState : x.priority \in Int /\ x.size \in Int
      BY DEF ExpertState
    <3>2. ToSet(c) \subseteq ExpertState
      BY <1>3 DEF ToSet
    <3> QED
      BY <3>1, <3>2
  <2> QED
    BY <1>6, <2>1 DEF WeakOrderOn, EvictedBefore
<1>8. /\ r \in Seq(ExpertState) /\ Len(r) = Len(c) /\ Rearranged(c, r)
      /\ \A i, j \in DOMAIN c : i < j => <<r[j], r[i]>> \notin R
      /\ ToSet(r) = ToSet(c)
  BY <1>3, <1>7, StableSortExact
<1> HIDE DEF r
<1>9. DOMAIN r = DOMAIN c
  BY <1>3, <1>8
<1>10. EachOnce(r)
  <2>1. PICK at \in [DOMAIN c -> DOMAIN c] :
           /\ \A i, j \in DOMAIN c : i # j => at[i] # at[j]
           /\ \A i \in DOMAIN c : r[i] = c[at[i]]
    BY <1>8 DEF Rearranged
  <2>2. \A i \in DOMAIN c : at[i] \in DOMAIN c
    OBVIOUS
  <2> QED
    BY <1>5, <1>9, <2>1, <2>2 DEF EachOnce
<1>11. \A i, j \in DOMAIN r : i < j => ~EvictedBefore(r[j], r[i])
  <2>1. \A i \in DOMAIN r : r[i] \in ToSet(c)
    BY <1>8 DEF ToSet
  <2> QED
    BY <1>6, <1>8, <1>9, <2>1
<1> QED
  BY <1>2, <1>4, <1>8, <1>10, <1>11

(* The same of the call in progress.                                       *)
LEMMA EvictionOrderExact ==
    ASSUME asked \in EvictionCall, EachOnce(asked.states)
    PROVE  /\ EvictionOrder \in Seq(ExpertState)
           /\ ToSet(EvictionOrder) = Candidates
           /\ EachOnce(EvictionOrder)
           /\ \A i, j \in DOMAIN EvictionOrder :
                 i < j => ~EvictedBefore(EvictionOrder[j], EvictionOrder[i])
  BY SortedCandidates DEF EvictionOrder, Candidates

(* What a set of candidates frees is what their places free.               *)
LEMMA FreedByExact ==
    ASSUME asked \in EvictionCall, EachOnce(asked.states), NEW I \in SUBSET DOMAIN EvictionOrder
    PROVE  Freed({EvictionOrder[i] : i \in I}) = FreedBy(I) /\ FreedBy(I) \in Nat
<1> DEFINE c == EvictionOrder
           S == {c[i] : i \in I}
           f == [x \in S |-> x.size]
           g == [i \in DOMAIN c |-> c[i].size]
           place == [i \in I |-> c[i]]
<1>1. c \in Seq(ExpertState) /\ EachOnce(c)
  BY EvictionOrderExact
<1>2. \A x \in ExpertState : x.size \in Nat
  BY DEF ExpertState
<1>3. \A i \in I : c[i] \in ExpertState /\ g[i] \in Nat /\ f[c[i]] = g[i]
  BY <1>1, <1>2
<1>4. IsFiniteSet(I)
  <2>1. DOMAIN c = 1 .. Len(c) /\ Len(c) \in Nat
    BY <1>1
  <2> QED
    <3>1. IsFiniteSet(DOMAIN c)
      BY <2>1, FS_Interval
    <3> QED
      BY <3>1, FS_Subset
<1>6. \A i, j \in I : i # j => place[i] # place[j]
  BY <1>1 DEF EachOnce
<1>7. /\ place \in [I -> S] /\ \A x \in S : f[x] \in Int
      /\ \A x \in S : \E i \in I : place[i] = x
      /\ \A i \in I : g[i] = f[place[i]]
  <2>1. place \in [I -> S] /\ \A x \in S : \E i \in I : place[i] = x
    OBVIOUS
  <2>2. \A x \in S : f[x] \in Int
    <3>1. \A x \in S : \E i \in I : x = c[i]
      OBVIOUS
    <3> HIDE DEF S, f, g, c
    <3> QED
      BY <1>3, <3>1
  <2>3. \A i \in I : g[i] = f[place[i]]
    BY <1>3
  <2> QED
    BY <2>1, <2>2, <2>3
<1>5. IsFiniteSet(S)
  <2>1. place \in Surjection(I, S)
    BY <1>7 DEF Surjection
  <2> QED
    BY <1>4, <2>1, FS_Surjection
<1>8. Freed(S) = SumFunctionOnSet(f, S)
  <2>1. DOMAIN f = S
    OBVIOUS
  <2> QED
    BY <2>1 DEF Freed, SumFunction
<1>9. FreedBy(I) = SumFunctionOnSet(g, I)
  BY DEF FreedBy
<1> HIDE DEF S, f, g, place
<1>10. SumFunctionOnSet(g, I) = SumFunctionOnSet(f, S)
  BY <1>4, <1>5, <1>6, <1>7, SumReindexed
<1>11. SumFunctionOnSet(g, I) \in Nat
  BY <1>3, <1>4, SumMonotonic
<1> QED
  BY <1>8, <1>9, <1>10, <1>11 DEF S

(* One candidate more frees what it takes.                                 *)
LEMMA FreedByNext ==
    ASSUME asked \in EvictionCall, EachOnce(asked.states),
           NEW k \in Nat, k + 1 \in DOMAIN EvictionOrder
    PROVE  /\ FreedBy(1 .. k) \in Nat
           /\ FreedBy(1 .. k + 1) = FreedBy(1 .. k) + EvictionOrder[k + 1].size
<1> DEFINE c == EvictionOrder
           g == [i \in DOMAIN c |-> c[i].size]
<1>1. c \in Seq(ExpertState) /\ \A x \in ExpertState : x.size \in Nat
  BY EvictionOrderExact DEF ExpertState
<1>2. 1 .. k \in SUBSET DOMAIN c /\ k + 1 \in DOMAIN c
  BY <1>1
<1>3. \A i \in DOMAIN c : g[i] \in Int /\ g[i] = c[i].size
  BY <1>1
<1>4. (\A i \in 1 .. k : g[i] \in Int /\ g[i] = g[i]) /\ g[k + 1] \in Int
  BY <1>2, <1>3
<1> HIDE DEF g
<1>5. SumFunctionOnSet(g, 1 .. k + 1) = SumFunctionOnSet(g, 1 .. k) + g[k + 1]
  BY <1>4, SumAppended
<1>6. FreedBy(1 .. k) \in Nat
  BY <1>2, FreedByExact
<1> QED
  BY <1>2, <1>3, <1>5, <1>6 DEF FreedBy, g

(* Between calls nothing is asked.                                         *)
LEMMA NothingAskedIsCall == NothingAsked \in EvictionCall /\ EachOnce(NothingAsked.states)
  BY DEF NothingAsked, EvictionCall, EachOnce

(* A call starts with all candidates, or returns at once if there is room. *)
LEMMA SelectionStarts ==
    ASSUME EvictionInv, phase = "idle", NEW c \in EvictionCalls, SelectEvictions(c)
    PROVE  EvictionInv'
<1>1. /\ asked' = c /\ selected' = <<>> /\ released' = 0 /\ ordered = <<>>
      /\ asked' \in EvictionCall /\ EachOnce(asked.states)'
  BY EvictionAssumption DEF EvictionInv, SelectEvictions, EachOnce
<1>2. CASE RequiredFree(c) = 0
  <2>1. phase' = "returned" /\ ordered' = <<>>
    BY <1>1, <1>2 DEF SelectEvictions
  <2>2. EvictionTypeOK'
    BY <1>1, <2>1 DEF EvictionTypeOK
  <2>3. RequiredFree(asked)' = 0
    BY <1>1, <1>2 DEF RequiredFree
  <2> QED
    BY <1>1, <2>1, <2>2, <2>3 DEF EvictionInv
<1>3. CASE RequiredFree(c) > 0 /\ phase' = "select" /\ ordered' = Sorted(CandidatesOf(c.states))
  <2>1. EvictionOrder' = ordered'
    BY <1>1, <1>3 DEF EvictionOrder
  <2>2. EvictionOrder' \in Seq(ExpertState)
    <3>1. Sorted(CandidatesOf(c.states)) \in Seq(ExpertState)
      BY <1>1, SortedCandidates DEF EachOnce
    <3> QED
      BY <1>3, <2>1, <3>1
  <2>3. EvictionTypeOK'
    BY <1>1, <1>3, <2>1, <2>2 DEF EvictionTypeOK
  <2>4. FreedBy({})' = 0
    BY SumPick, FS_EmptySet DEF FreedBy
  <2>5. Selecting'
    <3>1. Len(selected') = 0 /\ DOMAIN selected' = {} /\ 1 .. 0 = {}
      BY <1>1
    <3>2. FreedBy(1 .. Len(selected))' = 0
      BY <2>4, <3>1 DEF FreedBy
    <3>3. \A i \in DOMAIN ordered' : 0 + i = i
      BY <2>1, <2>2
    <3>4. 0 + Len(ordered') = Len(ordered')
      BY <2>1, <2>2
    <3> QED
      BY <1>1, <2>1, <2>2, <3>1, <3>2, <3>3, <3>4 DEF Selecting
  <2>6. released' < RequiredFree(asked)'
    BY <1>1, <1>3 DEF RequiredFree
  <2> QED
    BY <1>3, <2>3, <2>5, <2>6 DEF EvictionInv
<1> QED
  BY <1>2, <1>3 DEF SelectEvictions

(* The next candidate is selected, and the call returns if that is enough. *)
LEMMA SelectionSelects ==
    ASSUME EvictionInv, Select
    PROVE  EvictionInv'
<1> DEFINE x == Head(ordered)
<1>1. PICK k \in Nat :
         /\ EvictionTypeOK /\ k = Len(selected) /\ k + Len(ordered) = Len(EvictionOrder)
         /\ \A i \in DOMAIN selected : selected[i] = EvictionOrder[i]
         /\ \A i \in DOMAIN ordered : ordered[i] = EvictionOrder[k + i]
         /\ released = FreedBy(1 .. k) /\ released < RequiredFree(asked) /\ ordered # <<>>
  <2>1. Len(selected) \in Nat
    BY DEF EvictionInv, EvictionTypeOK
  <2> QED
    BY <2>1 DEF EvictionInv, Select, Selecting
<1>2. /\ selected' = Append(selected, x) /\ ordered' = Tail(ordered) /\ asked' = asked
      /\ released' = released + x.size
      /\ phase' = IF released + x.size >= RequiredFree(asked) THEN "returned" ELSE "select"
  BY DEF Select, Enough
<1>3. /\ ordered \in Seq(ExpertState) /\ Len(ordered) \in Nat /\ Len(ordered) >= 1
      /\ x = ordered[1] /\ 1 \in DOMAIN ordered /\ x \in ExpertState /\ x.size \in Nat
      /\ selected \in Seq(ExpertState) /\ asked \in EvictionCall /\ EachOnce(asked.states)
      /\ EvictionOrder \in Seq(ExpertState) /\ released \in Nat
  <2>1. asked \in EvictionCall /\ EachOnce(asked.states)
    BY <1>1 DEF EvictionTypeOK
  <2>2. ordered \in Seq(ExpertState) /\ Len(ordered) >= 1 /\ x = ordered[1] /\ x \in ExpertState
    BY <1>1 DEF EvictionTypeOK
  <2>3. x.size \in Nat
    BY <2>2 DEF ExpertState
  <2> QED
    BY <1>1, <2>1, <2>2, <2>3, EvictionOrderExact DEF EvictionTypeOK
<1>4. x = EvictionOrder[k + 1] /\ k + 1 \in DOMAIN EvictionOrder
  <2>1. x = EvictionOrder[k + 1]
    BY <1>1, <1>3
  <2>2. Len(EvictionOrder) >= k + 1 /\ DOMAIN EvictionOrder = 1 .. Len(EvictionOrder)
    <3>1. Len(EvictionOrder) \in Nat /\ DOMAIN EvictionOrder = 1 .. Len(EvictionOrder)
      BY <1>3
    <3>2. k + Len(ordered) = Len(EvictionOrder)
      BY <1>1
    <3>3. Len(ordered) \in Nat /\ Len(ordered) >= 1
      BY <1>3
    <3> QED
      BY <3>1, <3>2, <3>3
  <2>3. k + 1 \in 1 .. Len(EvictionOrder)
    <3>1. Len(EvictionOrder) \in Nat
      BY <1>3
    <3> QED
      BY <2>2, <3>1
  <2> QED
    BY <2>1, <2>2, <2>3
<1> HIDE DEF x
<1>5. EvictionOrder' = EvictionOrder /\ \A I : FreedBy(I)' = FreedBy(I)
  BY <1>2 DEF EvictionOrder, FreedBy
<1>6. /\ selected' \in Seq(ExpertState) /\ Len(selected') = k + 1 /\ DOMAIN selected' = 1 .. k + 1
      /\ selected'[k + 1] = x /\ \A i \in 1 .. k : selected'[i] = selected[i]
  BY <1>1, <1>2, <1>3
<1>7. /\ ordered' \in Seq(ExpertState) /\ Len(ordered') = Len(ordered) - 1
      /\ \A i \in DOMAIN ordered' : i + 1 \in DOMAIN ordered /\ ordered'[i] = ordered[i + 1] /\ i \in Nat
  BY <1>2, <1>3
<1>8. released' = FreedBy(1 .. k + 1) /\ released' \in Nat
  <2>1. FreedBy(1 .. k + 1) = FreedBy(1 .. k) + EvictionOrder[k + 1].size
    BY <1>3, <1>4, FreedByNext
  <2>2. released' = FreedBy(1 .. k) + EvictionOrder[k + 1].size
    BY <1>1, <1>2, <1>4
  <2> QED
    BY <1>2, <1>3, <2>1, <2>2
<1>9. Selecting'
  <2>1. (k + 1) + Len(ordered') = Len(EvictionOrder)
    <3>1. Len(ordered') = Len(ordered) - 1 /\ Len(ordered) \in Nat
      BY <1>3, <1>7
    <3>2. k + Len(ordered) = Len(EvictionOrder)
      BY <1>1
    <3> QED
      BY <3>1, <3>2
  <2>2. \A i \in DOMAIN selected' : selected'[i] = EvictionOrder[i]
    <3>1. \A i \in 1 .. k : i \in DOMAIN selected
      BY <1>1, <1>3
    <3>2. \A i \in 1 .. k + 1 : i = k + 1 \/ i \in 1 .. k
      OBVIOUS
    <3> QED
      BY <1>1, <1>4, <1>6, <3>1, <3>2
  <2>3. \A i \in DOMAIN ordered' : ordered'[i] = EvictionOrder[(k + 1) + i]
    <3> TAKE i \in DOMAIN ordered'
    <3>1. k + (i + 1) = (k + 1) + i
      <4>1. i \in Nat
        BY <1>7
      <4> QED
        BY <4>1
    <3>2. ordered'[i] = EvictionOrder[k + (i + 1)]
      BY <1>1, <1>7
    <3> QED
      BY <3>1, <3>2
  <2>4. FreedBy(1 .. Len(selected))' = FreedBy(1 .. k + 1)
    BY <1>2, <1>6 DEF FreedBy, EvictionOrder
  <2> QED
    BY <1>5, <1>6, <1>8, <2>1, <2>2, <2>3, <2>4 DEF Selecting
<1>10. RequiredFree(asked)' = RequiredFree(asked) /\ RequiredFree(asked) \in Nat
  <2>1. asked.size \in Nat /\ asked.free \in Nat
    BY <1>3 DEF EvictionCall
  <2> QED
    BY <1>2, <2>1 DEF RequiredFree
<1>11. EvictionTypeOK'
  BY <1>2, <1>3, <1>6, <1>7, <1>8 DEF EvictionTypeOK
<1>12. CASE released' >= RequiredFree(asked)
  <2>1. phase' = "returned" /\ selected' # <<>>
    BY <1>2, <1>6, <1>12
  <2>2. FreedBy(1 .. Len(selected) - 1)' = FreedBy(1 .. k)
    <3>1. Len(selected') - 1 = k
      BY <1>6
    <3> QED
      BY <1>2, <3>1 DEF FreedBy, EvictionOrder
  <2> QED
    BY <1>1, <1>9, <1>10, <1>11, <1>12, <2>1, <2>2 DEF EvictionInv
<1>13. CASE ~(released' >= RequiredFree(asked))
  <2>1. phase' = "select" /\ released' < RequiredFree(asked)
    BY <1>2, <1>8, <1>10, <1>13
  <2> QED
    BY <1>9, <1>10, <1>11, <2>1 DEF EvictionInv
<1> QED
  BY <1>12, <1>13

(* The candidates are used up: the call raises.                            *)
LEMMA SelectionFails ==
    ASSUME EvictionInv, NotEnough
    PROVE  EvictionInv'
<1>1. /\ EvictionTypeOK /\ ordered = <<>> /\ Len(selected) + Len(ordered) = Len(EvictionOrder)
      /\ released = FreedBy(1 .. Len(selected)) /\ released < RequiredFree(asked)
  BY DEF EvictionInv, NotEnough, Selecting
<1>2. EvictionOrder \in Seq(ExpertState) /\ Len(selected) \in Nat
  BY <1>1, EvictionOrderExact DEF EvictionTypeOK
<1>3. DOMAIN EvictionOrder = 1 .. Len(selected)
  BY <1>1, <1>2
<1>4. phase' = "raised" /\ selected' = <<>> /\ UNCHANGED <<asked, ordered, released>>
  BY DEF NotEnough
<1>5. FreedBy(DOMAIN EvictionOrder)' < RequiredFree(asked)'
  BY <1>1, <1>3, <1>4 DEF FreedBy, EvictionOrder, RequiredFree
<1>6. EvictionTypeOK'
  BY <1>1, <1>4 DEF EvictionTypeOK
<1> QED
  BY <1>4, <1>5, <1>6 DEF EvictionInv

(* After a call, and between the calls.                                    *)
LEMMA SelectionEnds ==
    ASSUME SelectionReturns
    PROVE  EvictionInv'
<1>1. /\ phase' = "idle" /\ asked' = NothingAsked
      /\ ordered' = <<>> /\ selected' = <<>> /\ released' = 0
  BY DEF SelectionReturns
<1>2. EvictionTypeOK'
  BY <1>1, NothingAskedIsCall DEF EvictionTypeOK, EachOnce
<1> QED
  BY <1>1, <1>2 DEF EvictionInv

LEMMA SelectionUntouched ==
    ASSUME EvictionInv, UNCHANGED evictionVars
    PROVE  EvictionInv'
<1>1. UNCHANGED <<phase, asked, ordered, selected, released>>
  BY DEF evictionVars
<1>2. EvictionOrder' = EvictionOrder /\ \A I : FreedBy(I)' = FreedBy(I)
  BY <1>1 DEF EvictionOrder, FreedBy
<1>3. FreedBy(DOMAIN EvictionOrder)' = FreedBy(DOMAIN EvictionOrder)
      /\ FreedBy(1 .. Len(selected) - 1)' = FreedBy(1 .. Len(selected) - 1)
      /\ FreedBy(1 .. Len(selected))' = FreedBy(1 .. Len(selected))
      /\ RequiredFree(asked)' = RequiredFree(asked)
  BY <1>1 DEF EvictionOrder, FreedBy, RequiredFree
<1>4. (Selecting' <=> Selecting) /\ (EvictionTypeOK' <=> EvictionTypeOK)
  BY <1>1, <1>2, <1>3 DEF Selecting, EvictionTypeOK, EachOnce
<1> QED
  BY <1>1, <1>3, <1>4 DEF EvictionInv

(* The selection takes the candidates from the front of their order.       *)
THEOREM SelectionInvariant == Spec => []EvictionInv
<1>1. Init => EvictionInv
  BY NothingAskedIsCall DEF Init, EvictionInit, EvictionInv, EvictionTypeOK
<1>2. ASSUME EvictionInv, [Next]_vars
      PROVE  EvictionInv'
  <2>1. CASE phase = "idle" /\ \E c \in EvictionCalls : SelectEvictions(c)
    BY <1>2, <2>1, SelectionStarts
  <2>2. CASE Select
    BY <1>2, <2>2, SelectionSelects
  <2>3. CASE NotEnough
    BY <1>2, <2>3, SelectionFails
  <2>4. CASE SelectionReturns
    BY <2>4, SelectionEnds
  <2>5. CASE UNCHANGED evictionVars
    BY <1>2, <2>5, SelectionUntouched
  <2> QED
    BY <1>2, <2>1, <2>2, <2>3, <2>4, <2>5 DEF Next, EvictionNext, vars
<1> QED
  BY <1>1, <1>2, PTL DEF Spec

(* What a selection that has not failed is a prefix of.                    *)
LEMMA SelectionReturned ==
    ASSUME EvictionInv, phase = "returned"
    PROVE  /\ asked \in EvictionCall /\ EachOnce(asked.states)
           /\ \/ selected = <<>> /\ asked.free >= asked.size
              \/ /\ Len(selected) \in 1 .. Len(EvictionOrder)
                 /\ ToSet(selected) = {EvictionOrder[i] : i \in 1 .. Len(selected)}
                 /\ ToSet(Front(selected)) = {EvictionOrder[i] : i \in 1 .. Len(selected) - 1}
                 /\ asked.free + FreedBy(1 .. Len(selected)) >= asked.size
                 /\ asked.free + FreedBy(1 .. Len(selected) - 1) < asked.size
<1>1. /\ asked \in EvictionCall /\ EachOnce(asked.states) /\ selected \in Seq(ExpertState)
      /\ ordered \in Seq(ExpertState) /\ released \in Nat
  BY DEF EvictionInv, EvictionTypeOK
<1>2. asked.size \in Nat /\ asked.free \in Nat
  BY <1>1 DEF EvictionCall
<1>3. CASE selected = <<>> /\ RequiredFree(asked) = 0
  BY <1>1, <1>2, <1>3 DEF RequiredFree
<1>4. CASE /\ Selecting /\ selected # <<>> /\ released >= RequiredFree(asked)
           /\ FreedBy(1 .. Len(selected) - 1) < RequiredFree(asked)
  <2> DEFINE k == Len(selected)
  <2>1. /\ EvictionOrder \in Seq(ExpertState) /\ k \in Nat /\ k >= 1 /\ Len(ordered) \in Nat
        /\ Len(EvictionOrder) \in Nat /\ DOMAIN selected = 1 .. k
    BY <1>1, <1>4, EvictionOrderExact
  <2>2. k \in 1 .. Len(EvictionOrder)
    <3>1. k + Len(ordered) = Len(EvictionOrder)
      BY <1>4 DEF Selecting
    <3> HIDE DEF k
    <3> QED
      BY <2>1, <3>1
  <2>3. \A i \in 1 .. k : selected[i] = EvictionOrder[i]
    BY <1>4, <2>1 DEF Selecting
  <2>4. ToSet(selected) = {EvictionOrder[i] : i \in 1 .. k}
    BY <2>1, <2>3 DEF ToSet
  <2>5. DOMAIN Front(selected) = 1 .. k - 1 /\ \A i \in 1 .. k - 1 : Front(selected)[i] = selected[i] /\ i \in 1 .. k
    BY <1>1, <2>1 DEF Front
  <2>6. ToSet(Front(selected)) = {EvictionOrder[i] : i \in 1 .. k - 1}
    <3> HIDE DEF k
    <3> QED
      BY <2>3, <2>5 DEF ToSet
  <2>7. 1 .. k \in SUBSET DOMAIN EvictionOrder /\ 1 .. k - 1 \in SUBSET DOMAIN EvictionOrder
    <3> HIDE DEF k
    <3> QED
      BY <2>1, <2>2
  <2>8. FreedBy(1 .. k) \in Nat /\ FreedBy(1 .. k - 1) \in Nat
    <3> HIDE DEF k
    <3> QED
      BY <1>1, <2>7, FreedByExact
  <2>9. released = FreedBy(1 .. k) /\ RequiredFree(asked) > 0
    BY <1>2, <1>4, <2>8 DEF Selecting, RequiredFree
  <2>10. asked.size > asked.free /\ RequiredFree(asked) = asked.size - asked.free
    BY <1>2, <2>9 DEF RequiredFree
  <2>11. asked.free + FreedBy(1 .. k) >= asked.size /\ asked.free + FreedBy(1 .. k - 1) < asked.size
    <3>1. FreedBy(1 .. k) >= asked.size - asked.free /\ FreedBy(1 .. k - 1) < asked.size - asked.free
      BY <1>4, <2>9, <2>10
    <3> HIDE DEF k
    <3> QED
      BY <1>2, <2>8, <3>1
  <2> QED
    BY <1>1, <2>2, <2>4, <2>6, <2>11
<1> QED
  BY <1>3, <1>4 DEF EvictionInv

(* The two properties, from the invariant.                                 *)
LEMMA EvictionInvGivesJustEnough ==
    ASSUME EvictionInv
    PROVE  JustEnough
<1> DEFINE c == EvictionOrder
           k == Len(selected)
<1>1. /\ asked \in EvictionCall /\ EachOnce(asked.states)
      /\ c \in Seq(ExpertState) /\ ToSet(c) = Candidates /\ DOMAIN c = 1 .. Len(c) /\ Len(c) \in Nat
      /\ \A i, j \in DOMAIN c : i < j => ~EvictedBefore(c[j], c[i])
  BY EvictionOrderExact DEF EvictionInv, EvictionTypeOK
<1>2. asked.size \in Nat /\ asked.free \in Nat
  BY <1>1 DEF EvictionCall
<1>3. ASSUME phase = "raised"
      PROVE  asked.free + Freed(Candidates) < asked.size
  <2>1. FreedBy(DOMAIN c) < RequiredFree(asked)
    BY <1>3 DEF EvictionInv
  <2>2. Freed(Candidates) = FreedBy(DOMAIN c) /\ FreedBy(DOMAIN c) \in Nat
    <3>1. Candidates = {c[i] : i \in DOMAIN c}
      BY <1>1 DEF ToSet
    <3> QED
      BY <1>1, <3>1, FreedByExact
  <2> QED
    BY <1>2, <2>1, <2>2 DEF RequiredFree
<1>4. ASSUME phase = "returned", selected = <<>>, asked.free >= asked.size
      PROVE  /\ asked.free + Freed(ToSet(selected)) >= asked.size
             /\ ToSet(selected) = {}
  <2>1. ToSet(selected) = {}
    BY <1>4 DEF ToSet
  <2>2. Freed({}) = 0
    <3> DEFINE f == [s \in {} |-> s.size]
    <3>1. DOMAIN f = {} /\ Freed({}) = SumFunctionOnSet(f, DOMAIN f)
      BY DEF Freed, SumFunction
    <3> HIDE DEF f
    <3> QED
      BY <3>1, SumPick, FS_EmptySet
  <2>3. Freed(ToSet(selected)) = 0
    BY <2>1, <2>2, Zenon
  <2> HIDE DEF c, k
  <2> QED
    BY <1>2, <1>4, <2>1, <2>3
<1>5. ASSUME phase = "returned",
             k \in 1 .. Len(c), ToSet(selected) = {c[i] : i \in 1 .. k},
             ToSet(Front(selected)) = {c[i] : i \in 1 .. k - 1},
             asked.free + FreedBy(1 .. k) >= asked.size, asked.free + FreedBy(1 .. k - 1) < asked.size
      PROVE  /\ asked.free + Freed(ToSet(selected)) >= asked.size
             /\ asked.free + Freed(ToSet(Front(selected))) < asked.size
             /\ \A x \in ToSet(selected), y \in Candidates \ ToSet(selected) : x.priority <= y.priority
  <2> HIDE DEF k
  <2>1. 1 .. k \in SUBSET DOMAIN c /\ 1 .. k - 1 \in SUBSET DOMAIN c
    BY <1>1, <1>5
  <2>2. Freed(ToSet(selected)) = FreedBy(1 .. k) /\ Freed(ToSet(Front(selected))) = FreedBy(1 .. k - 1)
    BY <1>1, <1>5, <2>1, FreedByExact
  <2>3. ASSUME NEW x \in ToSet(selected), NEW y \in Candidates \ ToSet(selected)
        PROVE  x.priority <= y.priority
    <3>1. PICK i \in 1 .. k : x = c[i]
      BY <1>5
    <3>2. PICK j \in DOMAIN c : y = c[j]
      BY <1>1 DEF ToSet
    <3>3. j \notin 1 .. k
      BY <1>5, <2>3, <3>2
    <3>4. i < j /\ i \in DOMAIN c
      BY <1>1, <1>5, <3>3
    <3>5. ~EvictedBefore(y, x)
      BY <1>1, <3>1, <3>2, <3>4
    <3>6. x.priority \in Int /\ y.priority \in Int
      <4>1. \A s \in ExpertState : s.priority \in Int
        BY DEF ExpertState
      <4> QED
        BY <1>1, <3>1, <3>2, <3>4, <4>1
    <3> QED
      BY <3>5, <3>6 DEF EvictedBefore
  <2> QED
    BY <1>5, <2>2, <2>3
<1> QED
  BY <1>3, <1>4, <1>5, SelectionReturned DEF JustEnough

LEMMA EvictionInvGivesFewest ==
    ASSUME EvictionInv
    PROVE  FewestAmongEquals
<1> DEFINE c == EvictionOrder
           k == Len(selected)
           n == Len(c)
           f == [i \in DOMAIN c |-> c[i].size]
<1> SUFFICES ASSUME phase = "returned", \A x, y \in Candidates : x.priority = y.priority,
                    NEW S \in SUBSET Candidates, asked.free + Freed(S) >= asked.size
             PROVE  Cardinality(S) >= k
  BY DEF FewestAmongEquals
<1>1. /\ asked \in EvictionCall /\ EachOnce(asked.states)
      /\ c \in Seq(ExpertState) /\ ToSet(c) = Candidates /\ EachOnce(c)
      /\ \A i, j \in DOMAIN c : i < j => ~EvictedBefore(c[j], c[i])
  BY EvictionOrderExact DEF EvictionInv, EvictionTypeOK
<1>2. DOMAIN c = 1 .. n /\ n \in Nat
  BY <1>1
<1>3. asked.size \in Nat /\ asked.free \in Nat
  BY <1>1 DEF EvictionCall
<1> DEFINE I == {i \in DOMAIN c : c[i] \in S}
           place == [i \in I |-> c[i]]
<1>4. IsFiniteSet(DOMAIN c) /\ I \in SUBSET DOMAIN c /\ IsFiniteSet(I)
  <2>1. IsFiniteSet(DOMAIN c)
    BY <1>2, FS_Interval
  <2> QED
    BY <2>1, FS_Subset
<1>5. S = {c[i] : i \in I}
  BY <1>1 DEF ToSet
<1>6. Cardinality(S) = Cardinality(I)
  <2>1. \A i, j \in I : c[i] = c[j] => i = j
    BY <1>1 DEF EachOnce
  <2>2. place \in Bijection(I, S)
    BY <1>5, <2>1 DEF Bijection, Injection, Surjection, IsInjective
  <2> HIDE DEF I, place
  <2> QED
    BY <1>4, <2>2, FS_Bijection DEF ExistsBijection
<1>7. Freed(S) = FreedBy(I)
  BY <1>1, <1>4, <1>5, FreedByExact
<1>8. \A i \in 1 .. n : f[i] \in Nat
  <2>1. \A s \in ExpertState : s.size \in Nat
    BY DEF ExpertState
  <2> QED
    BY <1>1, <1>2, <2>1
<1>9. \A i, j \in 1 .. n : i < j => f[i] >= f[j]
  <2> TAKE i, j \in 1 .. n
  <2> HAVE i < j
  <2>1. ~EvictedBefore(c[j], c[i])
    BY <1>1, <1>2
  <2>2. c[i].priority = c[j].priority
    BY <1>1, <1>2 DEF ToSet
  <2>3. ~(c[j].size > c[i].size)
    BY <2>1, <2>2 DEF EvictedBefore
  <2> QED
    BY <1>2, <1>8, <2>3
<1>10. \A J : FreedBy(J) = SumFunctionOnSet(f, J)
  BY DEF FreedBy
<1> DEFINE m == Cardinality(I)
<1> HIDE DEF f, I, place
<1>11. m \in 0 .. n /\ SumFunctionOnSet(f, I) <= SumFunctionOnSet(f, 1 .. m)
  <2>1. \A i \in 1 .. n : f[i] \in Int
    BY <1>8
  <2>2. I \in SUBSET (1 .. n)
    BY <1>2, <1>4
  <2> HIDE DEF n
  <2> QED
    BY <1>2, <1>9, <2>1, <2>2, LargestSum
<1> HIDE DEF m, n
<1>12. ASSUME k \in 1 .. n, asked.free + FreedBy(1 .. k - 1) < asked.size
       PROVE  m >= k
  <2>1. SUFFICES ASSUME m < k
                 PROVE  FALSE
    BY <1>11, <1>12
  <2>2. 1 .. m \in SUBSET (1 .. k - 1) /\ 1 .. k - 1 \in SUBSET (1 .. n)
    BY <1>2, <1>11, <1>12, <2>1
  <2>3. IsFiniteSet(1 .. k - 1) /\ \A i \in 1 .. k - 1 : f[i] \in Nat
    BY <1>2, <1>4, <1>8, <2>2, FS_Subset
  <2>4. /\ SumFunctionOnSet(f, 1 .. m) \in Nat
        /\ SumFunctionOnSet(f, 1 .. m) <= SumFunctionOnSet(f, 1 .. k - 1)
    BY <2>2, <2>3, SumMonotonic
  <2>5. SumFunctionOnSet(f, 1 .. k - 1) \in Nat /\ SumFunctionOnSet(f, I) \in Nat
    <3>1. \A i \in DOMAIN c : f[i] \in Nat
      BY <1>2, <1>8
    <3> QED
      BY <1>2, <1>4, <2>2, <3>1, SumMonotonic
  <2> QED
    BY <1>3, <1>7, <1>10, <1>11, <1>12, <2>4, <2>5
<1>13. CASE selected = <<>>
  BY <1>6, <1>11, <1>13 DEF m
<1>14. CASE k \in 1 .. n /\ asked.free + FreedBy(1 .. k - 1) < asked.size
  BY <1>6, <1>12, <1>14 DEF m
<1> QED
  BY <1>13, <1>14, SelectionReturned DEF n

(* A selection makes just enough room, less important experts before more  *)
(* important ones, and fails only when all would not do (capacity.py:136-  *)
(* 163).                                                                   *)
THEOREM SelectionsAreJustEnough == Spec => []JustEnough
  BY SelectionInvariant, EvictionInvGivesJustEnough, PTL

(* "As few evictions as possible" (capacity.py:139), among experts of one  *)
(* priority and whatever their sizes.                                      *)
THEOREM SelectionsAreFewest == Spec => []FewestAmongEquals
  BY SelectionInvariant, EvictionInvGivesFewest, PTL
===============================================================================
