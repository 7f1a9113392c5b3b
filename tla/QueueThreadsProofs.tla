-------------------------- MODULE QueueThreadsProofs --------------------------
(***************************************************************************)
(* Proofs of the invariants of QueueThreads, for any number of experts,    *)
(* tasks, workers and joiners and any queue size.                          *)
(*                                                                         *)
(* That a task is executed once is not inductive: it rests on the numbers  *)
(* of the tasks.  Whatever is in the heap, in a worker's hands, in the     *)
(* results or taken has a number below _sequence, so that the task which   *)
(* put() adds is in none of them (PlacesInv); and what is taken has left   *)
(* the heap, so that the two cardinalities of the count concern different  *)
(* tasks (CountInv).                                                       *)
(***************************************************************************)
EXTENDS QueueThreads, FiniteSetTheorems, TLAPS

ThreadsTypeOK ==
    /\ heap \subseteq Entry /\ IsFiniteSet(heap)
    /\ sequence \in 0 .. MaxSequence
    /\ unfinished \in Int
    /\ task \in [Workers -> Entry \cup {NoEntry}]
    /\ wpc \in [Workers -> {"idle", "get", "wait", "execute"}]
    /\ \A w \in InHand : task[w] \in Entry
    /\ results \subseteq [of : Entry, state : TaskState]

Numbered ==
    /\ \A x \in heap : x.seq < sequence
    /\ \A w \in InHand : task[w].seq < sequence
    /\ \A r \in results : r.of.seq < sequence

PlacesInv == ThreadsTypeOK /\ Numbered /\ ExecutedOnce

(* What every step but these five leaves alone.                            *)
Quiet == UNCHANGED <<heap, sequence, unfinished, task, results, taken, InHand>>

LEMMA StepKinds ==
    ASSUME ThreadsTypeOK, [Next]_vars
    PROVE  \/ \E t \in Tasks : PutTask(t)
           \/ \E e \in Experts : CancelTask(e)
           \/ ClearQueue
           \/ \E w \in Workers : TakeTask(w) \/ ExecuteTask(w)
           \/ Quiet /\ wpc' \in [Workers -> {"idle", "get", "wait", "execute"}]
<1> USE DEF Quiet, InHand, ThreadsTypeOK
<1>1. CASE UNCHANGED vars
  BY <1>1 DEF vars, queueVars, workerVars
<1>2. ASSUME NEW j \in Joiners, CallJoin(j) \/ Join(j)
      PROVE  Quiet /\ wpc' = wpc
  BY <1>2 DEF CallJoin, Join, JoinReturns, JoinWaits, queueVars, workerVars
<1>3. ASSUME NEW w \in Workers, Run(w) \/ FindNothing(w)
      PROVE  Quiet /\ wpc' \in [Workers -> {"idle", "get", "wait", "execute"}]
  BY <1>3 DEF Run, FindNothing, Goto, StartWait, GiveUp, queueVars
<1> QED
  BY <1>1, <1>2, <1>3 DEF Next, Work

(* The entry that put() adds is a typed one with the next number.          *)
LEMMA NewEntryType ==
    ASSUME ThreadsTypeOK, NEW t \in Tasks, sequence < MaxSequence
    PROVE  NewEntry(t) \in Entry /\ NewEntry(t).seq = sequence
  BY QueueAssumption DEF ThreadsTypeOK, NewEntry, Entry, Instances

LEMMA PlacesStep ==
    ASSUME PlacesInv, [Next]_vars
    PROVE  PlacesInv'
<1> USE DEF PlacesInv
<1>1. ASSUME NEW t \in Tasks, PutTask(t)
      PROVE  PlacesInv'
  <2>1. /\ NewEntry(t) \in Entry /\ NewEntry(t).seq = sequence
        /\ heap' = heap \cup {NewEntry(t)} /\ sequence' = sequence + 1
        /\ sequence < MaxSequence /\ unfinished' = unfinished + 1
        /\ UNCHANGED <<wpc, task, results, InHand>>
    BY <1>1, NewEntryType DEF PutTask, Put, workerVars, InHand
  <2>2. IsFiniteSet(heap')
    BY <2>1, FS_AddElement DEF ThreadsTypeOK
  <2>3. /\ \A w \in InHand : NewEntry(t) # task[w]
        /\ \A r \in results : NewEntry(t) # r.of
    BY <2>1, QueueAssumption DEF Numbered, ThreadsTypeOK, Entry, Instances
  <2>4. ThreadsTypeOK'
    BY <2>1, <2>2, QueueAssumption DEF ThreadsTypeOK
  <2>5. Numbered'
    <3>1. \A x \in Entry : x.seq \in Int
      BY QueueAssumption DEF Entry, Instances
    <3> QED
      BY <2>1, <3>1, QueueAssumption DEF Numbered, ThreadsTypeOK
  <2>6. ExecutedOnce'
    BY <2>1, <2>3 DEF ExecutedOnce
  <2> QED
    BY <2>4, <2>5, <2>6
<1>2. ASSUME heap' \subseteq heap, IsFiniteSet(heap'), unfinished' \in Int,
             UNCHANGED <<sequence, wpc, task, results>>
      PROVE  PlacesInv'
  <2>1. UNCHANGED InHand
    BY <1>2 DEF InHand
  <2> QED
    BY <1>2, <2>1 DEF ThreadsTypeOK, Numbered, ExecutedOnce
<1>3. ASSUME NEW e \in Experts, CancelTask(e)
      PROVE  PlacesInv'
  <2>1. PICK x \in heap : CancelEntry(x)
    BY <1>3 DEF CancelTask, EntriesOf
  <2>2. IsFiniteSet(heap \ {x})
    BY FS_RemoveElement DEF ThreadsTypeOK
  <2>3. unfinished' \in Int
    BY <2>1 DEF CancelEntry, FinishOne, ThreadsTypeOK
  <2> QED
    BY <1>2, <1>3, <2>1, <2>2, <2>3 DEF CancelTask, CancelEntry, workerVars
<1>4. CASE ClearQueue
  BY <1>2, <1>4, FS_EmptySet DEF ClearQueue, Clear, workerVars
<1>5. ASSUME NEW w \in Workers, TakeTask(w)
      PROVE  PlacesInv'
  <2>1. PICK x \in heap : /\ Pop(x, w)
                          /\ task' = [task EXCEPT ![w] = x]
    BY <1>5 DEF TakeTask
  <2>2. /\ heap' = heap \ {x} /\ IsFiniteSet(heap \ {x})
        /\ wpc' = [wpc EXCEPT ![w] = "execute"]
        /\ UNCHANGED <<sequence, unfinished, results>>
    BY <1>5, <2>1, FS_RemoveElement DEF TakeTask, Goto, Pop, ThreadsTypeOK
  <2>3. InHand' = InHand \cup {w} /\ w \notin InHand
    BY <1>5, <2>2 DEF InHand, ThreadsTypeOK, TakeTask
  <2>4. task'[w] = x /\ \A v \in InHand : task'[v] = task[v]
    BY <2>1, <2>3 DEF ThreadsTypeOK
  <2>5. ThreadsTypeOK'
    BY <2>1, <2>2, <2>3, <2>4 DEF ThreadsTypeOK
  <2>6. Numbered'
    BY <2>2, <2>3, <2>4 DEF Numbered
  <2>7. ExecutedOnce'
    BY <2>2, <2>3, <2>4 DEF ExecutedOnce
  <2> QED
    BY <2>5, <2>6, <2>7
<1>6. ASSUME NEW w \in Workers, ExecuteTask(w)
      PROVE  PlacesInv'
  <2>1. PICK s \in TaskState : results' = results \cup {[of |-> task[w], state |-> s]}
    BY <1>6 DEF ExecuteTask
  <2>2. PICK next \in {"get", "idle"} : wpc' = [wpc EXCEPT ![w] = next]
    BY <1>6 DEF ExecuteTask, Goto
  <2>3. /\ task' = [task EXCEPT ![w] = NoEntry]
        /\ UNCHANGED <<heap, sequence, unfinished>>
        /\ w \in InHand
    BY <1>6 DEF ExecuteTask, queueVars, InHand
  <2>4. InHand' = InHand \ {w}
    BY <2>2 DEF InHand, ThreadsTypeOK
  <2>5. \A v \in InHand' : task'[v] = task[v]
    BY <2>3, <2>4 DEF InHand, ThreadsTypeOK
  <2>6. ThreadsTypeOK'
    <3>1. [of |-> task[w], state |-> s] \in [of : Entry, state : TaskState]
      BY <2>3 DEF ThreadsTypeOK
    <3>2. results' \subseteq [of : Entry, state : TaskState]
      BY <2>1, <3>1 DEF ThreadsTypeOK
    <3>3. task' \in [Workers -> Entry \cup {NoEntry}]
      BY <2>3 DEF ThreadsTypeOK
    <3>4. \A v \in InHand' : task'[v] \in Entry
      BY <2>4, <2>5 DEF ThreadsTypeOK
    <3>5. wpc' \in [Workers -> {"idle", "get", "wait", "execute"}]
      BY <2>2 DEF ThreadsTypeOK
    <3> QED
      BY <2>3, <3>2, <3>3, <3>4, <3>5 DEF ThreadsTypeOK
  <2>7. Numbered'
    BY <2>1, <2>3, <2>4, <2>5 DEF Numbered
  <2>8. ExecutedOnce'
    BY <2>1, <2>3, <2>4, <2>5 DEF ExecutedOnce
  <2> QED
    BY <2>6, <2>7, <2>8
<1>7. CASE Quiet /\ wpc' \in [Workers -> {"idle", "get", "wait", "execute"}]
  BY <1>7 DEF Quiet, ThreadsTypeOK, Numbered, ExecutedOnce
<1> QED
  BY <1>1, <1>3, <1>4, <1>5, <1>6, <1>7, StepKinds
-----------------------------------------------------------------------------
(* The count, with what a history of the taken tasks has to satisfy.       *)
CountInv ==
    /\ taken \subseteq Entry /\ IsFiniteSet(taken)
    /\ taken \cap heap = {}
    /\ \A x \in taken : x.seq < sequence
    /\ UndoneStaysCounted

LEMMA CountStep ==
    ASSUME PlacesInv, CountInv, [Next]_vars
    PROVE  CountInv'
<1> USE DEF CountInv, UndoneStaysCounted
<1>0. /\ IsFiniteSet(heap) /\ heap \subseteq Entry /\ ThreadsTypeOK
      /\ Cardinality(heap) \in Nat /\ Cardinality(taken) \in Nat
      /\ \A x \in Entry : x.seq \in Int
  BY FS_CardinalityType, QueueAssumption DEF PlacesInv, ThreadsTypeOK, Entry, Instances
<1>1. ASSUME NEW t \in Tasks, PutTask(t)
      PROVE  CountInv'
  <2>1. /\ NewEntry(t).seq = sequence
        /\ heap' = heap \cup {NewEntry(t)} /\ sequence' = sequence + 1
        /\ unfinished' = unfinished + 1 /\ UNCHANGED taken
    BY <1>0, <1>1, NewEntryType DEF PutTask, Put
  <2>2. sequence \in Int
    BY <1>0, QueueAssumption DEF ThreadsTypeOK
  <2>3. NewEntry(t) \notin heap /\ NewEntry(t) \notin taken
    BY <2>1, <2>2 DEF PlacesInv, Numbered
  <2>4. Cardinality(heap') = Cardinality(heap) + 1
    BY <1>0, <2>1, <2>3, FS_AddElement
  <2>5. \A x \in taken : x.seq < sequence + 1
    BY <1>0, <2>2
  <2> QED
    BY <1>0, <2>1, <2>3, <2>4, <2>5
<1>2. ASSUME NEW e \in Experts, CancelTask(e)
      PROVE  CountInv'
  <2>1. PICK x \in heap : CancelEntry(x)
    BY <1>2 DEF CancelTask, EntriesOf
  <2>2. Cardinality(heap \ {x}) = Cardinality(heap) - 1 /\ Cardinality(heap \ {x}) \in Nat
    BY <1>0, FS_RemoveElement, FS_CardinalityType
  <2>3. unfinished > 0
    BY <1>0, <2>2
  <2>4. unfinished' = unfinished - 1 /\ heap' = heap \ {x} /\ UNCHANGED <<sequence, taken>>
    BY <1>2, <2>1, <2>3 DEF CancelTask, CancelEntry, FinishOne, ThreadsTypeOK, PlacesInv
  <2> QED
    BY <1>0, <2>2, <2>4
<1>3. CASE ClearQueue
  <2>1. heap' = {} /\ taken' = {} /\ unfinished' = 0
    BY <1>3 DEF ClearQueue, Clear
  <2>2. Cardinality(heap') = 0 /\ Cardinality(taken') = 0 /\ IsFiniteSet(taken')
    BY <2>1, FS_EmptySet
  <2> QED
    BY <2>1, <2>2
<1>4. ASSUME NEW w \in Workers, TakeTask(w)
      PROVE  CountInv'
  <2>1. PICK x \in heap : Pop(x, w) /\ taken' = taken \cup {x}
    BY <1>4 DEF TakeTask
  <2>2. heap' = heap \ {x} /\ UNCHANGED <<sequence, unfinished>>
    BY <2>1 DEF Pop
  <2>3. Cardinality(heap') = Cardinality(heap) - 1
    BY <1>0, <2>2, FS_RemoveElement
  <2>4. Cardinality(taken') = Cardinality(taken) + 1 /\ IsFiniteSet(taken')
    BY <2>1, FS_AddElement
  <2>5. x.seq < sequence
    BY DEF PlacesInv, Numbered
  <2> QED
    BY <1>0, <2>1, <2>2, <2>3, <2>4, <2>5
<1>5. ASSUME NEW w \in Workers, ExecuteTask(w)
      PROVE  CountInv'
  BY <1>5 DEF ExecuteTask, queueVars
<1>6. CASE Quiet
  BY <1>6 DEF Quiet
<1> QED
  BY <1>0, <1>1, <1>2, <1>3, <1>4, <1>5, <1>6, StepKinds
-----------------------------------------------------------------------------
(* The inductive invariant holds in every state.                           *)
THEOREM Invariance == Spec => [](PlacesInv /\ CountInv)
<1>1. Init => PlacesInv /\ CountInv
  <2>1. Cardinality({}) = 0 /\ IsFiniteSet({})
    BY FS_EmptySet
  <2> QED
    BY <2>1, QueueAssumption DEF Init, QueueInit, PlacesInv, ThreadsTypeOK, Numbered, ExecutedOnce,
       InHand, CountInv, UndoneStaysCounted
<1>2. PlacesInv /\ CountInv /\ [Next]_vars => (PlacesInv /\ CountInv)'
  BY PlacesStep, CountStep
<1> QED
  BY <1>1, <1>2, PTL DEF Spec

(* Whatever two workers, producers, cancel() and clear() do at once, a     *)
(* task is executed by one worker, once (queue.py:93-116, worker.py:20-34).*)
THEOREM EveryTaskOnce == Spec => []ExecutedOnce
<1>1. PlacesInv => ExecutedOnce
  BY DEF PlacesInv
<1> QED
  BY <1>1, Invariance, PTL

(* unfinished_tasks counts, beside what waits, every task that was taken   *)
(* since the last clear(): no worker of the older interface gives one back *)
(* (worker.py:20-34, queue.py:118-138).                                    *)
THEOREM TakenStayCounted == Spec => []UndoneStaysCounted
<1>1. CountInv => UndoneStaysCounted
  BY DEF CountInv
<1> QED
  BY <1>1, Invariance, PTL
=============================================================================
