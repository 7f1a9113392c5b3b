------------------------ MODULE PrefetchEngineProofs -------------------------
(***************************************************************************)
(* Proofs of the invariants of PrefetchEngine, for any number of experts,  *)
(* tasks, workers and controllers, any queue size and any number of        *)
(* restarts.                                                               *)
(*                                                                         *)
(* The inductive invariant is the conjunction, in this order, of typing    *)
(* (with what a worker has in hand), the agreement of _pending and _heap,  *)
(* the count of unfinished tasks and the meaning of the statuses.  Each    *)
(* part is preserved by every step from a state in which it and the parts  *)
(* before it hold.                                                         *)
(***************************************************************************)
EXTENDS PrefetchEngine, FiniteSetTheorems, TLAPS

(* The entry that put() adds is a typed one and is new.                    *)
LEMMA NewEntryType ==
    ASSUME TypeOK, NEW t \in Tasks, sequence < MaxSequence
    PROVE  /\ NewEntry(t) \in Entry
           /\ NewEntry(t).expert = t.expert
           /\ NewEntry(t).seq = sequence
  BY QueueAssumption DEF TypeOK, QueueTypeOK, NewEntry, Entry, Instances

(* Typing of the queue variables.                                          *)
LEMMA QueueTyping ==
    ASSUME TypeOK, [Next]_vars
    PROVE  QueueTypeOK'
<1>1. ASSUME NEW t \in Tasks, Put(t)
      PROVE  QueueTypeOK'
  <2>1. NewEntry(t) \in Entry /\ t.expert \in Experts
    BY <1>1, NewEntryType, QueueAssumption DEF Put
  <2>2. IsFiniteSet(heap \cup {NewEntry(t)})
    BY FS_AddElement DEF TypeOK, QueueTypeOK
  <2> QED
    BY <1>1, <2>1, <2>2, QueueAssumption DEF Put, TypeOK, QueueTypeOK
<1>2. ASSUME NEW x, heap' = heap \ {x}, pending' \subseteq pending, sequence' = sequence,
             unfinished' \in Int
      PROVE  QueueTypeOK'
  <2>1. IsFiniteSet(heap \ {x})
    BY FS_RemoveElement DEF TypeOK, QueueTypeOK
  <2> QED
    BY <1>2, <2>1 DEF TypeOK, QueueTypeOK
<1>3. ASSUME UNCHANGED <<heap, pending, sequence>>, unfinished' \in Int
      PROVE  QueueTypeOK'
  BY <1>3 DEF TypeOK, QueueTypeOK
<1>4. unfinished \in Int
  BY DEF TypeOK, QueueTypeOK
<1>5. CASE \E c \in Controllers : Control(c)
  BY <1>3, <1>4, <1>5 DEF Control, Start, StopAndWait, StopWithoutWait, StopRequest, StopStep,
     StopJoinsQueue, StopNotifies, StopJoinsWorkers, StopFinishes, JoinReturns, JoinWaits,
     NotifyAll, queueVars
<1>6. CASE Client
  <2>1. CASE \E t \in Tasks : SubmitPut(t)
    BY <1>1, <2>1 DEF SubmitPut
  <2>2. CASE \E e \in Experts : Cancel(e)
    BY <1>2, <1>4, <2>2 DEF Cancel, CancelEntry, FinishOne
  <2> QED
    BY <1>3, <1>4, <1>6, <2>1, <2>2 DEF Client, SubmitMark, ClearTaskStates, ClearResults, queueVars
<1>7. ASSUME NEW w \in Workers, Work(w)
      PROVE  QueueTypeOK'
  <2>1. CASE TakeTask(w)
    BY <1>2, <1>4, <2>1 DEF TakeTask, Pop
  <2>2. CASE FinishTask(w)
    BY <1>3, <1>4, <2>2 DEF FinishTask, TaskDone, FinishOne, queueVars
  <2> QED
    BY <1>3, <1>4, <1>7, <2>1, <2>2 DEF Work, WaitForTask, WaitEnds, ReadStopEvent, ReadUnfinished,
       MarkRunning, Execute, ExecuteEscapes, AppendResult, MarkFinal, StartWait, GiveUp, queueVars
<1>8. CASE UNCHANGED vars
  BY <1>3, <1>4, <1>8 DEF vars, queueVars
<1> QED
  BY <1>5, <1>6, <1>7, <1>8 DEF Next

Typing == TypeOK /\ TaskInHand

(* Every step keeps the types, and a worker in Holding has a task.         *)
LEMMA TypingStep ==
    ASSUME Typing, [Next]_vars
    PROVE  Typing'
<1> USE DEF Typing
<1>1. QueueTypeOK'
  BY QueueTyping
<1>2. CASE UNCHANGED vars
  BY <1>1, <1>2 DEF TypeOK, TaskInHand, vars, queueVars, lifecycleVars, taskVars, workerVars
<1>3. ASSUME NEW c \in Controllers, Control(c)
      PROVE  Typing'
  <2> USE <1>1 DEF TypeOK, TaskInHand, queueVars, taskVars, workerVars
  <2>1. CASE Start(c)
    BY <2>1 DEF Start, Unused, Idle, Dead, Holding, Executing
  <2>2. CASE StopAndWait(c)
    BY <2>2 DEF StopAndWait, StopRequest
  <2>3. CASE StopWithoutWait(c)
    BY <2>3 DEF StopWithoutWait, StopRequest
  <2>4. CASE StopJoinsQueue(c)
    BY <2>4 DEF StopJoinsQueue, StopGoto, JoinReturns, JoinWaits
  <2>5. CASE StopNotifies(c)
    BY <2>5 DEF StopNotifies, StopGoto, NotifyAll
  <2>6. CASE StopJoinsWorkers(c)
    BY <2>6 DEF StopJoinsWorkers, StopGoto
  <2>7. CASE StopFinishes(c)
    BY <2>7 DEF StopFinishes, StopGoto
  <2> QED
    BY <1>3, <2>1, <2>2, <2>3, <2>4, <2>5, <2>6, <2>7 DEF Control, StopStep
<1>4. CASE Client
  <2> USE <1>1 DEF TypeOK, TaskInHand, queueVars, lifecycleVars, workerVars
  <2>1. ASSUME NEW t \in Tasks, SubmitPut(t)
        PROVE  Typing'
    <3>1. NewEntry(t) \in Entry /\ sequence \in Instances
      BY <2>1, NewEntryType, QueueAssumption DEF SubmitPut, Put, QueueTypeOK, Instances
    <3>2. waiters' \subseteq waiters
      BY <2>1 DEF SubmitPut, Put, NotifyOne
    <3> QED
      BY <2>1, <3>1, <3>2 DEF SubmitPut
  <2>2. CASE SubmitMark
    BY <2>2 DEF SubmitMark, Status
  <2>3. ASSUME NEW e \in Experts, Cancel(e)
        PROVE  Typing'
    <3>1. waiters' \subseteq waiters
      BY <2>3 DEF Cancel, CancelEntry, FinishOne
    <3> QED
      BY <2>3, <3>1 DEF Cancel, Status, FinalStatus
  <2>4. CASE ClearTaskStates \/ ClearResults
    BY <2>4 DEF ClearTaskStates, ClearResults
  <2> QED
    BY <1>4, <2>1, <2>2, <2>3, <2>4 DEF Client
<1>5. ASSUME NEW w \in Workers, Work(w)
      PROVE  Typing'
  <2> USE <1>1 DEF TypeOK, TaskInHand, queueVars, lifecycleVars, taskVars, Goto
  <2>1. CASE TakeTask(w)
    BY <2>1 DEF TakeTask, Pop, QueueTypeOK, Holding, Executing
  <2>2. CASE WaitForTask(w)
    BY <2>2 DEF WaitForTask, StartWait, Holding, Executing, Idle
  <2>3. CASE WaitEnds(w)
    BY <2>3 DEF WaitEnds, GiveUp, Holding, Executing, Idle
  <2>4. CASE ReadStopEvent(w) \/ ReadUnfinished(w)
    BY <2>4 DEF ReadStopEvent, ReadUnfinished, Holding, Executing, Idle, Dead
  <2>5. CASE MarkRunning(w)
    BY <2>5 DEF MarkRunning, Holding, Executing, Status
  <2>6. CASE Execute(w)
    BY <2>6 DEF Execute, Holding, Executing
  <2>7. CASE ExecuteEscapes(w)
    BY <2>7 DEF ExecuteEscapes, Holding, Executing
  <2>8. CASE AppendResult(w)
    <3>1. task[w] \in Entry /\ result[w] \in FinalStatus
      BY <2>8 DEF AppendResult, Holding, Executing
    <3>2. [of |-> task[w], status |-> result[w]] \in [of : Entry, status : FinalStatus]
      BY <3>1
    <3>3. task[w].seq \in Instances
      BY <3>1 DEF Entry
    <3> QED
      BY <2>8, <3>1, <3>2, <3>3 DEF AppendResult, Holding, Executing
  <2>9. CASE MarkFinal(w)
    BY <2>9 DEF MarkFinal, Holding, Executing, Status
  <2>10. CASE FinishTask(w)
    <3>1. waiters' \subseteq waiters
      BY <2>10 DEF FinishTask, TaskDone, FinishOne
    <3> QED
      BY <2>10, <3>1 DEF FinishTask, Holding, Executing, Idle, Dead
  <2> QED
    BY <1>5, <2>1, <2>2, <2>3, <2>4, <2>5, <2>6, <2>7, <2>8, <2>9, <2>10 DEF Work
<1> QED
  BY <1>2, <1>3, <1>4, <1>5 DEF Next
-----------------------------------------------------------------------------
(* Four kinds of steps concern the heap and the count: a put, a get, a     *)
(* cancel and a task_done; every other step leaves them alone, and leaves  *)
(* the workers that hold a task holding it.                                *)
Quiet == UNCHANGED <<heap, pending, sequence, unfinished>>

LEMMA StepKinds ==
    ASSUME Typing, [Next]_vars
    PROVE  \/ \E t \in Tasks : SubmitPut(t)
           \/ \E e \in Experts : Cancel(e)
           \/ \E w \in Workers : TakeTask(w) \/ FinishTask(w)
           \/ Quiet /\ Holders' = Holders
<1> USE DEF Quiet
<1>1. CASE UNCHANGED vars
  BY <1>1 DEF vars, queueVars, workerVars, Holders
<1>2. ASSUME NEW c \in Controllers, Control(c)
      PROVE  Quiet /\ Holders' = Holders
  <2>1. CASE Start(c)
    BY <2>1 DEF Start, Unused, Holders, Holding, Executing, Dead, queueVars, Typing, TypeOK
  <2> QED
    BY <1>2, <2>1 DEF Control, StopAndWait, StopWithoutWait, StopRequest, StopStep,
       StopJoinsQueue, StopNotifies, StopJoinsWorkers, StopFinishes, StopGoto, JoinReturns,
       JoinWaits, NotifyAll, queueVars, workerVars, Holders
<1>3. CASE SubmitMark \/ ClearTaskStates \/ ClearResults
  BY <1>3 DEF SubmitMark, ClearTaskStates, ClearResults, queueVars, workerVars, Holders
<1>4. ASSUME NEW w \in Workers, Work(w), ~TakeTask(w), ~FinishTask(w)
      PROVE  Quiet /\ Holders' = Holders
  <2> USE DEF Goto, Holders, Holding, Executing, queueVars, Typing, TypeOK
  <2>1. CASE WaitForTask(w) \/ WaitEnds(w)
    BY <2>1 DEF WaitForTask, WaitEnds, StartWait, GiveUp
  <2>2. CASE ReadStopEvent(w) \/ ReadUnfinished(w)
    BY <2>2 DEF ReadStopEvent, ReadUnfinished
  <2>3. CASE MarkRunning(w) \/ Execute(w) \/ ExecuteEscapes(w)
    BY <2>3 DEF MarkRunning, Execute, ExecuteEscapes
  <2>4. CASE AppendResult(w) \/ MarkFinal(w)
    BY <2>4 DEF AppendResult, MarkFinal
  <2> QED
    BY <1>4, <2>1, <2>2, <2>3, <2>4 DEF Work
<1> QED
  BY <1>1, <1>2, <1>3, <1>4 DEF Next, Client

(* _pending and _heap stay in agreement.                                   *)
LEMMA PendingStep ==
    ASSUME Typing, PendingMatchesHeap, [Next]_vars
    PROVE  PendingMatchesHeap'
<1> USE DEF PendingMatchesHeap, Typing
<1>1. ASSUME NEW t \in Tasks, SubmitPut(t)
      PROVE  PendingMatchesHeap'
  <2> DEFINE n == NewEntry(t)
  <2>1. n \in Entry /\ n.expert = t.expert /\ n.seq = sequence
    BY <1>1, NewEntryType DEF SubmitPut, Put
  <2>2. heap' = heap \cup {n} /\ pending' = pending \cup {t.expert} /\ sequence' = sequence + 1
    BY <1>1 DEF SubmitPut, Put
  <2>3. t.expert \notin pending /\ Cardinality(heap) < MaxQueueSize
    <3>1. Cardinality(heap) \in Nat
      BY FS_CardinalityType DEF TypeOK, QueueTypeOK
    <3> QED
      BY <1>1, <3>1, QueueAssumption DEF SubmitPut, Put, CanPut, IsFull
  <2>4. Cardinality(heap \cup {n}) <= MaxQueueSize
    <3>1. Cardinality(heap) \in Nat
      BY FS_CardinalityType DEF TypeOK, QueueTypeOK
    <3> HIDE DEF n
    <3>2. Cardinality(heap \cup {n}) \in {Cardinality(heap), Cardinality(heap) + 1}
      BY FS_AddElement DEF TypeOK, QueueTypeOK
    <3> QED
      BY <2>3, <3>1, <3>2, QueueAssumption
  <2>5. \A x \in heap : x.seq \in Int /\ x.seq < sequence /\ x.expert # t.expert
    BY <2>3, QueueAssumption DEF TypeOK, QueueTypeOK, Entry, Instances
  <2>6. sequence \in Int
    BY QueueAssumption DEF TypeOK, QueueTypeOK
  <2> HIDE DEF n
  <2>7. pending' = {x.expert : x \in heap'}
    BY <2>1, <2>2
  <2>8. \A x, y \in heap' : x.expert = y.expert \/ x.seq = y.seq => x = y
    BY <2>1, <2>2, <2>5, <2>6
  <2>9. \A x \in heap' : x.seq < sequence'
    BY <2>1, <2>2, <2>5, <2>6
  <2> QED
    BY <2>2, <2>4, <2>7, <2>8, <2>9
<1>2. ASSUME NEW x \in heap, heap' = heap \ {x}, pending' = pending \ {x.expert},
             sequence' = sequence
      PROVE  PendingMatchesHeap'
  <2>1. Cardinality(heap') <= MaxQueueSize
    <3>1. Cardinality(heap) \in Nat /\ Cardinality(heap \ {x}) = Cardinality(heap) - 1
      BY FS_CardinalityType, FS_RemoveElement DEF TypeOK, QueueTypeOK
    <3> QED
      BY <1>2, <3>1, QueueAssumption
  <2> QED
    BY <1>2, <2>1
<1>3. CASE \E e \in Experts : Cancel(e)
  BY <1>2, <1>3 DEF Cancel, CancelEntry, EntriesOf
<1>4. CASE \E w \in Workers : TakeTask(w)
  BY <1>2, <1>4 DEF TakeTask, Pop
<1>5. CASE \E w \in Workers : FinishTask(w)
  BY <1>5 DEF FinishTask, TaskDone, queueVars
<1> QED
  BY <1>1, <1>3, <1>4, <1>5, StepKinds DEF Quiet

(* The number of holders changes by one with a get and a task_done.        *)
LEMMA HoldersStep ==
    ASSUME Typing, NEW w \in Workers
    PROVE  /\ IsFiniteSet(Holders) /\ Cardinality(Holders) \in Nat
           /\ TakeTask(w) => Cardinality(Holders') = Cardinality(Holders) + 1
           /\ FinishTask(w) => /\ Cardinality(Holders) > 0
                              /\ Cardinality(Holders') = Cardinality(Holders) - 1
<1> USE DEF Typing, TypeOK
<1>1. IsFiniteSet(Holders) /\ Cardinality(Holders) \in Nat
  BY EngineAssumption, FS_Subset, FS_CardinalityType DEF Holders
<1>2. ASSUME TakeTask(w)
      PROVE  Cardinality(Holders') = Cardinality(Holders) + 1
  <2>1. w \notin Holders /\ Holders' = Holders \cup {w}
    BY <1>2 DEF TakeTask, Goto, Holders, Holding, Executing
  <2> QED
    BY <1>1, <2>1, FS_AddElement
<1>3. ASSUME FinishTask(w)
      PROVE  Cardinality(Holders) > 0 /\ Cardinality(Holders') = Cardinality(Holders) - 1
  <2>1. w \in Holders /\ Holders' = Holders \ {w}
    BY <1>3 DEF FinishTask, Goto, Holders, Holding, Executing
  <2> QED
    BY <1>1, <2>1, FS_RemoveElement, FS_EmptySet
<1> QED
  BY <1>1, <1>2, <1>3

(* The count of unfinished tasks stays exact.                              *)
LEMMA UnfinishedStep ==
    ASSUME Typing, PendingMatchesHeap, UnfinishedExact, [Next]_vars
    PROVE  UnfinishedExact'
<1> USE DEF UnfinishedExact
<1>1. IsFiniteSet(heap) /\ Cardinality(heap) \in Nat
  BY FS_CardinalityType DEF Typing, TypeOK, QueueTypeOK
<1>2. IsFiniteSet(Holders) /\ Cardinality(Holders) \in Nat
  BY EngineAssumption, FS_Subset, FS_CardinalityType DEF Holders
<1>3. ASSUME NEW t \in Tasks, SubmitPut(t)
      PROVE  UnfinishedExact'
  <2>1. NewEntry(t) \notin heap
    BY <1>3, NewEntryType, QueueAssumption
       DEF SubmitPut, Put, PendingMatchesHeap, Typing, TypeOK, QueueTypeOK
  <2>2. Cardinality(heap \cup {NewEntry(t)}) = Cardinality(heap) + 1
    BY <1>1, <2>1, FS_AddElement
  <2> QED
    BY <1>1, <1>2, <1>3, <2>2 DEF SubmitPut, Put, Holders, workerVars
<1>4. ASSUME NEW e \in Experts, Cancel(e)
      PROVE  UnfinishedExact'
  <2>1. PICK x \in heap : CancelEntry(x)
    BY <1>4 DEF Cancel, EntriesOf
  <2>2. Cardinality(heap) > 0 /\ Cardinality(heap \ {x}) = Cardinality(heap) - 1
    BY <1>1, FS_RemoveElement, FS_EmptySet
  <2>3. unfinished > 0
    BY <1>1, <1>2, <2>2
  <2>4. unfinished' = unfinished - 1 /\ heap' = heap \ {x}
    BY <2>1, <2>3 DEF CancelEntry, FinishOne, Typing, TypeOK, QueueTypeOK
  <2>5. Holders' = Holders
    BY <1>4 DEF Cancel, Holders, workerVars
  <2> QED
    BY <1>1, <1>2, <2>2, <2>4, <2>5
<1>5. ASSUME NEW w \in Workers, TakeTask(w)
      PROVE  UnfinishedExact'
  <2>1. PICK x \in heap : Pop(x, w)
    BY <1>5 DEF TakeTask
  <2>2. Cardinality(heap \ {x}) = Cardinality(heap) - 1
    BY <1>1, FS_RemoveElement
  <2> QED
    BY <1>1, <1>2, <1>5, <2>1, <2>2, HoldersStep DEF Pop
<1>6. ASSUME NEW w \in Workers, FinishTask(w)
      PROVE  UnfinishedExact'
  <2>1. Cardinality(Holders) > 0 /\ Cardinality(Holders') = Cardinality(Holders) - 1
    BY <1>6, HoldersStep
  <2>2. unfinished > 0
    BY <1>1, <1>2, <2>1
  <2>3. unfinished' = unfinished - 1 /\ heap' = heap
    BY <1>6, <2>2 DEF FinishTask, TaskDone, TaskDoneRaises, FinishOne, Typing, TypeOK, QueueTypeOK
  <2> QED
    BY <1>1, <1>2, <2>1, <2>3
<1> QED
  BY <1>3, <1>4, <1>5, <1>6, StepKinds DEF Quiet
-----------------------------------------------------------------------------
(* The statuses mean what they say: what submit() puts under _lock is not  *)
(* overtaken, and QUEUED and RUNNING are shown of living tasks only.       *)
StatusInv == SubmitTracked /\ QueuedIsReal /\ RunningIsReal

LEMMA StatusStep ==
    ASSUME Typing, StatusInv, [Next]_vars
    PROVE  StatusInv'
<1> USE DEF StatusInv, SubmitTracked, QueuedIsReal, RunningIsReal, EntriesOf, Typing, TypeOK
<1>1. CASE UNCHANGED vars
  BY <1>1 DEF vars, queueVars, workerVars, taskVars
<1>2. ASSUME NEW c \in Controllers, Control(c)
      PROVE  StatusInv'
  <2>1. CASE Start(c)
    BY <2>1 DEF Start, Unused, Dead, Executing, queueVars, taskVars
  <2> QED
    BY <1>2, <2>1 DEF Control, StopAndWait, StopWithoutWait, StopRequest, StopStep,
       StopJoinsQueue, StopNotifies, StopJoinsWorkers, StopFinishes, StopGoto, JoinReturns,
       JoinWaits, NotifyAll, queueVars, workerVars, taskVars
<1>3. ASSUME NEW t \in Tasks, SubmitPut(t)
      PROVE  StatusInv'
  BY <1>3 DEF SubmitPut, Put, workerVars
<1>4. CASE SubmitMark
  BY <1>4 DEF SubmitMark, queueVars, workerVars
<1>5. ASSUME NEW e \in Experts, Cancel(e)
      PROVE  StatusInv'
  BY <1>5 DEF Cancel, CancelEntry, LockFree, workerVars
<1>6. CASE ClearTaskStates \/ ClearResults
  BY <1>6 DEF ClearTaskStates, ClearResults, NoStatus, LockFree, queueVars, workerVars
<1>7. ASSUME NEW w \in Workers, Work(w)
      PROVE  StatusInv'
  <2> USE DEF Goto, Executing
  <2>1. CASE TakeTask(w)
    BY <2>1 DEF TakeTask, Pop, taskVars
  <2>2. CASE WaitForTask(w) \/ WaitEnds(w)
    BY <2>2 DEF WaitForTask, WaitEnds, StartWait, GiveUp, taskVars
  <2>3. CASE ReadStopEvent(w) \/ ReadUnfinished(w)
    BY <2>3 DEF ReadStopEvent, ReadUnfinished, queueVars, taskVars
  <2>4. CASE MarkRunning(w)
    BY <2>4 DEF MarkRunning, LockFree, queueVars
  <2>5. CASE Execute(w)
    BY <2>5 DEF Execute, queueVars, taskVars
  <2>6. CASE ExecuteEscapes(w)
    BY <2>6 DEF ExecuteEscapes, queueVars
  <2>7. CASE AppendResult(w)
    BY <2>7 DEF AppendResult, LockFree, queueVars
  <2>8. CASE MarkFinal(w)
    <3>1. result[w] \in FinalStatus
      BY <2>8 DEF MarkFinal, TaskInHand
    <3> QED
      BY <2>8, <3>1 DEF MarkFinal, FinalStatus, LockFree, queueVars
  <2>9. CASE FinishTask(w)
    BY <2>9 DEF FinishTask, TaskDone, queueVars, taskVars
  <2> QED
    BY <1>7, <2>1, <2>2, <2>3, <2>4, <2>5, <2>6, <2>7, <2>8, <2>9 DEF Work
<1> QED
  BY <1>1, <1>2, <1>3, <1>4, <1>5, <1>6, <1>7 DEF Next, Client
-----------------------------------------------------------------------------
(* The inductive invariant.                                                *)
IInv == Typing /\ PendingMatchesHeap /\ UnfinishedExact /\ StatusInv

LEMMA InitIInv ==
    ASSUME Init
    PROVE  IInv
<1> USE DEF Init, QueueInit
<1>1. Typing
  <2>1. QueueTypeOK
    BY FS_EmptySet, QueueAssumption DEF QueueTypeOK
  <2>2. TypeOK
    BY <2>1 DEF TypeOK, Dead
  <2>3. TaskInHand
    BY DEF TaskInHand, Holding, Executing
  <2> QED
    BY <2>2, <2>3 DEF Typing
<1>2. PendingMatchesHeap
  BY FS_EmptySet, QueueAssumption DEF PendingMatchesHeap
<1>3. UnfinishedExact
  <2>1. Holders = {}
    BY DEF Holders, Holding, Executing
  <2> QED
    BY <2>1, FS_EmptySet DEF UnfinishedExact
<1>4. StatusInv
  BY DEF StatusInv, SubmitTracked, QueuedIsReal, RunningIsReal, NoStatus
<1> QED
  BY <1>1, <1>2, <1>3, <1>4 DEF IInv

THEOREM Invariance == Spec => []IInv
<1>1. Init => IInv
  BY InitIInv
<1>2. IInv /\ [Next]_vars => IInv'
  BY TypingStep, PendingStep, UnfinishedStep, StatusStep DEF IInv
<1> QED
  BY <1>1, <1>2, PTL DEF Spec
-----------------------------------------------------------------------------
(* With a count of zero the heap is empty and no worker holds a task.      *)
LEMMA NothingUnfinished ==
    ASSUME IInv, unfinished = 0
    PROVE  heap = {} /\ Holders = {}
<1> USE DEF IInv
<1>1. IsFiniteSet(heap) /\ Cardinality(heap) \in Nat
  BY FS_CardinalityType DEF Typing, TypeOK, QueueTypeOK
<1>2. IsFiniteSet(Holders) /\ Cardinality(Holders) \in Nat
  BY EngineAssumption, FS_Subset, FS_CardinalityType DEF Holders
<1>3. Cardinality(heap) = 0 /\ Cardinality(Holders) = 0
  BY <1>1, <1>2 DEF UnfinishedExact
<1> QED
  BY <1>1, <1>2, <1>3, FS_EmptySet

(* Every variable keeps its type.                                          *)
THEOREM TypeCorrect == Spec => []TypeOK
  BY Invariance, PTL DEF IInv, Typing

(* _pending and _heap agree, so the branch of PrefetchQueue.cancel() that  *)
(* "should not happen" (queue.py:191-196) is never taken.                  *)
THEOREM PendingCorrect == Spec => []PendingMatchesHeap
  BY Invariance, PTL DEF IInv

(* _unfinished_tasks counts what join() and stop() have to wait for.       *)
THEOREM UnfinishedCorrect == Spec => []UnfinishedExact
  BY Invariance, PTL DEF IInv

(* A status QUEUED is of a task that waits or has just been taken.         *)
THEOREM QueuedCorrect == Spec => []QueuedIsReal
  BY Invariance, PTL DEF IInv, StatusInv

(* A status RUNNING is of a task under execution.                          *)
THEOREM RunningCorrect == Spec => []RunningIsReal
  BY Invariance, PTL DEF IInv, StatusInv

(* Nothing is shown QUEUED or RUNNING while nothing is unfinished: neither *)
(* status has the task that QueuedIsReal and RunningIsReal ask for.        *)
THEOREM SettledCorrect == Spec => []SettledWhenIdle
<1>1. IInv => SettledWhenIdle
  BY NothingUnfinished DEF IInv, StatusInv, SettledWhenIdle, QueuedIsReal, RunningIsReal,
     EntriesOf, Holders, Holding, Executing
<1> QED
  BY <1>1, Invariance, PTL
=============================================================================
