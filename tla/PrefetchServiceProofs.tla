------------------------ MODULE PrefetchServiceProofs ------------------------
(***************************************************************************)
(* Proofs that the engine loses and repeats no task, and that with one     *)
(* controlling thread it drains before it stops and implements             *)
(* PrefetchService.  With several controlling threads the last two fail    *)
(* (see AtMostNumWorkers in the run two_stops).                            *)
(***************************************************************************)
EXTENDS PrefetchEngineProofs

(* An accepted task stays in one place until it has its outcome.           *)
LEMMA PlaceStep ==
    ASSUME IInv, AcceptedInOnePlace, [Next]_vars
    PROVE  AcceptedInOnePlace'
<1>1. ASSUME UNCHANGED <<outcome, heap, sequence, task>>, Unended' = Unended
      PROVE  AcceptedInOnePlace'
  BY <1>1 DEF AcceptedInOnePlace
<1> USE DEF AcceptedInOnePlace, Unended, IInv, Typing, TypeOK, QueueTypeOK
<1>2. CASE UNCHANGED vars
  BY <1>1, <1>2 DEF vars, queueVars, workerVars, taskVars
<1>3. ASSUME NEW c \in Controllers, Control(c)
      PROVE  AcceptedInOnePlace'
  <2>1. CASE Start(c)
    <3>1. Unended' = Unended
      BY <2>1 DEF Start, Unused, Dead
    <3> QED
      BY <1>1, <2>1, <3>1 DEF Start, queueVars, taskVars
  <2> QED
    BY <1>1, <1>3, <2>1 DEF Control, StopAndWait, StopWithoutWait, StopRequest, StopStep,
       StopJoinsQueue, StopNotifies, StopJoinsWorkers, StopFinishes, StopGoto, JoinReturns,
       JoinWaits, NotifyAll, queueVars, workerVars, taskVars
<1>4. ASSUME NEW t \in Tasks, SubmitPut(t)
      PROVE  AcceptedInOnePlace'
  <2> DEFINE n == NewEntry(t)
  <2>1. n.seq = sequence /\ heap' = heap \cup {n} /\ sequence' = sequence + 1
    BY <1>4, NewEntryType DEF SubmitPut, Put
  <2>2. sequence \in Instances /\ Instances \subseteq Int
    BY <1>4, QueueAssumption DEF SubmitPut, Put, Instances
  <2>3. outcome' = [outcome EXCEPT ![sequence] = "accepted"] /\ task' = task /\ Unended' = Unended
    BY <1>4 DEF SubmitPut, workerVars
  <2>4. outcome[sequence] = "future" /\ \A i \in Instances : i < sequence => outcome[i] # "future"
    BY <2>2
  <2>5. \A w \in Unended : task[w].seq \in Instances
    BY DEF TaskInHand, Holding, Executing, Entry
  <2>6. \A x \in heap : x.seq \in Instances /\ x.seq # sequence
    BY <2>2 DEF PendingMatchesHeap, Entry
  <2>7. \A w \in Unended : task[w].seq # sequence
    BY <2>4, <2>5
  <2> HIDE DEF n
  <2>8. \A i \in Instances : outcome'[i] = "future" <=> i >= sequence'
    BY <2>1, <2>2, <2>3, <2>4
  <2>9. \A i \in Instances : outcome'[i] = "accepted" <=>
                                \/ \E x \in heap' : x.seq = i
                                \/ \E w \in Unended' : task'[w].seq = i
    BY <2>1, <2>2, <2>3, <2>4, <2>6, <2>7
  <2>10. \A w \in Unended' : \A x \in heap' : x.seq # task'[w].seq
    BY <2>1, <2>3, <2>7
  <2> QED
    BY <2>3, <2>8, <2>9, <2>10
<1>5. ASSUME NEW e \in Experts, Cancel(e)
      PROVE  AcceptedInOnePlace'
  <2>1. PICK x \in heap : /\ heap' = heap \ {x}
                          /\ outcome' = [outcome EXCEPT ![x.seq] = "withdrawn"]
    BY <1>5 DEF Cancel, CancelEntry, EntriesOf
  <2>2. UNCHANGED <<sequence, task, Unended>>
    BY <1>5 DEF Cancel, CancelEntry, workerVars
  <2>3. x.seq \in Instances /\ \A y \in heap : y.seq = x.seq => y = x
    BY DEF PendingMatchesHeap, Entry
  <2>4. outcome[x.seq] = "accepted" /\ \A w \in Unended : task[w].seq # x.seq
    BY <2>3
  <2>5. \A i \in Instances : i # x.seq => outcome'[i] = outcome[i]
    BY <2>1
  <2>6. outcome'[x.seq] = "withdrawn"
    BY <2>1, <2>3
  <2> QED
    BY <2>1, <2>2, <2>3, <2>4, <2>5, <2>6
<1>6. CASE SubmitMark \/ ClearTaskStates \/ ClearResults
  BY <1>1, <1>6 DEF SubmitMark, ClearTaskStates, ClearResults, queueVars, workerVars
<1>7. ASSUME NEW w \in Workers, TakeTask(w)
      PROVE  AcceptedInOnePlace'
  <2>1. PICK x \in heap : heap' = heap \ {x} /\ task' = [task EXCEPT ![w] = x]
    BY <1>7 DEF TakeTask, Pop
  <2>2. w \notin Unended /\ Unended' = Unended \cup {w}
    BY <1>7 DEF TakeTask, Goto
  <2>3. UNCHANGED <<outcome, sequence>>
    BY <1>7 DEF TakeTask, Pop, taskVars
  <2>4. \A y \in heap : y.seq = x.seq => y = x
    BY DEF PendingMatchesHeap
  <2>5. task'[w] = x /\ \A v \in Unended : task'[v] = task[v]
    BY <2>1, <2>2
  <2> QED
    BY <2>1, <2>2, <2>3, <2>4, <2>5
(* The two ways a task ends in the hands of a worker.                      *)
<1>8. ASSUME NEW w \in Unended, NEW s, s # "accepted", s # "future",
             outcome' = [outcome EXCEPT ![task[w].seq] = s],
             Unended' = Unended \ {w}, UNCHANGED <<heap, sequence, task>>
      PROVE  AcceptedInOnePlace'
  <2>1. task[w].seq \in Instances
    BY DEF TaskInHand, Holding, Executing, Entry
  <2>2. \A i \in Instances : outcome'[i] = IF i = task[w].seq THEN s ELSE outcome[i]
    BY <1>8
  <2>3. outcome[task[w].seq] = "accepted"
    BY <2>1
  <2> QED
    BY <1>8, <2>1, <2>2, <2>3
<1>9. ASSUME NEW w \in Workers, Work(w), ~TakeTask(w)
      PROVE  AcceptedInOnePlace'
  <2> USE DEF Goto, queueVars, taskVars
  <2>1. CASE WaitForTask(w) \/ WaitEnds(w)
    BY <1>1, <2>1 DEF WaitForTask, WaitEnds, StartWait, GiveUp
  <2>2. CASE ReadStopEvent(w) \/ ReadUnfinished(w)
    BY <1>1, <2>2 DEF ReadStopEvent, ReadUnfinished
  <2>3. CASE MarkRunning(w) \/ Execute(w)
    BY <1>1, <2>3 DEF MarkRunning, Execute
  <2>4. CASE ExecuteEscapes(w)
    <3>1. w \in Unended /\ Unended' = Unended \ {w}
      BY <2>4 DEF ExecuteEscapes
    <3> QED
      BY <1>8, <2>4, <3>1 DEF ExecuteEscapes
  <2>5. CASE AppendResult(w)
    <3>1. w \in Unended /\ Unended' = Unended \ {w}
      BY <2>5 DEF AppendResult
    <3>2. result[w] # "accepted" /\ result[w] # "future"
      BY <2>5 DEF AppendResult, TaskInHand, FinalStatus
    <3> QED
      BY <1>8, <2>5, <3>1, <3>2 DEF AppendResult
  <2>6. CASE MarkFinal(w)
    BY <1>1, <2>6 DEF MarkFinal
  <2>7. CASE FinishTask(w)
    <3>1. w \notin Unended /\ Unended' = Unended /\ \A v \in Unended : task'[v] = task[v]
      BY <2>7 DEF FinishTask
    <3> QED
      BY <2>7, <3>1 DEF FinishTask, TaskDone
  <2> QED
    BY <1>9, <2>1, <2>2, <2>3, <2>4, <2>5, <2>6, <2>7 DEF Work
<1> QED
  BY <1>2, <1>3, <1>4, <1>5, <1>6, <1>7, <1>9 DEF Next, Client

(* An accepted task without an outcome is in the heap or in the hands of   *)
(* exactly one worker.                                                     *)
THEOREM PlaceCorrect == Spec => []AcceptedInOnePlace
<1>1. Init => AcceptedInOnePlace
  BY QueueAssumption DEF Init, QueueInit, AcceptedInOnePlace, Unended, Instances
<1>2. IInv /\ AcceptedInOnePlace /\ [Next]_vars => AcceptedInOnePlace'
  BY PlaceStep
<1> QED
  BY <1>1, <1>2, Invariance, PTL DEF Spec

(* One outcome per task: an outcome is written only over "accepted" or, by *)
(* submit(), over "future".                                                *)
LEMMA OutcomeStep ==
    ASSUME IInv, AcceptedInOnePlace, [Next]_vars, NEW i \in Instances
    PROVE  \/ outcome'[i] = outcome[i]
           \/ outcome[i] = "future" /\ outcome'[i] = "accepted"
           \/ outcome[i] = "accepted" /\ outcome'[i] # "future"
<1> USE DEF IInv, Typing, TypeOK, QueueTypeOK
<1>1. CASE UNCHANGED outcome
  BY <1>1
<1>2. CASE UNCHANGED vars
  BY <1>1, <1>2 DEF vars, taskVars
<1>3. ASSUME NEW c \in Controllers, Control(c)
      PROVE  UNCHANGED outcome
  BY <1>3 DEF Control, Start, StopAndWait, StopWithoutWait, StopRequest, StopStep,
     StopJoinsQueue, StopNotifies, StopJoinsWorkers, StopFinishes, StopGoto, taskVars
<1>4. ASSUME NEW t \in Tasks, SubmitPut(t)
      PROVE  outcome'[i] = outcome[i] \/ (outcome[i] = "future" /\ outcome'[i] = "accepted")
  BY <1>4 DEF SubmitPut, AcceptedInOnePlace
<1>5. ASSUME NEW e \in Experts, Cancel(e)
      PROVE  outcome'[i] = outcome[i] \/ (outcome[i] = "accepted" /\ outcome'[i] = "withdrawn")
  <2>1. PICK x \in heap : outcome' = [outcome EXCEPT ![x.seq] = "withdrawn"]
    BY <1>5 DEF Cancel, EntriesOf
  <2> QED
    BY <2>1 DEF AcceptedInOnePlace
<1>6. ASSUME NEW w \in Workers, Work(w)
      PROVE  \/ outcome'[i] = outcome[i]
             \/ outcome[i] = "accepted" /\ outcome'[i] # "future"
  <2>1. CASE ExecuteEscapes(w)
    BY <2>1 DEF ExecuteEscapes, AcceptedInOnePlace, Unended
  <2>2. CASE AppendResult(w)
    <3>1. result[w] # "future"
      BY <2>2 DEF AppendResult, TaskInHand, FinalStatus
    <3> QED
      BY <2>2, <3>1 DEF AppendResult, AcceptedInOnePlace, Unended
  <2> QED
    BY <1>6, <2>1, <2>2 DEF Work, TakeTask, WaitForTask, WaitEnds, ReadStopEvent, ReadUnfinished,
       MarkRunning, Execute, MarkFinal, FinishTask, taskVars
<1>7. CASE SubmitMark \/ ClearTaskStates \/ ClearResults
  BY <1>1, <1>7 DEF SubmitMark, ClearTaskStates, ClearResults
<1> QED
  BY <1>1, <1>2, <1>3, <1>4, <1>5, <1>6, <1>7 DEF Next, Client

(* No task is executed twice, or executed and withdrawn.                   *)
THEOREM OutcomeCorrect == Spec => OutcomeIsFinal
<1>1. IInv /\ AcceptedInOnePlace /\ [Next]_vars =>
        [\A i \in Instances :
           \/ outcome'[i] = outcome[i]
           \/ outcome[i] = "future" /\ outcome'[i] = "accepted"
           \/ outcome[i] = "accepted" /\ outcome'[i] # "future"]_vars
  BY OutcomeStep
<1> QED
  BY <1>1, Invariance, PlaceCorrect, PTL DEF Spec, OutcomeIsFinal
-----------------------------------------------------------------------------
(* One controlling thread.  Live workers are only those on the current     *)
(* list, and nothing becomes unfinished once _stop_event is set.           *)
LEMMA LifecycleStep ==
    ASSUME IInv, LifecycleInv, [Next]_vars,
           NEW c0, Controllers = {c0}
    PROVE  LifecycleInv'
<1> USE DEF LifecycleInv, Past, Typing, TypeOK, IInv
<1>1. CASE UNCHANGED vars
  BY <1>1 DEF vars, queueVars, workerVars, taskVars, lifecycleVars, Alive, LockFree
<1>2. ASSUME NEW c \in Controllers, Control(c)
      PROVE  LifecycleInv'
  <2> USE DEF taskVars, workerVars, queueVars, LockFree
  <2>1. CASE Start(c)
    BY <2>1 DEF Start, Unused, Alive, Dead
  <2>2. CASE StopAndWait(c)
    BY <2>2 DEF StopAndWait, StopRequest, Alive
  <2>3. CASE StopWithoutWait(c)
    BY <2>3 DEF StopWithoutWait, StopRequest, Alive
  <2>4. CASE StopJoinsQueue(c)
    <3>1. unfinished \in Nat
      <4>1. Cardinality(heap) \in Nat
        BY FS_CardinalityType DEF QueueTypeOK
      <4>2. Cardinality(Holders) \in Nat
        BY FS_CardinalityType, EngineAssumption, FS_Subset DEF Holders
      <4> QED
        BY <4>1, <4>2 DEF UnfinishedExact
    <3>2. CASE JoinReturns(c)
      <4>1. unfinished = 0
        BY <3>1, <3>2 DEF JoinReturns
      <4> QED
        BY <2>4, <3>2, <4>1 DEF StopJoinsQueue, StopGoto, JoinReturns, JoinWaits, Alive
    <3>3. CASE JoinWaits(c)
      BY <2>4, <3>1, <3>3 DEF StopJoinsQueue, StopGoto, JoinReturns, JoinWaits, Alive
    <3> QED
      BY <2>4, <3>2, <3>3 DEF StopJoinsQueue
  <2>5. CASE StopNotifies(c)
    BY <2>5 DEF StopNotifies, StopGoto, NotifyAll, Alive
  <2>6. CASE StopJoinsWorkers(c)
    BY <2>6 DEF StopJoinsWorkers, StopGoto, Alive
  <2>7. CASE StopFinishes(c)
    BY <2>7 DEF StopFinishes, StopGoto, Alive
  <2> QED
    BY <1>2, <2>1, <2>2, <2>3, <2>4, <2>5, <2>6, <2>7 DEF Control, StopStep
<1>3. CASE Client
  <2> USE DEF workerVars, lifecycleVars, Alive, LockFree
  <2>1. CASE \E t \in Tasks : SubmitPut(t)
    BY <2>1 DEF SubmitPut, Accepting
  <2>2. CASE \E e \in Experts : Cancel(e)
    <3>1. unfinished # 0
      BY <2>2, NothingUnfinished DEF Cancel, EntriesOf
    <3> QED
      BY <2>2, <3>1 DEF Cancel
  <2>3. CASE SubmitMark \/ ClearTaskStates \/ ClearResults
    BY <2>3 DEF SubmitMark, ClearTaskStates, ClearResults, queueVars
  <2> QED
    BY <1>3, <2>1, <2>2, <2>3 DEF Client
<1>4. ASSUME NEW w \in Workers, Work(w)
      PROVE  LifecycleInv'
  <2>1. UNCHANGED lifecycleVars /\ submitting' = submitting
    BY <1>4 DEF Work, TakeTask, WaitForTask, WaitEnds, ReadStopEvent, ReadUnfinished, MarkRunning,
       Execute, ExecuteEscapes, AppendResult, MarkFinal, FinishTask, taskVars
  <2>2. Alive' \subseteq Alive
    BY <1>4 DEF Work, TakeTask, WaitForTask, WaitEnds, ReadStopEvent, ReadUnfinished, MarkRunning,
       Execute, ExecuteEscapes, AppendResult, MarkFinal, FinishTask, Goto, Alive, Dead
  <2>3. unfinished = 0 => unfinished' = 0
    <3>1. CASE FinishTask(w)
      BY <3>1, NothingUnfinished DEF FinishTask, Holders, Holding
    <3> QED
      BY <1>4, <3>1 DEF Work, TakeTask, WaitForTask, WaitEnds, ReadStopEvent, ReadUnfinished,
         MarkRunning, Execute, ExecuteEscapes, AppendResult, MarkFinal, Pop, StartWait, GiveUp, queueVars
  <2> QED
    BY <2>1, <2>2, <2>3 DEF lifecycleVars, LockFree
<1> QED
  BY <1>1, <1>2, <1>3, <1>4 DEF Next

LEMMA LifecycleInvariance ==
    ASSUME NEW c0, Controllers = {c0}
    PROVE  Spec => []LifecycleInv
<1>1. Init => LifecycleInv
  BY DEF Init, QueueInit, LifecycleInv, Alive, Dead, Past, LockFree
<1>2. IInv /\ LifecycleInv /\ [Next]_vars => LifecycleInv'
  BY LifecycleStep
<1> QED
  BY <1>1, <1>2, Invariance, PTL DEF Spec

(* The queue is drained and every worker has gone when the engine is       *)
(* stopped: one controller.                                                *)
THEOREM DrainedCorrect ==
    ASSUME NEW c0, Controllers = {c0}
    PROVE  Spec => []DrainedWhenStopped
<1>1. IInv /\ AcceptedInOnePlace /\ LifecycleInv => DrainedWhenStopped
  BY NothingUnfinished DEF LifecycleInv, DrainedWhenStopped, AcceptedInOnePlace, Unended,
     Holders, Holding, Executing
<1> QED
  BY <1>1, Invariance, PlaceCorrect, LifecycleInvariance, PTL

(* There are at most num_workers threads, however often the engine was     *)
(* stopped and started: one controller.                                    *)
THEOREM WorkersBounded ==
    ASSUME NEW c0, Controllers = {c0}
    PROVE  Spec => []AtMostNumWorkers
<1>1. ASSUME IInv, LifecycleInv
      PROVE  AtMostNumWorkers
  <2>1. IsFiniteSet(workers) /\ Cardinality(Alive) <= Cardinality(workers)
    BY <1>1, EngineAssumption, FS_Subset DEF IInv, Typing, TypeOK, LifecycleInv
  <2>2. CASE workers = {}
    BY <2>1, <2>2, FS_EmptySet, <1>1, EngineAssumption DEF LifecycleInv, AtMostNumWorkers
  <2>3. CASE workers # {}
    BY <2>1, <2>3, <1>1 DEF LifecycleInv, AtMostNumWorkers
  <2> QED
    BY <2>2, <2>3
<1> QED
  BY <1>1, Invariance, LifecycleInvariance, PTL
-----------------------------------------------------------------------------
(* Every step of the engine is a step of the service or none.              *)
LEMMA ServiceStep ==
    ASSUME IInv, AcceptedInOnePlace, LifecycleInv, [Next]_vars
    PROVE  [Service!Next]_(Service!serviceVars)
<1> USE DEF Service!serviceVars, IInv, Typing, TypeOK, QueueTypeOK
<1>1. ASSUME UNCHANGED <<heap, sequence, outcome>>, Phase' = Phase, Active' = Active
      PROVE  UNCHANGED Service!serviceVars
  BY <1>1
<1>2. ASSUME UNCHANGED workerVars
      PROVE  Active' = Active
  BY <1>2 DEF Active, Unended, workerVars
<1>3. ASSUME UNCHANGED lifecycleVars
      PROVE  Phase' = Phase
  BY <1>3 DEF Phase, lifecycleVars
<1>4. CASE UNCHANGED vars
  BY <1>1, <1>2, <1>3, <1>4 DEF vars, queueVars, taskVars
<1>5. ASSUME NEW c \in Controllers, Control(c)
      PROVE  [Service!Next]_(Service!serviceVars)
  <2>1. CASE Start(c)
    <3>1. Unended' = Unended
      BY <2>1 DEF Start, Unused, Dead, Unended
    <3>2. Active' = Active
      BY <2>1, <3>1 DEF Start, Active
    <3>3. Phase = "STOPPED" /\ Phase' = "RUNNING"
      BY <2>1 DEF Start, Phase
    <3>4. Service!Open
      BY <2>1, <3>2, <3>3 DEF Start, Service!Open, queueVars, taskVars
    <3> QED
      BY <3>4 DEF Service!Next
  <2>2. ASSUME NEW next, StopRequest(c, next)
        PROVE  [Service!Next]_(Service!serviceVars)
    <3>1. Active' = Active /\ UNCHANGED <<heap, sequence, outcome>>
      BY <1>2, <2>2 DEF StopRequest, queueVars, taskVars
    <3>2. Phase \in {"RUNNING", "STOPPING"} /\ Phase' = "STOPPING"
      BY <2>2 DEF StopRequest, Phase
    <3>3. CASE Phase = "RUNNING"
      BY <3>1, <3>2, <3>3 DEF Service!Close, Service!Next
    <3> QED
      BY <1>1, <3>1, <3>2, <3>3
  <2>3. CASE StopFinishes(c)
    <3>1. Phase = "STOPPING" /\ Phase' = "STOPPED"
      BY <2>3 DEF StopFinishes, StopGoto, Phase, LifecycleInv, Past
    <3>2. heap = {} /\ Holders = {}
      BY <2>3, NothingUnfinished DEF StopFinishes, LifecycleInv, Past
    <3>3. Active = {} /\ Active' = Active
      BY <1>2, <2>3, <3>2 DEF StopFinishes, StopGoto, Active, Unended, Holders, Holding, Executing
    <3>4. Service!Halt
      BY <2>3, <3>1, <3>2, <3>3 DEF StopFinishes, StopGoto, Service!Halt, queueVars, taskVars
    <3> QED
      BY <3>4 DEF Service!Next
  <2>4. CASE StopJoinsQueue(c) \/ StopNotifies(c) \/ StopJoinsWorkers(c)
    <3>1. UNCHANGED <<heap, sequence, outcome>> /\ UNCHANGED workerVars
      BY <2>4 DEF StopJoinsQueue, StopNotifies, StopJoinsWorkers, StopGoto, JoinReturns, JoinWaits,
         NotifyAll, queueVars, taskVars
    <3>2. Phase' = Phase
      BY <2>4 DEF StopJoinsQueue, StopNotifies, StopJoinsWorkers, StopGoto, Phase
    <3> QED
      BY <1>1, <1>2, <3>1, <3>2
  <2> QED
    BY <1>5, <2>1, <2>2, <2>3, <2>4 DEF Control, StopStep, StopAndWait, StopWithoutWait
<1>6. ASSUME NEW t \in Tasks, SubmitPut(t)
      PROVE  [Service!Next]_(Service!serviceVars)
  <2>1. Phase = "RUNNING" /\ Phase' = Phase /\ Active' = Active
    BY <1>2, <1>3, <1>6 DEF SubmitPut, Accepting, Phase
  <2>2. \A x \in heap : x.expert # t.expert
    BY <1>6 DEF SubmitPut, Put, CanPut, PendingMatchesHeap
  <2>3. Cardinality(heap) < MaxQueueSize
    <3>1. Cardinality(heap) \in Nat
      BY FS_CardinalityType
    <3> QED
      BY <1>6, <3>1, QueueAssumption DEF SubmitPut, Put, CanPut, IsFull
  <2>4. Service!Accept(t)
    <3>1. NewEntry(t) = [expert |-> t.expert, priority |-> t.priority, seq |-> sequence]
      BY DEF NewEntry
    <3>2. /\ sequence < MaxSequence /\ sequence' = sequence + 1
          /\ heap' = heap \cup {NewEntry(t)}
          /\ outcome' = [outcome EXCEPT ![sequence] = "accepted"]
      BY <1>6 DEF SubmitPut, Put
    <3>3. Service!Cardinality(heap) = Cardinality(heap)
      BY DEF Service!Cardinality, Cardinality
    <3> QED
      BY <2>1, <2>2, <2>3, <3>1, <3>2, <3>3 DEF Service!Accept
  <2> QED
    BY <2>4 DEF Service!Next
<1>7. ASSUME NEW e \in Experts, Cancel(e)
      PROVE  [Service!Next]_(Service!serviceVars)
  <2>1. PICK x \in heap : /\ heap' = heap \ {x}
                          /\ outcome' = [outcome EXCEPT ![x.seq] = "withdrawn"]
    BY <1>7 DEF Cancel, CancelEntry, EntriesOf
  <2>2. Service!Withdraw(x)
    BY <1>2, <1>3, <1>7, <2>1 DEF Cancel, CancelEntry, Service!Withdraw
  <2> QED
    BY <2>2 DEF Service!Next
<1>8. CASE SubmitMark \/ ClearTaskStates \/ ClearResults
  BY <1>1, <1>2, <1>3, <1>8 DEF SubmitMark, ClearTaskStates, ClearResults, queueVars
<1>9. ASSUME NEW w \in Workers, Work(w)
      PROVE  [Service!Next]_(Service!serviceVars)
  <2>1. UNCHANGED lifecycleVars /\ Phase' = Phase
    BY <1>3, <1>9 DEF Work, TakeTask, WaitForTask, WaitEnds, ReadStopEvent, ReadUnfinished,
       MarkRunning, Execute, ExecuteEscapes, AppendResult, MarkFinal, FinishTask
  <2>2. CASE TakeTask(w)
    <3>1. PICK x \in heap : Pop(x, w) /\ task' = [task EXCEPT ![w] = x]
      BY <2>2 DEF TakeTask
    <3>2. w \notin Unended /\ Unended' = Unended \cup {w}
      BY <2>2 DEF TakeTask, Goto, Unended
    <3>3. Active' = Active \cup {x}
      BY <3>1, <3>2 DEF Active, Unended
    <3>4. Phase # "STOPPED"
      BY <2>2 DEF TakeTask, LifecycleInv, Alive, Dead, Phase
    <3>5. \A y \in heap : y.priority < x.priority \/ (y.priority = x.priority /\ x.seq <= y.seq)
      BY <3>1 DEF Pop, IsNext, MoreUrgent, Entry, Instances
    <3>6. Service!Begin(x)
      BY <2>1, <2>2, <3>1, <3>3, <3>4, <3>5 DEF TakeTask, Pop, Service!Begin, taskVars
    <3> QED
      BY <3>6 DEF Service!Next
  <2>3. ASSUME w \in Unended, NEW s \in FinalStatus \cup {"lost"},
               outcome' = [outcome EXCEPT ![task[w].seq] = s],
               Unended' = Unended \ {w}, UNCHANGED <<heap, sequence, task>>
        PROVE  [Service!Next]_(Service!serviceVars)
    <3>1. task[w] \in Active
      BY <2>3 DEF Active
    <3>2. \A v \in Unended : v # w => task[v] # task[w]
      BY <2>3 DEF AcceptedInOnePlace
    <3>3. Active' = Active \ {task[w]}
      BY <2>3, <3>2 DEF Active
    <3>4. Service!End(task[w], s) /\ s \in Service!Ends
      BY <2>1, <2>3, <3>3 DEF Service!End, Service!Ends, FinalStatus
    <3> QED
      BY <3>1, <3>4 DEF Service!Next
  <2>4. CASE ExecuteEscapes(w)
    <3>1. w \in Unended /\ Unended' = Unended \ {w}
      BY <2>4 DEF ExecuteEscapes, Goto, Unended
    <3> QED
      BY <2>3, <2>4, <3>1 DEF ExecuteEscapes, queueVars
  <2>5. CASE AppendResult(w)
    <3>1. w \in Unended /\ Unended' = Unended \ {w}
      BY <2>5 DEF AppendResult, Goto, Unended
    <3>2. result[w] \in FinalStatus
      BY <2>5 DEF AppendResult, TaskInHand
    <3> QED
      BY <2>3, <2>5, <3>1, <3>2 DEF AppendResult, queueVars
  <2>6. CASE FinishTask(w)
    <3>1. Unended' = Unended /\ \A v \in Unended : task'[v] = task[v]
      BY <2>6 DEF FinishTask, Goto, Unended
    <3>2. Active' = Active
      BY <3>1 DEF Active
    <3>3. UNCHANGED <<heap, sequence, outcome>>
      BY <2>6 DEF FinishTask, TaskDone, queueVars, taskVars
    <3> QED
      BY <1>1, <2>1, <3>2, <3>3
  <2>7. CASE \/ WaitForTask(w) \/ WaitEnds(w) \/ ReadStopEvent(w) \/ ReadUnfinished(w)
             \/ MarkRunning(w) \/ Execute(w) \/ MarkFinal(w)
    <3>1. UNCHANGED <<heap, sequence, outcome, task>>
      BY <2>7 DEF WaitForTask, WaitEnds, ReadStopEvent, ReadUnfinished, MarkRunning, Execute,
         MarkFinal, StartWait, GiveUp, queueVars, taskVars
    <3>2. Unended' = Unended
      BY <2>7 DEF WaitForTask, WaitEnds, ReadStopEvent, ReadUnfinished, MarkRunning, Execute,
         MarkFinal, Goto, Unended
    <3>3. Active' = Active
      BY <3>1, <3>2 DEF Active
    <3> QED
      BY <1>1, <2>1, <3>1, <3>3
  <2> QED
    BY <1>9, <2>2, <2>4, <2>5, <2>6, <2>7 DEF Work
<1> QED
  BY <1>4, <1>5, <1>6, <1>7, <1>8, <1>9 DEF Next, Client

(* With one controller the engine implements PrefetchService.              *)
THEOREM EngineImplementsService ==
    ASSUME NEW c0, Controllers = {c0}
    PROVE  Spec => ImplementsService
<1>1. Init => Service!Init
  BY DEF Init, QueueInit, Service!Init, Phase, Active, Unended, Instances
<1>2. IInv /\ AcceptedInOnePlace /\ LifecycleInv /\ [Next]_vars => [Service!Next]_(Service!serviceVars)
  BY ServiceStep
<1> QED
  BY <1>1, <1>2, Invariance, PlaceCorrect, LifecycleInvariance, PTL
     DEF Spec, ImplementsService, Service!Spec
=============================================================================
