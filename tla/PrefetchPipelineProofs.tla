------------------------ MODULE PrefetchPipelineProofs ------------------------
(***************************************************************************)
(* Proofs of the safety properties of PrefetchPipeline with one pipeline,  *)
(* for any number of experts, workers and controllers, any plans and any   *)
(* thresholds.  Several pipelines over one engine can break all of them.   *)
(*                                                                         *)
(* Every step of the pipeline is a step of the engine or leaves it alone,  *)
(* so that what PrefetchEngineProofs shows holds here as well.  Beside it  *)
(* the inductive invariant says where the task of an expert can be         *)
(* (Single), which status goes with each place (StatusOfPlace) and what    *)
(* the answers that process() has collected still mean while workers go on *)
(* (AnswersHold).                                                          *)
(***************************************************************************)
EXTENDS PrefetchPipeline, PrefetchEngineProofs, SequenceTheorems

Settled == FinalStatus \cup {NoStatus}
UnderWay(w) == wpc[w] \in {"got"} \cup Executing

Single ==
    /\ \A w \in Workers : UnderWay(w) => \A x \in heap : x.expert # task[w].expert
    /\ \A w, v \in Workers :
          UnderWay(w) /\ UnderWay(v) /\ task[w].expert = task[v].expert => w = v

StatusOfPlace ==
    /\ \A x \in heap : states[x.expert] = "QUEUED" \/ submitting = x
    /\ \A w \in Workers :
          /\ wpc[w] = "got" => states[task[w].expert] = "QUEUED" \/ submitting = task[w]
          /\ wpc[w] \in Executing => states[task[w].expert] = "RUNNING"

Absent(e) ==
    /\ \A x \in heap : x.expert # e
    /\ \A w \in Workers : UnderWay(w) => task[w].expert # e

AnswersHold(p) ==
    /\ ppc[p] # "submitting" => LockFree
    /\ ppc[p] = "submitting" /\ ~LockFree => states[submitting.expert] \in Settled
    /\ ppc[p] = "ask_running" => states[Request(p).expert] # "QUEUED"
    /\ ppc[p] \in {"ask_full", "submit"} =>
          Absent(Request(p).expert) /\ states[Request(p).expert] \in Settled
    /\ ppc[p] = "submit" => ~IsFull

LifeInv(p) == Single /\ StatusOfPlace /\ AnswersHold(p)
-----------------------------------------------------------------------------
(* A caller with a request asks for a task that clients may submit.        *)
LEMMA RequestType ==
    ASSUME PipelineTypeOK, NEW p \in Callers, ppc[p] # "idle"
    PROVE  /\ TaskOf(Request(p)) \in Tasks
           /\ Request(p).expert \in Experts
           /\ TaskOf(Request(p)).expert = Request(p).expert
           /\ Tail(todo[p]) \in Seq({r \in Requests : TaskOf(r) \in Tasks})
           /\ Len(todo[p]) # 1 => Tail(todo[p]) # <<>>
<1> DEFINE R == {r \in Requests : TaskOf(r) \in Tasks}
<1>1. todo[p] \in Seq(R) /\ todo[p] # <<>>
  BY DEF PipelineTypeOK
<1>2. Head(todo[p]) \in R /\ Tail(todo[p]) \in Seq(R)
      /\ (Len(todo[p]) # 1 => Tail(todo[p]) # <<>>)
  <2> HIDE DEF R
  <2>1. Len(<<>>) = 0 /\ Len(todo[p]) \in Nat \ {0}
    BY <1>1, EmptySeq
  <2>2. /\ Head(todo[p]) \in R /\ Tail(todo[p]) \in Seq(R)
        /\ Len(Tail(todo[p])) = Len(todo[p]) - 1
    BY <1>1, HeadTailProperties
  <2>3. Len(todo[p]) # 1 => Len(Tail(todo[p])) # 0
    BY <2>1, <2>2
  <2>4. Len(todo[p]) # 1 => Tail(todo[p]) # <<>>
    BY <2>1, <2>3, Zenon
  <2> QED
    BY <2>2, <2>4, Zenon
<1>3. \A r \in R : TaskOf(r) \in Tasks /\ r.expert \in Experts /\ TaskOf(r).expert = r.expert
  BY DEF Requests, TaskOf
<1> QED
  BY <1>2, <1>3 DEF Request

(* The next request, or the return of process().                           *)
LEMMA NextRequestType ==
    ASSUME PipelineTypeOK, NEW p \in Callers, ppc[p] # "idle", NextRequest(p)
    PROVE  PipelineTypeOK' /\ ppc'[p] \in {"idle", "evaluate"}
  BY RequestType DEF NextRequest, PGoto, PipelineTypeOK

LEMMA PipelineTyping ==
    ASSUME PipelineTypeOK, [PipelineNext]_pipelineVars
    PROVE  PipelineTypeOK'
<1> USE DEF PipelineTypeOK, PGoto
<1>1. CASE UNCHANGED callerVars
  BY <1>1 DEF callerVars
<1>2. ASSUME NEW p \in Callers, Process(p)
      PROVE  PipelineTypeOK'
  BY <1>2, PipelineAssumption DEF Process
<1>3. ASSUME NEW p \in Callers, ppc[p] # "idle", UNCHANGED todo,
             NEW next \in {"ask_queued", "ask_running", "ask_full", "submit", "submitting"},
             PGoto(p, next)
      PROVE  PipelineTypeOK'
  BY <1>3
<1>4. ASSUME NEW p \in Callers, ppc[p] # "idle",
             EvaluateRequest(p) \/ AskQueued(p) \/ AskRunning(p) \/ AskFull(p)
      PROVE  PipelineTypeOK'
  BY <1>3, <1>4, NextRequestType
     DEF EvaluateRequest, AskQueued, AskRunning, AskFull, AskStatus, AskNext, Admit, Reject
<1>5. ASSUME NEW p \in Callers, SubmitAccepted(p) \/ SubmitReturns(p) \/ SubmitRefused(p)
      PROVE  PipelineTypeOK'
  BY <1>3, <1>5, NextRequestType DEF SubmitAccepted, SubmitReturns, SubmitRefused
<1>6. ASSUME NEW p \in Callers, Call(p)
      PROVE  PipelineTypeOK'
  BY <1>2, <1>4, <1>5, <1>6 DEF Call, EvaluateRequest, AskQueued, AskRunning, AskFull
<1> QED
  BY <1>1, <1>6 DEF PipelineNext, pipelineVars

(* What the pipeline does to the engine is what the engine allows.         *)
LEMMA EngineStep ==
    ASSUME PipelineTypeOK, [PipelineNext]_pipelineVars
    PROVE  [Next]_vars
<1>1. ASSUME NEW p \in Callers, Call(p)
      PROVE  [Next]_vars
  <2>1. CASE SubmitAccepted(p)
    BY <2>1, RequestType DEF SubmitAccepted, Next, Client
  <2>2. CASE SubmitReturns(p)
    BY <2>2 DEF SubmitReturns, Next, Client
  <2> QED
    BY <1>1, <2>1, <2>2 DEF Call, Process, EvaluateRequest, AskQueued, AskRunning, AskFull,
       AskStatus, AskNext, Admit, Reject, SubmitRefused
<1> QED
  BY <1>1 DEF PipelineNext, pipelineVars, Next, Client

(* The pipeline keeps the engine's promises, however many callers it has.  *)
THEOREM PipelineRunsEngine == PipelineSpec => [](PipelineTypeOK /\ IInv)
<1>1. PipelineInit => PipelineTypeOK /\ IInv
  BY InitIInv DEF PipelineInit, PipelineTypeOK
<1>2. PipelineTypeOK /\ IInv /\ [PipelineNext]_pipelineVars => (PipelineTypeOK /\ IInv)'
  BY PipelineTyping, EngineStep, TypingStep, PendingStep, UnfinishedStep, StatusStep DEF IInv
<1> QED
  BY <1>1, <1>2, PTL DEF PipelineSpec
-----------------------------------------------------------------------------
(* What the entries of the heap and the tasks in hand have in common.      *)
LEMMA EntriesTyped ==
    ASSUME IInv
    PROVE  /\ \A x \in heap : x \in Entry /\ x.expert \in Experts /\ x # NoEntry
           /\ \A w \in Workers : UnderWay(w) =>
                 task[w] \in Entry /\ task[w].expert \in Experts /\ task[w] # NoEntry
           /\ states \in [Experts -> Status \cup {NoStatus}]
           /\ \A x, y \in heap : x.expert = y.expert => x = y
  BY EngineAssumption DEF IInv, Typing, TypeOK, QueueTypeOK, TaskInHand, UnderWay, Holding, Entry,
     PendingMatchesHeap

(* The answers of the admission, step by step, while the engine rests.     *)
LEMMA AnswerStep ==
    ASSUME NEW p \in Callers, PipelineTypeOK, IInv, LifeInv(p), UNCHANGED vars,
           Call(p)
    PROVE  LifeInv(p)'
<1>0. ppc[p] # "submitting" => LockFree
  BY DEF LifeInv, AnswersHold
<1>1. Single' /\ StatusOfPlace' /\ LockFree' = LockFree /\ IsFull' = IsFull
      /\ \A e : Absent(e)' = Absent(e)
  BY DEF vars, queueVars, taskVars, workerVars, LifeInv, Single, StatusOfPlace, UnderWay, LockFree,
     IsFull, Absent
<1>2. UNCHANGED <<states, submitting>>
  BY DEF vars, taskVars
<1> SUFFICES AnswersHold(p)'
  BY <1>1 DEF LifeInv
<1>3. ASSUME ppc'[p] \in {"idle", "evaluate", "ask_queued"}, LockFree
      PROVE  AnswersHold(p)'
  BY <1>1, <1>3 DEF AnswersHold
<1>4. ASSUME ppc[p] # "idle", LockFree, NextRequest(p)
      PROVE  AnswersHold(p)'
  BY <1>3, <1>4, NextRequestType
<1>5. CASE Process(p)
  <2>1. ppc[p] = "idle" /\ ppc'[p] \in {"idle", "evaluate"}
    BY <1>5 DEF Process, PGoto, PipelineTypeOK
  <2> QED
    BY <1>0, <1>3, <2>1
<1>6. CASE EvaluateRequest(p)
  <2>1. ppc[p] = "evaluate" /\ (NextRequest(p) \/ ppc'[p] = "ask_queued")
    BY <1>6 DEF EvaluateRequest, Reject, AskNext, PGoto, PipelineTypeOK
  <2> QED
    BY <1>0, <1>3, <1>4, <2>1
<1>7. CASE AskQueued(p)
  <2>1. CASE states[Request(p).expert] = "QUEUED"
    <3>1. ppc[p] = "ask_queued" /\ LockFree /\ NextRequest(p)
      BY <1>7, <2>1 DEF AskQueued, AskStatus, Asked, Reject
    <3> QED
      BY <1>4, <3>1
  <2>2. CASE states[Request(p).expert] # "QUEUED"
    <3>1. ppc'[p] = "ask_running" /\ LockFree /\ UNCHANGED todo
      BY <1>7, <2>2 DEF AskQueued, AskStatus, Asked, AskNext, PGoto, PipelineTypeOK
    <3> QED
      BY <1>1, <1>2, <2>2, <3>1 DEF AnswersHold, Request
  <2> QED
    BY <2>1, <2>2
<1>8. CASE AskRunning(p)
  <2>1. CASE states[Request(p).expert] = "RUNNING"
    <3>1. ppc[p] = "ask_running" /\ LockFree /\ NextRequest(p)
      BY <1>8, <2>1 DEF AskRunning, AskStatus, Asked, Reject
    <3> QED
      BY <1>4, <3>1
  <2>2. CASE states[Request(p).expert] # "RUNNING"
    <3>1. ppc'[p] = "ask_full" /\ LockFree /\ UNCHANGED todo
      BY <1>8, <2>2 DEF AskRunning, AskStatus, Asked, AskNext, PGoto, PipelineTypeOK
    <3>2. Request(p).expert \in Experts /\ states[Request(p).expert] # "QUEUED"
      BY <1>8, RequestType DEF AskRunning, LifeInv, AnswersHold
    <3>3. states[Request(p).expert] \in Settled
      BY <2>2, <3>2, EntriesTyped DEF Settled, Status
    <3>4. Absent(Request(p).expert)
      BY <2>2, <3>1, <3>2, EntriesTyped DEF Absent, LifeInv, StatusOfPlace, LockFree, UnderWay
    <3> QED
      BY <1>1, <1>2, <3>1, <3>3, <3>4 DEF AnswersHold, Request
  <2> QED
    BY <2>1, <2>2
<1>9. CASE AskFull(p)
  <2>0. LockFree
    BY <1>0, <1>9 DEF AskFull
  <2>1. CASE IsFull
    <3>1. ppc[p] = "ask_full" /\ NextRequest(p)
      BY <1>9, <2>1 DEF AskFull, Reject
    <3> QED
      BY <1>4, <2>0, <3>1
  <2>2. CASE ~IsFull
    <3>1. ppc'[p] = "submit" /\ UNCHANGED todo
      BY <1>9, <2>2 DEF AskFull, Admit, PGoto, PipelineTypeOK
    <3> QED
      BY <1>1, <1>2, <1>9, <2>0, <2>2, <3>1 DEF AskFull, LifeInv, AnswersHold, Request
  <2> QED
    BY <2>1, <2>2
<1>10. CASE SubmitRefused(p)
  <2>1. ppc[p] = "submit" /\ LockFree /\ NextRequest(p)
    BY <1>10 DEF SubmitRefused
  <2> QED
    BY <1>4, <2>1
<1>11. CASE SubmitAccepted(p)
  BY <1>11, EntriesTyped, NewEntryType DEF SubmitAccepted, SubmitPut, Put, LifeInv, vars, queueVars,
     IInv, Typing, TypeOK, QueueTypeOK
<1>12. CASE SubmitReturns(p)
  BY <1>12 DEF SubmitReturns, SubmitMark, vars, taskVars
<1> QED
  BY <1>1, <1>5, <1>6, <1>7, <1>8, <1>9, <1>10, <1>11, <1>12 DEF Call, LifeInv

(* submit(): the admitted task enters the heap, then has its status.       *)
LEMMA SubmitStep ==
    ASSUME NEW p \in Callers, PipelineTypeOK, IInv, LifeInv(p),
           SubmitAccepted(p) \/ SubmitReturns(p)
    PROVE  LifeInv(p)'
<1> USE DEF LifeInv
<1>1. CASE SubmitAccepted(p)
  <2> DEFINE n == NewEntry(TaskOf(Request(p)))
  <2>1. n \in Entry /\ n.expert = Request(p).expert
    BY <1>1, NewEntryType, RequestType DEF SubmitAccepted, SubmitPut, Put, IInv, Typing
  <2>2. /\ LockFree /\ heap' = heap \cup {n} /\ submitting' = n
        /\ UNCHANGED <<wpc, task, states>>
    BY <1>1 DEF SubmitAccepted, SubmitPut, Put, workerVars
  <2>3. Absent(n.expert) /\ states[n.expert] \in Settled
    BY <1>1, <2>1 DEF SubmitAccepted, AnswersHold
  <2>4. ppc'[p] = "submitting"
    BY <1>1 DEF SubmitAccepted, PGoto, PipelineTypeOK
  <2> HIDE DEF n
  <2>5. Single'
    BY <2>2, <2>3 DEF Single, Absent, UnderWay
  <2>6. StatusOfPlace'
    BY <2>2, EntriesTyped DEF StatusOfPlace, LockFree, UnderWay
  <2>7. AnswersHold(p)'
    BY <2>2, <2>3, <2>4 DEF AnswersHold
  <2> QED
    BY <2>5, <2>6, <2>7
<1>2. CASE SubmitReturns(p)
  <2> DEFINE e == submitting.expert
  <2>1. /\ submitting # NoEntry /\ states' = [states EXCEPT ![e] = "QUEUED"]
        /\ submitting' = NoEntry /\ UNCHANGED <<heap, wpc, task>>
    BY <1>2 DEF SubmitReturns, SubmitMark, queueVars, workerVars
  <2>2. e \in Experts
    BY <2>1 DEF IInv, Typing, TypeOK, Entry
  <2>3. \/ submitting \in heap
        \/ \E w \in Workers : wpc[w] = "got" /\ task[w] = submitting
    BY <2>1 DEF IInv, StatusInv, SubmitTracked
  <2>4. \A w \in Workers : wpc[w] \in Executing => task[w].expert # e
    BY <2>3 DEF Single, UnderWay, Executing
  <2>5. Single'
    BY <2>1 DEF Single, UnderWay
  <2>6. StatusOfPlace'
    <3>1. \A f \in Experts : states'[f] = IF f = e THEN "QUEUED" ELSE states[f]
      BY <2>1, <2>2, EntriesTyped
    <3>2. \A x \in heap : states'[x.expert] = "QUEUED"
      BY <3>1, EntriesTyped DEF StatusOfPlace
    <3>3. \A w \in Workers : wpc[w] = "got" => states'[task[w].expert] = "QUEUED"
      BY <3>1, EntriesTyped DEF StatusOfPlace, UnderWay
    <3>4. \A w \in Workers : wpc[w] \in Executing => states'[task[w].expert] = "RUNNING"
      BY <2>4, <3>1, EntriesTyped DEF StatusOfPlace, UnderWay
    <3> QED
      BY <2>1, <3>2, <3>3, <3>4 DEF StatusOfPlace
  <2>7. AnswersHold(p)'
    BY <1>2, <2>1, NextRequestType DEF SubmitReturns, AnswersHold, LockFree
  <2> QED
    BY <2>5, <2>6, <2>7
<1> QED
  BY <1>1, <1>2
-----------------------------------------------------------------------------
(* Steps of the engine beside a pipeline.  Those that neither change a     *)
(* status nor bring a task in preserve the invariant.                      *)
NoneBegins ==
    \A w \in Workers : UnderWay(w)' =>
        /\ UnderWay(w) /\ task'[w] = task[w]
        /\ wpc'[w] = wpc[w] \/ (wpc'[w] \in Executing /\ wpc[w] \in Executing)

(* In steps that change the status of e to s no other task is touched.     *)
OthersStay(e, s) ==
    \A w \in Workers : UnderWay(w)' =>
        /\ UnderWay(w) /\ task'[w] = task[w]
        /\ IF task[w].expert = e THEN s = "RUNNING" /\ wpc'[w] \in Executing
                                 ELSE wpc'[w] = wpc[w]

LEMMA WithdrawStep ==
    ASSUME NEW p \in Callers, IInv, LifeInv(p), UNCHANGED <<callerVars, submitting, states>>,
           heap' \subseteq heap, IsFiniteSet(heap'),
           NoneBegins
    PROVE  LifeInv(p)'
<1> USE DEF LifeInv, NoneBegins
<1>1. Single'
  BY DEF Single
<1>2. StatusOfPlace'
  BY DEF StatusOfPlace, UnderWay, Executing
<1>3. \A e : Absent(e) => Absent(e)'
  BY DEF Absent
<1>4. ~IsFull => ~IsFull'
  <2>1. IsFiniteSet(heap)
    BY DEF IInv, Typing, TypeOK, QueueTypeOK
  <2>2. Cardinality(heap') <= Cardinality(heap)
    BY <2>1, FS_Subset
  <2>3. Cardinality(heap') \in Nat /\ Cardinality(heap) \in Nat
    BY <2>1, FS_CardinalityType
  <2> QED
    BY <2>2, <2>3, QueueAssumption DEF IsFull
<1>5. AnswersHold(p)'
  BY <1>3, <1>4 DEF AnswersHold, LockFree, Request, callerVars
<1> QED
  BY <1>1, <1>2, <1>5

(* A status changes under _lock, for the one task of its expert.           *)
LEMMA StatusChange ==
    ASSUME NEW p \in Callers, PipelineTypeOK, IInv, LifeInv(p), UNCHANGED callerVars,
           NEW e \in Experts, NEW s \in FinalStatus \cup {"RUNNING"},
           LockFree, UNCHANGED submitting, states' = [states EXCEPT ![e] = s],
           heap' \subseteq heap, IsFiniteSet(heap'),
           \A x \in heap' : x.expert # e,
           OthersStay(e, s), s = "RUNNING" => ~Absent(e)
    PROVE  LifeInv(p)'
<1> USE DEF LifeInv, OthersStay
<1>1. \A f \in Experts : states'[f] = IF f = e THEN s ELSE states[f]
  BY EntriesTyped
<1>2. Single'
  BY DEF Single
<1>3. StatusOfPlace'
  <2>1. \A x \in heap' : states'[x.expert] = "QUEUED"
    BY <1>1, EntriesTyped DEF StatusOfPlace, LockFree
  <2>2. ASSUME NEW w \in Workers, UnderWay(w)'
        PROVE  /\ wpc'[w] = "got" => states'[task'[w].expert] = "QUEUED"
               /\ wpc'[w] \in Executing => states'[task'[w].expert] = "RUNNING"
    <3>1. task'[w] = task[w] /\ task[w].expert \in Experts /\ task[w] # NoEntry /\ UnderWay(w)
      BY <2>2, EntriesTyped
    <3>2. CASE task[w].expert = e
      BY <1>1, <2>2, <3>1, <3>2 DEF Executing
    <3>3. CASE task[w].expert # e
      BY <1>1, <2>2, <3>1, <3>3 DEF StatusOfPlace, LockFree
    <3> QED
      BY <3>2, <3>3
  <2> QED
    BY <2>1, <2>2 DEF StatusOfPlace, UnderWay
<1>4. \A f : Absent(f) => Absent(f)'
  BY DEF Absent
<1>5. ~IsFull => ~IsFull'
  <2>1. IsFiniteSet(heap)
    BY DEF IInv, Typing, TypeOK, QueueTypeOK
  <2>2. Cardinality(heap') <= Cardinality(heap)
    BY <2>1, FS_Subset
  <2>3. Cardinality(heap') \in Nat /\ Cardinality(heap) \in Nat
    BY <2>1, FS_CardinalityType
  <2> QED
    BY <2>2, <2>3, QueueAssumption DEF IsFull
<1>6. AnswersHold(p)'
  <2>1. Request(p)' = Request(p) /\ ppc' = ppc /\ LockFree'
    BY DEF Request, callerVars, LockFree
  <2>2. ppc[p] = "ask_running" => states'[Request(p).expert] # "QUEUED"
    BY <1>1, RequestType DEF AnswersHold, FinalStatus
  <2>3. ppc[p] \in {"ask_full", "submit"} => states'[Request(p).expert] \in Settled
    BY <1>1, RequestType DEF AnswersHold, Settled
  <2> QED
    BY <1>4, <1>5, <2>1, <2>2, <2>3 DEF AnswersHold
<1> QED
  BY <1>2, <1>3, <1>6

LEMMA WorkStep ==
    ASSUME NEW p \in Callers, PipelineTypeOK, IInv, LifeInv(p), UNCHANGED callerVars,
           NEW w \in Workers, Work(w)
    PROVE  LifeInv(p)'
<1> USE DEF Goto
<1>0. IsFiniteSet(heap) /\ wpc \in [Workers -> Dead \cup Idle \cup Holding]
      /\ task \in [Workers -> Entry \cup {NoEntry}]
  BY DEF IInv, Typing, TypeOK, QueueTypeOK
<1>1. CASE TakeTask(w)
  <2>1. PICK x \in heap : heap' = heap \ {x} /\ task' = [task EXCEPT ![w] = x]
    BY <1>1 DEF TakeTask, Pop
  <2>2. wpc' = [wpc EXCEPT ![w] = "got"] /\ wpc[w] \in {"get", "wait"}
        /\ UNCHANGED <<states, submitting>>
    BY <1>1 DEF TakeTask, taskVars
  <2>3. Single'
    BY <1>0, <2>1, <2>2, EntriesTyped DEF LifeInv, Single, UnderWay, Executing
  <2>4. StatusOfPlace'
    BY <1>0, <2>1, <2>2 DEF LifeInv, StatusOfPlace, Executing
  <2>5. \A e : Absent(e) => Absent(e)'
    BY <1>0, <2>1, <2>2 DEF Absent, UnderWay, Executing
  <2>6. ~IsFull => ~IsFull'
    <3>1. Cardinality(heap') = Cardinality(heap) - 1 /\ Cardinality(heap) \in Nat
      BY <1>0, <2>1, FS_RemoveElement, FS_CardinalityType
    <3> QED
      BY <3>1, QueueAssumption DEF IsFull
  <2>7. AnswersHold(p)'
    BY <2>2, <2>5, <2>6 DEF LifeInv, AnswersHold, LockFree, Request, callerVars
  <2> QED
    BY <2>3, <2>4, <2>7 DEF LifeInv
<1>2. CASE WaitForTask(w) \/ WaitEnds(w) \/ ReadStopEvent(w) \/ ReadUnfinished(w)
  <2>1. UNCHANGED <<heap, task, states, submitting>>
    BY <1>2 DEF WaitForTask, WaitEnds, ReadStopEvent, ReadUnfinished, StartWait, GiveUp, queueVars,
       taskVars
  <2>2. PICK next \in {"wait", "none", "drain", "get", "exited"} : wpc' = [wpc EXCEPT ![w] = next]
    BY <1>2 DEF WaitForTask, WaitEnds, ReadStopEvent, ReadUnfinished
  <2>3. NoneBegins
    BY <1>0, <2>1, <2>2 DEF NoneBegins, UnderWay, Executing
  <2> QED
    BY <1>0, <2>1, <2>3, WithdrawStep
<1>3. CASE MarkRunning(w)
  <2> DEFINE e == task[w].expert
  <2>1. /\ LockFree /\ wpc[w] = "got" /\ wpc' = [wpc EXCEPT ![w] = "execute"]
        /\ states' = [states EXCEPT ![e] = "RUNNING"] /\ UNCHANGED <<heap, task, submitting>>
    BY <1>3 DEF MarkRunning, queueVars
  <2>2. /\ e \in Experts /\ ~Absent(e) /\ \A x \in heap : x.expert # e
        /\ \A v \in Workers : UnderWay(v) /\ task[v].expert = e => v = w
    BY <2>1, EntriesTyped DEF Absent, LifeInv, Single, UnderWay
  <2>3. OthersStay(e, "RUNNING")
    BY <1>0, <2>1, <2>2 DEF OthersStay, UnderWay, Executing
  <2> QED
    BY <1>0, <2>1, <2>2, <2>3, StatusChange
<1>4. CASE Execute(w) \/ ExecuteEscapes(w) \/ AppendResult(w)
  <2>1. UNCHANGED <<heap, task, states, submitting>> /\ wpc[w] \in {"execute", "append"}
    BY <1>4 DEF Execute, ExecuteEscapes, AppendResult, queueVars, taskVars
  <2>2. PICK next \in {"append", "unwind", "finish"} : wpc' = [wpc EXCEPT ![w] = next]
    BY <1>4 DEF Execute, ExecuteEscapes, AppendResult
  <2>3. NoneBegins
    BY <1>0, <2>1, <2>2 DEF NoneBegins, UnderWay, Executing
  <2> QED
    BY <1>0, <2>1, <2>3, WithdrawStep
<1>5. CASE MarkFinal(w)
  <2> DEFINE e == task[w].expert
  <2>1. /\ LockFree /\ wpc[w] = "finish" /\ wpc' = [wpc EXCEPT ![w] = "done"]
        /\ states' = [states EXCEPT ![e] = result[w]] /\ UNCHANGED <<heap, task, submitting>>
    BY <1>5 DEF MarkFinal, queueVars
  <2>2. result[w] \in FinalStatus
    BY <2>1 DEF IInv, Typing, TaskInHand
  <2>3. /\ e \in Experts /\ \A x \in heap : x.expert # e
        /\ \A v \in Workers : UnderWay(v) /\ task[v].expert = e => v = w
    BY <2>1, EntriesTyped DEF LifeInv, Single, UnderWay, Executing
  <2>4. OthersStay(e, result[w])
    BY <1>0, <2>1, <2>3 DEF OthersStay, UnderWay, Executing
  <2>5. result[w] # "RUNNING"
    BY <2>2 DEF FinalStatus
  <2> QED
    BY <1>0, <2>1, <2>2, <2>3, <2>4, <2>5, StatusChange
<1>6. CASE FinishTask(w)
  <2>1. UNCHANGED <<heap, states, submitting>> /\ wpc[w] \in {"done", "unwind"}
        /\ task' = [task EXCEPT ![w] = NoEntry]
    BY <1>6 DEF FinishTask, TaskDone, queueVars, taskVars
  <2>2. PICK next \in {"get", "crashed"} : wpc' = [wpc EXCEPT ![w] = next]
    BY <1>6 DEF FinishTask
  <2>3. NoneBegins
    BY <1>0, <2>1, <2>2 DEF NoneBegins, UnderWay, Executing
  <2> QED
    BY <1>0, <2>1, <2>3, WithdrawStep
<1> QED
  BY <1>1, <1>2, <1>3, <1>4, <1>5, <1>6 DEF Work

LEMMA ControlStep ==
    ASSUME NEW p \in Callers, IInv, LifeInv(p), UNCHANGED callerVars,
           NEW c \in Controllers, Control(c)
    PROVE  LifeInv(p)'
<1>0. IsFiniteSet(heap) /\ wpc \in [Workers -> Dead \cup Idle \cup Holding]
  BY DEF IInv, Typing, TypeOK, QueueTypeOK
<1>1. UNCHANGED <<heap, task, states, submitting>>
  BY DEF Control, Start, StopAndWait, StopWithoutWait, StopRequest, StopStep, StopJoinsQueue,
     StopNotifies, StopJoinsWorkers, StopFinishes, StopGoto, JoinReturns, JoinWaits, NotifyAll,
     queueVars, workerVars, taskVars
<1>2. CASE Start(c)
  <2>1. PICK W \in SUBSET Unused : wpc' = [w \in Workers |-> IF w \in W THEN "get" ELSE wpc[w]]
    BY <1>2 DEF Start
  <2> QED
    BY <1>0, <1>1, <2>1, WithdrawStep DEF NoneBegins, UnderWay, Executing
<1>3. CASE ~Start(c)
  <2>1. wpc' = wpc
    BY <1>3 DEF Control, StopAndWait, StopWithoutWait, StopRequest, StopStep, StopJoinsQueue,
       StopNotifies, StopJoinsWorkers, StopFinishes, StopGoto, workerVars
  <2> QED
    BY <1>0, <1>1, <2>1, WithdrawStep DEF NoneBegins, UnderWay
<1> QED
  BY <1>2, <1>3

LEMMA CancelStep ==
    ASSUME NEW p \in Callers, PipelineTypeOK, IInv, LifeInv(p), UNCHANGED callerVars,
           NEW e \in Experts, Cancel(e)
    PROVE  LifeInv(p)'
<1>1. PICK x \in heap : x.expert = e /\ heap' = heap \ {x}
  BY DEF Cancel, CancelEntry, EntriesOf
<1>2. LockFree /\ states' = [states EXCEPT ![e] = "CANCELLED"]
      /\ UNCHANGED <<wpc, task, submitting>>
  BY DEF Cancel, workerVars
<1>3. IsFiniteSet(heap')
  BY <1>1, FS_RemoveElement DEF IInv, Typing, TypeOK, QueueTypeOK
<1>4. /\ \A y \in heap' : y.expert # e
      /\ \A w \in Workers : UnderWay(w) => task[w].expert # e
  BY <1>1, EntriesTyped DEF LifeInv, Single
<1>5. OthersStay(e, "CANCELLED")
  BY <1>2, <1>4 DEF OthersStay, UnderWay
<1>6. heap' \subseteq heap /\ "CANCELLED" \in FinalStatus
  BY <1>1 DEF FinalStatus
<1> QED
  BY <1>2, <1>3, <1>4, <1>5, <1>6, StatusChange

(* Every step of a system with one pipeline preserves the invariant.       *)
LEMMA LifeStep ==
    ASSUME NEW p \in Callers, Callers = {p}, PipelineTypeOK, IInv, LifeInv(p),
           [PipelineNext]_pipelineVars
    PROVE  LifeInv(p)'
<1>1. CASE UNCHANGED pipelineVars
  <2>1. IsFiniteSet(heap)
    BY DEF IInv, Typing, TypeOK, QueueTypeOK
  <2>2. UNCHANGED <<callerVars, submitting, states, heap, task, wpc>>
    BY <1>1 DEF pipelineVars, vars, queueVars, taskVars, workerVars
  <2>3. NoneBegins
    BY <2>2 DEF NoneBegins, UnderWay
  <2> QED
    BY <2>1, <2>2, <2>3, WithdrawStep
<1>2. CASE Call(p)
  <2>1. CASE SubmitAccepted(p) \/ SubmitReturns(p)
    BY <2>1, SubmitStep
  <2>2. CASE ~(SubmitAccepted(p) \/ SubmitReturns(p))
    <3>1. UNCHANGED vars
      BY <1>2, <2>2 DEF Call, Process, EvaluateRequest, AskQueued, AskRunning, AskFull,
         AskStatus, AskNext, Admit, Reject, SubmitRefused
    <3> QED
      BY <1>2, <3>1, AnswerStep
  <2> QED
    BY <2>1, <2>2
<1>3. CASE UNCHANGED callerVars /\ \E c \in Controllers : Control(c)
  BY <1>3, ControlStep
<1>4. CASE UNCHANGED callerVars /\ \E w \in Workers : Work(w)
  BY <1>4, WorkStep
<1>5. CASE UNCHANGED callerVars /\ \E e \in Experts : Cancel(e)
  BY <1>5, CancelStep
<1> QED
  BY <1>1, <1>2, <1>3, <1>4, <1>5 DEF PipelineNext
-----------------------------------------------------------------------------
THEOREM PipelineInvariance ==
    ASSUME NEW p, Callers = {p}
    PROVE  PipelineSpec => []LifeInv(p)
<1>1. PipelineInit => LifeInv(p)
  BY DEF PipelineInit, Init, QueueInit, LifeInv, Single, StatusOfPlace, AnswersHold, UnderWay,
     Executing, LockFree
<1>2. PipelineTypeOK /\ IInv /\ LifeInv(p) /\ [PipelineNext]_pipelineVars => LifeInv(p)'
  BY LifeStep
<1> QED
  BY <1>1, <1>2, PipelineRunsEngine, PTL DEF PipelineSpec

(* One pipeline never has two tasks of an expert under way, although the   *)
(* admission asks about QUEUED and RUNNING one after the other             *)
(* (admission.py:76-86).                                                   *)
THEOREM PipelineDoesNotDuplicate ==
    ASSUME NEW p, Callers = {p}
    PROVE  PipelineSpec => []NoDuplicateWork
<1>1. ASSUME IInv, LifeInv(p), NEW e \in Experts
      PROVE  Cardinality(InFlight(e)) <= 1
  <2>1. \A x, y \in InFlight(e) : x = y
    BY <1>1, EntriesTyped DEF InFlight, EntriesOf, LifeInv, Single, UnderWay
  <2>2. CASE InFlight(e) = {}
    BY <2>2, FS_EmptySet
  <2>3. ASSUME NEW x \in InFlight(e)
        PROVE  Cardinality(InFlight(e)) <= 1
    <3>1. InFlight(e) = {x}
      BY <2>1
    <3> QED
      BY <3>1, FS_Singleton
  <2> QED
    BY <2>2, <2>3
<1>2. IInv /\ LifeInv(p) => NoDuplicateWork
  BY <1>1 DEF NoDuplicateWork
<1> QED
  BY <1>2, PipelineInvariance, PipelineRunsEngine, PTL

(* What one pipeline admits the queue can take: it is refused only when    *)
(* the engine stops (admission.py:88-97, pipeline.py:143-147).             *)
THEOREM AdmittedCanBePut ==
    ASSUME NEW p, Callers = {p}
    PROVE  PipelineSpec => []AdmittedIsAccepted
<1>1. ASSUME PipelineTypeOK, IInv, LifeInv(p), ppc[p] = "submit"
      PROVE  CanPut(TaskOf(Request(p)))
  <2>1. ~IsFull /\ Absent(Request(p).expert)
    BY <1>1 DEF LifeInv, AnswersHold
  <2>2. Request(p).expert \notin pending
    BY <1>1, <2>1 DEF IInv, PendingMatchesHeap, Absent
  <2> QED
    BY <1>1, <2>1, <2>2, RequestType DEF CanPut
<1>2. PipelineTypeOK /\ IInv /\ LifeInv(p) => AdmittedIsAccepted
  BY <1>1 DEF AdmittedIsAccepted
<1> QED
  BY <1>2, PipelineInvariance, PipelineRunsEngine, PTL

(* With one pipeline the statuses go through the life of a task in order,  *)
(* whatever the workers and cancel() do meanwhile (engine.py:172-290).     *)
THEOREM StatusesInOrder ==
    ASSUME NEW p, Callers = {p}
    PROVE  PipelineSpec => StatusFollowsLife
<1> DEFINE Follows(e) ==
        \/ states'[e] = states[e]
        \/ states[e] \in FinalStatus \cup {NoStatus} /\ states'[e] = "QUEUED"
        \/ states[e] = "QUEUED" /\ states'[e] \in {"RUNNING", "CANCELLED"}
        \/ states[e] = "RUNNING" /\ states'[e] \in FinalStatus
<1>1. ASSUME IInv, NEW e \in Experts, NEW f \in Experts, NEW s,
             states' = [states EXCEPT ![f] = s], ~Follows(e)
      PROVE  e = f /\ states'[e] = s
  BY <1>1, EntriesTyped
<1>2. ASSUME PipelineTypeOK, IInv, LifeInv(p), PipelineNext, NEW e \in Experts
      PROVE  Follows(e)
  <2>1. CASE SubmitReturns(p)
    <3>1. /\ submitting # NoEntry /\ ppc[p] = "submitting" /\ submitting.expert \in Experts
          /\ states' = [states EXCEPT ![submitting.expert] = "QUEUED"]
      BY <1>2, <2>1 DEF SubmitReturns, SubmitMark, IInv, Typing, TypeOK, Entry
    <3>2. states[submitting.expert] \in FinalStatus \cup {NoStatus}
      BY <1>2, <3>1 DEF LifeInv, AnswersHold, LockFree, Settled
    <3> QED
      BY <1>1, <1>2, <3>1, <3>2
  <2>2. ASSUME Call(p), ~SubmitReturns(p)
        PROVE  states' = states
    BY <2>2 DEF Call, Process, EvaluateRequest, AskQueued, AskRunning, AskFull,
       AskStatus, AskNext, Admit, Reject, SubmitRefused, SubmitAccepted, SubmitPut, vars, taskVars
  <2>3. ASSUME NEW c \in Controllers, Control(c)
        PROVE  states' = states
    BY <2>3 DEF Control, Start, StopAndWait, StopWithoutWait, StopRequest, StopStep, StopJoinsQueue,
       StopNotifies, StopJoinsWorkers, StopFinishes, StopGoto, taskVars
  <2>4. ASSUME NEW f \in Experts, Cancel(f)
        PROVE  Follows(e)
    BY <1>1, <1>2, <2>4 DEF Cancel
  <2>5. ASSUME NEW w \in Workers, MarkRunning(w)
        PROVE  Follows(e)
    <3>1. UnderWay(w) /\ task[w].expert \in Experts /\ states[task[w].expert] = "QUEUED"
      BY <1>2, <2>5, EntriesTyped DEF MarkRunning, LockFree, LifeInv, StatusOfPlace, UnderWay
    <3> QED
      BY <1>1, <1>2, <2>5, <3>1 DEF MarkRunning
  <2>6. ASSUME NEW w \in Workers, MarkFinal(w)
        PROVE  Follows(e)
    <3>1. task[w].expert \in Experts /\ states[task[w].expert] = "RUNNING"
      BY <1>2, <2>6, EntriesTyped DEF MarkFinal, LifeInv, StatusOfPlace, UnderWay, Executing
    <3>2. result[w] \in FinalStatus
      BY <1>2, <2>6 DEF MarkFinal, IInv, Typing, TaskInHand
    <3> QED
      BY <1>1, <1>2, <2>6, <3>1, <3>2 DEF MarkFinal
  <2>7. ASSUME NEW w \in Workers, Work(w), ~MarkRunning(w), ~MarkFinal(w)
        PROVE  states' = states
    BY <2>7 DEF Work, TakeTask, WaitForTask, WaitEnds, ReadStopEvent, ReadUnfinished, Execute,
       ExecuteEscapes, AppendResult, FinishTask, taskVars
  <2> QED
    BY <1>2, <2>1, <2>2, <2>3, <2>4, <2>5, <2>6, <2>7 DEF PipelineNext
<1>3. PipelineTypeOK /\ IInv /\ LifeInv(p) /\ [PipelineNext]_pipelineVars =>
          [\A e \in Experts : Follows(e)]_pipelineVars
  BY <1>2
<1> QED
  BY <1>3, PipelineInvariance, PipelineRunsEngine, PTL DEF PipelineSpec, StatusFollowsLife
=============================================================================
