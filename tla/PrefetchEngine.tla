--------------------------- MODULE PrefetchEngine ----------------------------
(***************************************************************************)
(* The background prefetch engine of predictive_cache/prefetch/engine.py:  *)
(* worker threads that take tasks from the PrefetchQueue, clients that     *)
(* submit and cancel, and controller threads that start and stop it.       *)
(*                                                                         *)
(* Atomicity.  _lock guards the task states, the results and the           *)
(* lifecycle.  A critical section of _lock that holds at most one call of  *)
(* the queue is one step, with one exception: submit() is two, the put and *)
(* the status, because a worker may take the task in between and what      *)
(* happens then is the subject of a comment (engine.py:172-181).  Every    *)
(* call of the queue and every read outside _lock is a step of its own.    *)
(*                                                                         *)
(* A call that returns early because its condition is false changes        *)
(* nothing and is not written down: submit() while stopped or stopping,    *)
(* start() while running, stop() while not running, cancel() of a task     *)
(* that is not queued.                                                     *)
(***************************************************************************)
EXTENDS PrefetchQueue

CONSTANTS Workers,            (* thread identities                          *)
          NumWorkers,         (* num_workers                                *)
          Controllers,        (* the threads that call start() and stop()   *)
          MayStopWithoutWait, (* whether they call stop(wait=False)         *)
          HandlersMayEscape,  (* whether an exception can leave _execute()  *)
          NoEntry             (* no task                                    *)

ASSUME EngineAssumption ==
       /\ IsFiniteSet(Workers)
       /\ NumWorkers \in 1 .. Cardinality(Workers)
       /\ Workers \cap Controllers = {}
       /\ MayStopWithoutWait \in BOOLEAN
       /\ HandlersMayEscape \in BOOLEAN
       /\ NoEntry \notin Entry

VARIABLES stopEvent,   (* _stop_event                                       *)
          running,     (* _running                                          *)
          workers,     (* _workers: the threads of the current list         *)
          submitting,  (* the entry whose submit() holds _lock between      *)
                       (* queue.put() and the status; NoEntry: _lock free   *)
          states,      (* _task_states                                      *)
          results,     (* _results, with the task each one is of            *)
          wpc,         (* where each worker is in _worker_loop()            *)
          task,        (* the local "task" of each worker                   *)
          result,      (* the status in the local "result" of each worker   *)
          cpc,         (* where each controller is in stop()                *)
          joining,     (* the local "workers" of each stop()                *)
          outcome      (* history: what became of each accepted task        *)

lifecycleVars == <<stopEvent, running, workers, cpc, joining>>
taskVars == <<submitting, states, results, outcome>>
workerVars == <<wpc, task, result>>
vars == <<queueVars, lifecycleVars, taskVars, workerVars>>

FinalStatus == {"COMPLETED", "CANCELLED", "FAILED"}
Status == FinalStatus \cup {"QUEUED", "RUNNING"}
NoStatus == "none"

LockFree == submitting = NoEntry

(* Where a worker can be.  "exited" is also a thread not yet created.      *)
Dead == {"exited", "crashed"}
Idle == {"get", "wait", "none", "drain"}
Executing == {"execute", "append", "finish"}
Holding == {"got", "done", "unwind"} \cup Executing

Alive == {w \in Workers : wpc[w] \notin Dead}
Holders == {w \in Workers : wpc[w] \in Holding}

Init ==
    /\ QueueInit
    /\ stopEvent = FALSE
    /\ running = FALSE
    /\ workers = {}
    /\ submitting = NoEntry
    /\ states = [e \in Experts |-> NoStatus]
    /\ results = {}
    /\ wpc = [w \in Workers |-> "exited"]
    /\ task = [w \in Workers |-> NoEntry]
    /\ result = [w \in Workers |-> NoStatus]
    /\ cpc = [c \in Controllers |-> "idle"]
    /\ joining = [c \in Controllers |-> {}]
    /\ outcome = [i \in Instances |-> "future"]
-----------------------------------------------------------------------------
(* Lifecycle.                                                              *)

(* Identities for new threads: a thread that a stop() is still to join     *)
(* keeps its own.                                                          *)
Unused == {w \in Workers : wpc[w] \in Dead /\ \A c \in Controllers : w \notin joining[c]}

(* Mutant: start() does not look whether the engine runs.                  *)
StartAgain(c) ==
    /\ cpc[c] = "idle"
    /\ LockFree
    /\ stopEvent' = FALSE
    /\ \E W \in SUBSET Unused :
          /\ Cardinality(W) = NumWorkers
          /\ workers' = W
          /\ wpc' = [w \in Workers |-> IF w \in W THEN "get" ELSE wpc[w]]
    /\ running' = TRUE
    /\ UNCHANGED <<queueVars, taskVars, task, result, cpc, joining>>

Start(c) ==
    /\ cpc[c] = "idle"
    /\ LockFree
    /\ ~running
    /\ stopEvent' = FALSE
    /\ \E W \in SUBSET Unused :
          /\ Cardinality(W) = NumWorkers
          /\ workers' = W
          /\ wpc' = [w \in Workers |-> IF w \in W THEN "get" ELSE wpc[w]]
    /\ running' = TRUE
    /\ UNCHANGED <<queueVars, taskVars, task, result, cpc, joining>>

StopRequest(c, next) ==
    /\ cpc[c] = "idle"
    /\ LockFree
    /\ running
    /\ stopEvent' = TRUE
    /\ cpc' = [cpc EXCEPT ![c] = next]
    /\ UNCHANGED <<queueVars, taskVars, workerVars, running, workers>>

StopAndWait(c) ==
    /\ StopRequest(c, "join")
    /\ joining' = [joining EXCEPT ![c] = workers]

StopWithoutWait(c) ==
    /\ MayStopWithoutWait
    /\ StopRequest(c, "notifyOnly")
    /\ UNCHANGED joining

StopGoto(c, next) ==
    /\ cpc' = [cpc EXCEPT ![c] = next]
    /\ UNCHANGED <<taskVars, workerVars, stopEvent>>

(* self._queue.join()                                                      *)
StopJoinsQueue(c) ==
    /\ cpc[c] = "join"
    /\ \/ JoinReturns(c) /\ StopGoto(c, "notify")
       \/ JoinWaits(c) /\ StopGoto(c, "join")
    /\ UNCHANGED <<running, workers, joining>>

StopNotifies(c) ==
    /\ NotifyAll
    /\ \/ cpc[c] = "notify" /\ StopGoto(c, "reap")
       \/ cpc[c] = "notifyOnly" /\ StopGoto(c, "idle")
    /\ UNCHANGED <<running, workers, joining>>

(* for worker in workers: worker.join()                                    *)
StopJoinsWorkers(c) ==
    /\ cpc[c] = "reap"
    /\ joining[c] \cap Alive = {}
    /\ StopGoto(c, "finalize")
    /\ UNCHANGED <<queueVars, running, workers, joining>>

StopFinishes(c) ==
    /\ cpc[c] = "finalize"
    /\ LockFree
    /\ workers' = {}
    /\ running' = FALSE
    /\ joining' = [joining EXCEPT ![c] = {}]
    /\ StopGoto(c, "idle")
    /\ UNCHANGED queueVars
-----------------------------------------------------------------------------
(* Clients.                                                                *)

(* Mutant: submit() does not look at _stop_event.                          *)
AcceptingWhileStopping == running

Accepting == running /\ ~stopEvent

SubmitPut(t) ==
    /\ LockFree
    /\ Accepting
    /\ Put(t)
    /\ submitting' = NewEntry(t)
    /\ outcome' = [outcome EXCEPT ![sequence] = "accepted"]
    /\ UNCHANGED <<lifecycleVars, workerVars, states, results>>

(* Mutant: _lock is not released.                                          *)
SubmitMarkKeepsLock ==
    /\ submitting # NoEntry
    /\ states' = [states EXCEPT ![submitting.expert] = "QUEUED"]
    /\ UNCHANGED <<queueVars, lifecycleVars, workerVars, submitting, results, outcome>>

SubmitMark ==
    /\ submitting # NoEntry
    /\ states' = [states EXCEPT ![submitting.expert] = "QUEUED"]
    /\ submitting' = NoEntry
    /\ UNCHANGED <<queueVars, lifecycleVars, workerVars, results, outcome>>

(* Mutant: the status of a cancelled task is left as it was.               *)
CancelKeepsStatus(e) ==
    /\ LockFree
    /\ states[e] = "QUEUED"
    /\ \E x \in EntriesOf(e) :
          /\ CancelEntry(x)
          /\ outcome' = [outcome EXCEPT ![x.seq] = "withdrawn"]
    /\ UNCHANGED <<lifecycleVars, workerVars, submitting, states, results>>

Cancel(e) ==
    /\ LockFree
    /\ states[e] = "QUEUED"
    /\ \E x \in EntriesOf(e) :
          /\ CancelEntry(x)
          /\ outcome' = [outcome EXCEPT ![x.seq] = "withdrawn"]
    /\ states' = [states EXCEPT ![e] = "CANCELLED"]
    /\ UNCHANGED <<lifecycleVars, workerVars, submitting, results>>

ClearTaskStates ==
    /\ LockFree
    /\ states' = [e \in Experts |-> NoStatus]
    /\ UNCHANGED <<queueVars, lifecycleVars, workerVars, submitting, results, outcome>>

ClearResults ==
    /\ LockFree
    /\ results' = {}
    /\ UNCHANGED <<queueVars, lifecycleVars, workerVars, submitting, states, outcome>>
-----------------------------------------------------------------------------
(* Workers.                                                                *)

Goto(w, next) == wpc' = [wpc EXCEPT ![w] = next]

(* get(timeout=0.2): a task at once ...                                    *)
TakeTask(w) ==
    /\ wpc[w] \in {"get", "wait"}
    /\ \E x \in heap :
          /\ Pop(x, w)
          /\ task' = [task EXCEPT ![w] = x]
    /\ Goto(w, "got")
    /\ UNCHANGED <<lifecycleVars, taskVars, result>>

(* ... or a wait, which a notification or the timeout ends at any time,    *)
(* with a task (TakeTask) or without.                                      *)
WaitForTask(w) ==
    /\ wpc[w] = "get"
    /\ StartWait(w)
    /\ Goto(w, "wait")
    /\ UNCHANGED <<lifecycleVars, taskVars, task, result>>

WaitEnds(w) ==
    /\ wpc[w] = "wait"
    /\ GiveUp(w)
    /\ Goto(w, "none")
    /\ UNCHANGED <<lifecycleVars, taskVars, task, result>>

(* The exit test reads the event and the count one after the other.        *)
ReadStopEvent(w) ==
    /\ wpc[w] = "none"
    /\ Goto(w, IF stopEvent THEN "drain" ELSE "get")
    /\ UNCHANGED <<queueVars, lifecycleVars, taskVars, task, result>>

(* Mutant: the worker leaves although tasks are unfinished.                *)
LeaveUnfinished(w) ==
    /\ wpc[w] = "drain"
    /\ Goto(w, "exited")
    /\ UNCHANGED <<queueVars, lifecycleVars, taskVars, task, result>>

ReadUnfinished(w) ==
    /\ wpc[w] = "drain"
    /\ Goto(w, IF unfinished = 0 THEN "exited" ELSE "get")
    /\ UNCHANGED <<queueVars, lifecycleVars, taskVars, task, result>>

(* Mutant: the status is set without _lock.                                *)
MarkRunningUnlocked(w) ==
    /\ wpc[w] = "got"
    /\ states' = [states EXCEPT ![task[w].expert] = "RUNNING"]
    /\ Goto(w, "execute")
    /\ UNCHANGED <<queueVars, lifecycleVars, submitting, results, outcome, task, result>>

MarkRunning(w) ==
    /\ wpc[w] = "got"
    /\ LockFree
    /\ states' = [states EXCEPT ![task[w].expert] = "RUNNING"]
    /\ Goto(w, "execute")
    /\ UNCHANGED <<queueVars, lifecycleVars, submitting, results, outcome, task, result>>

(* Mutant: _execute() returns nothing.                                     *)
ExecuteReturnsNone(w) ==
    /\ wpc[w] = "execute"
    /\ Goto(w, "append")
    /\ UNCHANGED <<queueVars, lifecycleVars, taskVars, task, result>>

(* _execute(): the handler returns, raises PrefetchCancelled, or raises    *)
(* another Exception.                                                      *)
Execute(w) ==
    /\ wpc[w] = "execute"
    /\ \E s \in FinalStatus : result' = [result EXCEPT ![w] = s]
    /\ Goto(w, "append")
    /\ UNCHANGED <<queueVars, lifecycleVars, taskVars, task>>

(* An exception that _execute() does not catch.                            *)
ExecuteEscapes(w) ==
    /\ HandlersMayEscape
    /\ wpc[w] = "execute"
    /\ outcome' = [outcome EXCEPT ![task[w].seq] = "lost"]
    /\ Goto(w, "unwind")
    /\ UNCHANGED <<queueVars, lifecycleVars, submitting, states, results, task, result>>

AppendResult(w) ==
    /\ wpc[w] = "append"
    /\ LockFree
    /\ results' = results \cup {[of |-> task[w], status |-> result[w]]}
    /\ outcome' = [outcome EXCEPT ![task[w].seq] = result[w]]
    /\ Goto(w, "finish")
    /\ UNCHANGED <<queueVars, lifecycleVars, submitting, states, task, result>>

(* Mutant: the final status is not set.                                    *)
MarkFinalForgotten(w) ==
    /\ wpc[w] = "finish"
    /\ Goto(w, "done")
    /\ UNCHANGED <<queueVars, lifecycleVars, taskVars, task, result>>

MarkFinal(w) ==
    /\ wpc[w] = "finish"
    /\ LockFree
    /\ states' = [states EXCEPT ![task[w].expert] = result[w]]
    /\ Goto(w, "done")
    /\ UNCHANGED <<queueVars, lifecycleVars, submitting, results, outcome, task, result>>

(* task_done(), in the finally clause: the worker goes on, or dies of the  *)
(* exception that is on its way, be it _execute()'s or task_done()'s own.  *)
FinishTask(w) ==
    /\ wpc[w] \in {"done", "unwind"}
    /\ IF TaskDoneRaises THEN UNCHANGED queueVars ELSE TaskDone
    /\ Goto(w, IF wpc[w] = "unwind" \/ TaskDoneRaises THEN "crashed" ELSE "get")
    /\ task' = [task EXCEPT ![w] = NoEntry]
    /\ result' = [result EXCEPT ![w] = NoStatus]
    /\ UNCHANGED <<lifecycleVars, taskVars>>
-----------------------------------------------------------------------------
StopStep(c) ==
    \/ StopJoinsQueue(c)
    \/ StopNotifies(c)
    \/ StopJoinsWorkers(c)
    \/ StopFinishes(c)

Control(c) == Start(c) \/ StopAndWait(c) \/ StopWithoutWait(c) \/ StopStep(c)

Client ==
    \/ \E t \in Tasks : SubmitPut(t)
    \/ SubmitMark
    \/ \E e \in Experts : Cancel(e)
    \/ ClearTaskStates
    \/ ClearResults

Work(w) ==
    \/ TakeTask(w)
    \/ WaitForTask(w)
    \/ WaitEnds(w)
    \/ ReadStopEvent(w)
    \/ ReadUnfinished(w)
    \/ MarkRunning(w)
    \/ Execute(w)
    \/ ExecuteEscapes(w)
    \/ AppendResult(w)
    \/ MarkFinal(w)
    \/ FinishTask(w)

Next ==
    \/ \E c \in Controllers : Control(c)
    \/ Client
    \/ \E w \in Workers : Work(w)

Spec == Init /\ [][Next]_vars

(* A thread that can take a step takes one: workers (whose handlers        *)
(* return, and whose waits end after 0.2 s), a submit() that holds _lock   *)
(* and a stop() under way.  Nobody has to call anything.                   *)
Fairness ==
    /\ \A w \in Workers : WF_vars(Work(w))
    /\ \A c \in Controllers : WF_vars(StopStep(c))
    /\ WF_vars(SubmitMark)

FairSpec == Spec /\ Fairness
-----------------------------------------------------------------------------
TypeOK ==
    /\ QueueTypeOK
    /\ waiters \subseteq Workers \cup Controllers
    /\ stopEvent \in BOOLEAN
    /\ running \in BOOLEAN
    /\ workers \subseteq Workers
    /\ submitting \in Entry \cup {NoEntry}
    /\ states \in [Experts -> Status \cup {NoStatus}]
    /\ results \subseteq [of : Entry, status : FinalStatus]
    /\ wpc \in [Workers -> Dead \cup Idle \cup Holding]
    /\ task \in [Workers -> Entry \cup {NoEntry}]
    /\ result \in [Workers -> FinalStatus \cup {NoStatus}]
    /\ cpc \in [Controllers -> {"idle", "join", "notify", "notifyOnly", "reap", "finalize"}]
    /\ joining \in [Controllers -> SUBSET Workers]
    /\ outcome \in [Instances -> FinalStatus \cup {"future", "accepted", "withdrawn", "lost"}]

(* _unfinished_tasks is the number of tasks put and not yet done: those in *)
(* the heap and those a worker holds between get() and task_done(), as the *)
(* comment at queue.py:43-48 says.  join() and the exit test of the        *)
(* workers rest on it.                                                     *)
UnfinishedExact == unfinished = Cardinality(heap) + Cardinality(Holders)

(* A worker between get() and task_done() has a task in hand, and a status *)
(* once _execute() has returned.                                           *)
TaskInHand ==
    \A w \in Workers :
        /\ wpc[w] \in Holding => task[w] \in Entry
        /\ wpc[w] \in {"append", "finish"} => result[w] \in FinalStatus

(* While submit() holds _lock its task waits, or a worker has it and is    *)
(* held up before it can mark it RUNNING (engine.py:172-181).              *)
SubmitTracked ==
    submitting # NoEntry =>
        \/ submitting \in heap
        \/ \E w \in Workers : wpc[w] = "got" /\ task[w] = submitting

(* A task shown as QUEUED is in the queue, or a worker has taken it and is *)
(* about to show it as RUNNING: neither a late submit() nor a cancel()     *)
(* leaves the status QUEUED behind for a task that is over                 *)
(* (engine.py:172-184, 212-227).                                           *)
QueuedIsReal ==
    \A e \in Experts : states[e] = "QUEUED" =>
        \/ EntriesOf(e) # {}
        \/ \E w \in Workers : wpc[w] = "got" /\ task[w].expert = e

(* A task shown as RUNNING is being executed, as long as no exception      *)
(* escapes _execute(): admission refuses an expert that is shown RUNNING.  *)
RunningIsReal ==
    ~HandlersMayEscape =>
        \A e \in Experts : states[e] = "RUNNING" =>
            \E w \in Workers : wpc[w] \in Executing /\ task[w].expert = e

(* When nothing is unfinished no task is shown as QUEUED or RUNNING: what  *)
(* a caller of join() or stop() finds in task_states().                    *)
SettledWhenIdle ==
    unfinished = 0 /\ ~HandlersMayEscape =>
        \A e \in Experts : states[e] \notin {"QUEUED", "RUNNING"}

(* One controller: every live worker is on the list that stop() joins, and *)
(* from the return of queue.join() to the end of stop() nothing is         *)
(* unfinished, because submit() is refused since _stop_event was set.      *)
Past(c, points) == cpc[c] \in points

LifecycleInv ==
    /\ Alive \subseteq workers
    /\ workers # {} => Cardinality(workers) = NumWorkers
    /\ ~running => workers = {} /\ unfinished = 0
    /\ stopEvent => LockFree
    /\ \A c \in Controllers :
          /\ Past(c, {"join", "notify", "reap", "finalize"}) =>
                running /\ stopEvent /\ joining[c] = workers
          /\ Past(c, {"notify", "reap", "finalize"}) => unfinished = 0
          /\ Past(c, {"finalize"}) => Alive = {}
          /\ Past(c, {"idle", "notifyOnly"}) => joining[c] = {}

(* Queue Drain -> STOPPED (engine.py:22-34): once running is False every   *)
(* accepted task has had its outcome and no worker thread is left.         *)
DrainedWhenStopped ==
    ~running =>
        /\ heap = {}
        /\ Alive = {}
        /\ \A i \in Instances : outcome[i] # "accepted"

(* start() does nothing while the engine runs (engine.py:87): there are    *)
(* never more worker threads than num_workers.                             *)
AtMostNumWorkers == Cardinality(Alive) <= NumWorkers

(* An accepted task without an outcome is in one place: in the heap, or in *)
(* the hands of one worker that has not recorded its result.  No task is   *)
(* lost on the way from put() to the results and none is there twice.      *)
Unended == {w \in Workers : wpc[w] \in {"got", "execute", "append"}}

AcceptedInOnePlace ==
    /\ \A i \in Instances :
          /\ outcome[i] = "future" <=> i >= sequence
          /\ outcome[i] = "accepted" <=>
                \/ \E x \in heap : x.seq = i
                \/ \E w \in Unended : task[w].seq = i
    /\ \A w \in Unended :
          /\ \A x \in heap : x.seq # task[w].seq
          /\ \A v \in Unended : v # w => task[v].seq # task[w].seq

(* A task has one outcome: it is executed once or withdrawn once, never    *)
(* both, never twice.                                                      *)
OutcomeIsFinal ==
    [][\A i \in Instances :
          \/ outcome'[i] = outcome[i]
          \/ outcome[i] = "future" /\ outcome'[i] = "accepted"
          \/ outcome[i] = "accepted" /\ outcome'[i] # "future"]_vars

(* Every accepted task gets its outcome.                                   *)
AcceptedGetsOutcome ==
    \A i \in Instances : outcome[i] = "accepted" ~> outcome[i] # "accepted"

(* stop(wait=True) returns, with the engine stopped.                       *)
StopReturns ==
    \A c \in Controllers : cpc[c] = "join" ~> (cpc[c] = "idle" /\ ~running)

(* stop() -> STOPPING -> Queue Drain -> STOPPED (engine.py:22-34).         *)
StopLeadsToStopped == stopEvent ~> ~running

(* join() is not blocked for ever by a task whose execution raised: the    *)
(* purpose of the finally clause (engine.py:278-281).                      *)
JoinNotBlocked ==
    \A c \in Controllers : cpc[c] = "join" ~> cpc[c] # "join"

(* A task that has not started can be cancelled (engine.py:39-41, 194):    *)
(* its status is QUEUED, or unknown after clear_task_states().             *)
WaitingIsCancellable ==
    \A x \in heap : submitting # x => states[x.expert] \in {"QUEUED", NoStatus}
-----------------------------------------------------------------------------
(* The engine as a PrefetchService: a task is active from the get() that   *)
(* takes it until its result is recorded or its execution is given up.     *)
Phase == IF ~running THEN "STOPPED" ELSE IF stopEvent THEN "STOPPING" ELSE "RUNNING"
Active == {task[w] : w \in Unended}

Service == INSTANCE PrefetchService WITH
              Capacity <- MaxQueueSize, MaxAccepted <- MaxSequence, phase <- Phase,
              waiting <- heap, active <- Active, accepted <- sequence

(* The engine keeps the promises of PrefetchService (engine.py:18-43).     *)
ImplementsService == Service!Spec
=============================================================================
