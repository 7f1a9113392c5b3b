---------------------------- MODULE QueueThreads -----------------------------
(***************************************************************************)
(* The PrefetchQueue outside the engine: the threads of the older          *)
(* interface, PrefetchWorker (prefetch/worker.py) with its                 *)
(* InMemoryPrefetchExecutor (prefetch/executor.py), next to producers,     *)
(* threads in join() and an owner that cancels and clears.                 *)
(*                                                                         *)
(* PrefetchWorker.run(max_tasks) is run_once() again and again; here it    *)
(* may stop after any task.  get(timeout=0) gives the lock up once when    *)
(* the heap is empty, so it is two steps.                                  *)
(***************************************************************************)
EXTENDS PrefetchQueue

CONSTANTS Workers,   (* the threads that call PrefetchWorker.run()          *)
          Joiners,   (* the threads that call PrefetchQueue.join()          *)
          NoEntry    (* no task                                             *)

ASSUME ThreadsAssumption == Workers \cap Joiners = {} /\ NoEntry \notin Entry

VARIABLES wpc,       (* where each worker is in run_once()                  *)
          task,      (* the local "task" of each worker                     *)
          loaded,    (* _loaded_experts of the executor                     *)
          results,   (* _results of the workers                             *)
          jpc,       (* where each joiner is                                *)
          taken      (* history: the tasks taken since the last clear()     *)

workerVars == <<wpc, task, loaded, results>>
vars == <<queueVars, workerVars, jpc, taken>>

TaskState == {"COMPLETED", "FAILED"}

Init ==
    /\ QueueInit
    /\ wpc = [w \in Workers |-> "idle"]
    /\ task = [w \in Workers |-> NoEntry]
    /\ loaded = {}
    /\ results = {}
    /\ jpc = [j \in Joiners |-> "idle"]
    /\ taken = {}
-----------------------------------------------------------------------------
PutTask(t) == Put(t) /\ UNCHANGED <<workerVars, jpc, taken>>

CancelTask(e) ==
    /\ \E x \in EntriesOf(e) : CancelEntry(x)
    /\ UNCHANGED <<workerVars, jpc, taken>>

ClearQueue == Clear /\ taken' = {} /\ UNCHANGED <<workerVars, jpc>>

CallJoin(j) ==
    /\ jpc[j] = "idle"
    /\ jpc' = [jpc EXCEPT ![j] = "join"]
    /\ UNCHANGED <<queueVars, workerVars, taken>>

Join(j) ==
    /\ jpc[j] = "join"
    /\ \/ JoinReturns(j) /\ jpc' = [jpc EXCEPT ![j] = "idle"]
       \/ JoinWaits(j) /\ UNCHANGED jpc
    /\ UNCHANGED <<workerVars, taken>>
-----------------------------------------------------------------------------
Goto(w, next) == wpc' = [wpc EXCEPT ![w] = next]

Run(w) ==
    /\ wpc[w] = "idle"
    /\ Goto(w, "get")
    /\ UNCHANGED <<queueVars, task, loaded, results, jpc, taken>>

TakeTask(w) ==
    /\ wpc[w] \in {"get", "wait"}
    /\ \E x \in heap :
          /\ Pop(x, w)
          /\ task' = [task EXCEPT ![w] = x]
          /\ taken' = taken \cup {x}
    /\ Goto(w, "execute")
    /\ UNCHANGED <<loaded, results, jpc>>

FindNothing(w) ==
    /\ \/ wpc[w] = "get" /\ StartWait(w) /\ Goto(w, "wait")
       \/ wpc[w] = "wait" /\ GiveUp(w) /\ Goto(w, "idle")
    /\ UNCHANGED <<task, loaded, results, jpc, taken>>

(* executor.execute() and the result, after which run_once() returns:      *)
(* the queue is not told that the task is done.                            *)
ExecuteTask(w) ==
    /\ wpc[w] = "execute"
    /\ \E s \in TaskState :
          /\ results' = results \cup {[of |-> task[w], state |-> s]}
          /\ loaded' = IF s = "COMPLETED" THEN loaded \cup {task[w].expert} ELSE loaded
    /\ task' = [task EXCEPT ![w] = NoEntry]
    /\ \E next \in {"get", "idle"} : Goto(w, next)
    /\ UNCHANGED <<queueVars, jpc, taken>>
-----------------------------------------------------------------------------
Work(w) == TakeTask(w) \/ FindNothing(w) \/ ExecuteTask(w)

Next ==
    \/ \E t \in Tasks : PutTask(t)
    \/ \E e \in Experts : CancelTask(e)
    \/ ClearQueue
    \/ \E j \in Joiners : CallJoin(j) \/ Join(j)
    \/ \E w \in Workers : Run(w) \/ Work(w)

Spec == Init /\ [][Next]_vars

(* Threads inside a call go on with it.                                    *)
FairSpec ==
    /\ Spec
    /\ \A w \in Workers : WF_vars(Work(w))
    /\ \A j \in Joiners : WF_vars(Join(j))
-----------------------------------------------------------------------------
(* Whatever two workers, producers, cancel() and clear() do at once, a     *)
(* task is executed by one worker, once: it is in the heap, in one pair of *)
(* hands or in the results.                                                *)
InHand == {w \in Workers : wpc[w] = "execute"}

ExecutedOnce ==
    /\ \A w \in InHand :
          /\ task[w] \notin heap
          /\ \A v \in InHand \ {w} : task[v] # task[w]
          /\ \A r \in results : r.of # task[w]
    /\ \A r, s \in results : r.of = s.of => r = s
    /\ \A r \in results : r.of \notin heap

(* The count only comes down by cancel() and clear(): a task that a        *)
(* PrefetchWorker took stays unfinished for good, and a clear() that meets *)
(* a running task forgets it (queue.py:250-267).                           *)
UndoneStaysCounted == unfinished = Cardinality(heap) + Cardinality(taken)

(* join() "blocks until all tasks are done or cancelled" (queue.py:142),   *)
(* and a worker must call task_done() after each task (queue.py:102, 126): *)
(* a thread in join() does not stay there for tasks that are all over.     *)
JoinEndsWhenAllAreDone ==
    \A j \in Joiners :
        (jpc[j] = "join" /\ heap = {} /\ InHand = {}) ~>
            (jpc[j] = "idle" \/ heap # {} \/ InHand # {})
=============================================================================
