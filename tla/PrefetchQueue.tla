---------------------------- MODULE PrefetchQueue ----------------------------
(***************************************************************************)
(* The thread-safe priority queue of predictive_cache/prefetch/queue.py.   *)
(* Every method of the class runs in one "with self._condition" block, so  *)
(* each is one atomic step; only get() and join() give the lock up, by     *)
(* waiting on the condition, and are made of two steps by the modules that *)
(* use this one (PrefetchEngine, QueueThreads).                            *)
(*                                                                         *)
(* The binary heap is represented by the set of its entries: heappush,     *)
(* heappop and the "overwrite with the last entry, pop, heapify" of        *)
(* cancel() differ in layout only.                                         *)
(***************************************************************************)
EXTENDS Integers, FiniteSets

CONSTANTS Experts,       (* expert ids                                      *)
          Tasks,         (* the tasks clients may submit                    *)
          MaxQueueSize,  (* max_size; the number of experts stands for None *)
          MaxSequence    (* bound: how many tasks are ever accepted         *)

ASSUME QueueAssumption ==
       /\ Tasks \subseteq [expert : Experts, priority : Int]
       /\ MaxQueueSize \in Nat \ {0}       (* ValueError otherwise *)
       /\ MaxSequence \in Nat

VARIABLES heap,        (* _heap: the entries (-priority, sequence, task)    *)
          sequence,    (* _sequence: the number of the next accepted task   *)
          pending,     (* _pending: the experts that have an entry          *)
          unfinished,  (* _unfinished_tasks                                 *)
          waiters      (* the threads inside _condition.wait()              *)

queueVars == <<heap, sequence, pending, unfinished, waiters>>

Instances == 0 .. MaxSequence - 1
Entry == [expert : Experts, priority : Int, seq : Instances]

QueueInit ==
    /\ heap = {}
    /\ sequence = 0
    /\ pending = {}
    /\ unfinished = 0
    /\ waiters = {}
-----------------------------------------------------------------------------
(* The order of the heap: higher priority first, then first come.          *)
MoreUrgent(x, y) ==
    \/ x.priority > y.priority
    \/ x.priority = y.priority /\ x.seq < y.seq

(* Mutant: the queue forgets the priority.                                 *)
IsOldest(x) == x \in heap /\ \A y \in heap \ {x} : x.seq < y.seq

IsNext(x) ==
    /\ x \in heap
    /\ \A y \in heap \ {x} : MoreUrgent(x, y)

EntriesOf(e) == {x \in heap : x.expert = e}

NewEntry(t) == [expert |-> t.expert, priority |-> t.priority, seq |-> sequence]

(* notify() wakes one waiting thread, whichever the condition picks, and   *)
(* it does not look at what that thread is waiting for.                    *)
NotifyOne ==
    IF waiters = {} THEN UNCHANGED waiters
                    ELSE \E t \in waiters : waiters' = waiters \ {t}

NotifyAll ==
    /\ waiters' = {}
    /\ UNCHANGED <<heap, sequence, pending, unfinished>>

IsFull == Cardinality(heap) >= MaxQueueSize
CanPut(t) == t.expert \notin pending /\ ~IsFull

(* put() when it returns True; when CanPut is false nothing changes.       *)
Put(t) ==
    /\ CanPut(t)
    /\ sequence < MaxSequence
    /\ heap' = heap \cup {NewEntry(t)}
    /\ sequence' = sequence + 1
    /\ pending' = pending \cup {t.expert}
    /\ unfinished' = unfinished + 1
    /\ NotifyOne

(* Mutant: the expert stays in _pending.                                   *)
PopKeepsPending(x, k) ==
    /\ IsNext(x)
    /\ heap' = heap \ {x}
    /\ waiters' = waiters \ {k}
    /\ UNCHANGED <<sequence, pending, unfinished>>

(* Mutant: the entry stays in the heap.                                    *)
PopKeepsEntry(x, k) ==
    /\ IsNext(x)
    /\ pending' = pending \ {x.expert}
    /\ waiters' = waiters \ {k}
    /\ UNCHANGED <<heap, sequence, unfinished>>

(* The part of get() that thread k runs with a non-empty heap, at once or  *)
(* after its wait was notified or timed out.                               *)
Pop(x, k) ==
    /\ IsNext(x)
    /\ heap' = heap \ {x}
    /\ pending' = pending \ {x.expert}
    /\ waiters' = waiters \ {k}
    /\ UNCHANGED <<sequence, unfinished>>

(* Thread k finds the heap empty and waits ...                             *)
StartWait(k) ==
    /\ heap = {}
    /\ waiters' = waiters \cup {k}
    /\ UNCHANGED <<heap, sequence, pending, unfinished>>

(* ... and, awake again, finds it still empty: get() returns None.         *)
GiveUp(k) ==
    /\ heap = {}
    /\ waiters' = waiters \ {k}
    /\ UNCHANGED <<heap, sequence, pending, unfinished>>

(* The loop test of join(): thread k returns, or goes to sleep.            *)
JoinReturns(k) ==
    /\ k \notin waiters
    /\ unfinished <= 0
    /\ UNCHANGED queueVars

JoinWaits(k) ==
    /\ k \notin waiters
    /\ unfinished > 0
    /\ waiters' = waiters \cup {k}
    /\ UNCHANGED <<heap, sequence, pending, unfinished>>

(* Mutant: nobody in join() is told.                                       *)
FinishOneSilently == unfinished' = unfinished - 1 /\ UNCHANGED waiters

FinishOne ==
    /\ unfinished' = unfinished - 1
    /\ waiters' = IF unfinished = 1 THEN {} ELSE waiters

(* task_done(); with no unfinished task it raises ValueError instead.      *)
TaskDoneRaises == unfinished <= 0
TaskDone ==
    /\ ~TaskDoneRaises
    /\ FinishOne
    /\ UNCHANGED <<heap, sequence, pending>>

(* Mutant: the task is cancelled and still counted.                        *)
CancelKeepsCount(x) ==
    /\ x.expert \in pending
    /\ x \in EntriesOf(x.expert)
    /\ heap' = heap \ {x}
    /\ pending' = pending \ {x.expert}
    /\ UNCHANGED <<sequence, unfinished, waiters>>

(* Mutant: the task is struck from _pending and left in the heap.          *)
CancelKeepsEntry(x) ==
    /\ x.expert \in pending
    /\ x \in EntriesOf(x.expert)
    /\ pending' = pending \ {x.expert}
    /\ FinishOne
    /\ UNCHANGED <<heap, sequence>>

(* cancel() of an expert whose entry x is in the heap.  The branch for an  *)
(* expert in _pending without an entry, which "should not happen", is what *)
(* PendingMatchesHeap excludes.  With a wrong count cancel() raises, the   *)
(* entry being gone already.                                               *)
CancelEntry(x) ==
    /\ x.expert \in pending
    /\ x \in EntriesOf(x.expert)
    /\ heap' = heap \ {x}
    /\ pending' = pending \ {x.expert}
    /\ IF unfinished <= 0 THEN UNCHANGED <<unfinished, waiters>> ELSE FinishOne
    /\ UNCHANGED sequence

(* Mutant: the dropped tasks stay unfinished.                              *)
ClearKeepsCount ==
    /\ heap' = {}
    /\ pending' = {}
    /\ waiters' = {}
    /\ UNCHANGED <<sequence, unfinished>>

(* clear(): also forgets the tasks that were taken and not yet done.       *)
Clear ==
    /\ heap' = {}
    /\ pending' = {}
    /\ unfinished' = 0
    /\ waiters' = {}
    /\ UNCHANGED sequence
-----------------------------------------------------------------------------
QueueTypeOK ==
    /\ heap \in SUBSET Entry
    /\ IsFiniteSet(heap)
    /\ sequence \in 0 .. MaxSequence
    /\ pending \in SUBSET Experts
    /\ unfinished \in Int

(* _pending and _heap describe the same tasks, one entry per expert and    *)
(* one sequence number per entry: the comment in cancel() relies on it     *)
(* (queue.py:191-194), and so does the rejection of duplicates in put().   *)
PendingMatchesHeap ==
    /\ pending = {x.expert : x \in heap}
    /\ \A x, y \in heap : x.expert = y.expert \/ x.seq = y.seq => x = y
    /\ \A x \in heap : x.seq < sequence
    /\ Cardinality(heap) <= MaxQueueSize
=============================================================================
