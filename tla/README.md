# predictive-expert-cache: models, checks and proofs

This directory holds the TLA+ models of `predictive_cache`, a predictive cache
and prefetcher for the experts of mixture-of-experts language models, the TLC
runs that check them on small instances and the TLAPS proofs about them.
`PROJECT.json` lists the runs, the mutants that show each property can fail,
the source lines of every definition (`map`), the hazards and the theorems.

Contents: 1 the system - 2 the modules - 3 the runs - 4 bounds - 5 fairness -
6 the proofs - 7 what the models found - 8 what is not modelled.

## 1. The system

A router event (the experts a token was sent to) reaches the cache, the
predictor ranks the experts likely to come next, the scheduler turns the
ranking into requests, the pipeline admits the requests one by one, the engine
queues them and its worker threads execute them: a file is read into RAM and
moved to the GPU.

    routing -> PredictiveExpertCache (ExpertPredictor, ExpertLRU)
            -> ExpertScheduler (SchedulerPolicy, CostModel, CapacityManager)
            -> PrefetchPipeline (AdmissionController, AdmissionStats)
            -> PrefetchEngine (PrefetchQueue, worker threads)
            -> PrefetchTransferExecutor (stage chain, handlers)
            -> NVMeExpertStore, RAMExpertStore, GPUExpertStore

| Component | State | Operations | What makes it correct |
|---|---|---|---|
| `prefetch/queue.py` PrefetchQueue | heap, set of pending experts, sequence number, count of unfinished tasks, one condition | put, get(timeout), task_done, join, cancel, clear, notify_all | the three views of the tasks agree; priority, then first come first served; join() returns exactly when nothing is unfinished |
| `prefetch/engine.py` PrefetchEngine | stop event, running flag, list of workers, statuses, results, a lock | start, stop(wait), submit, cancel, clear_task_states, clear_results; the worker loop | every accepted task has one outcome; stop() drains; a status is true of a real task; never more workers than configured |
| `prefetch/pipeline.py`, `admission.py`, `admission_stats.py` | counters | process: evaluate, submit, record | no expert is admitted twice at a time although the engine is asked in several critical sections; what is admitted is accepted |
| `prefetch/worker.py`, `executor.py`, `task.py` (older interface) | results, loaded experts | run_once, run, execute | a task is executed once; the queue is told |
| `prefetch/stages.py`, `transfer.py`, `storage.py` | routes, the stages | execute: check cancellation, stage 1 NVMe -> RAM, stage 2 RAM -> GPU | the outcome tells which stores were written; cancellation only at a boundary |
| `storage/nvme.py`, `ram.py`, `gpu.py` | one file per expert; dicts of records | put, get, remove; load and unload of the GPU | only payloads written to their end; location tells the device; the RAM record is not touched by the GPU |
| `predictor.py` ExpertPredictor | per-expert statistics, transitions and totals, recent window, previous event, step | observe, record_hit, record_miss, predict | the sums kept on the side agree with what they sum up; scores in [0, 1] |
| `cache.py`, `lru.py` | ordered dict of entries | insert, get, observe, predict, prefetch_candidates, clear | the experts touched last stay, in their order; a warm cache does not leave the prefetcher without candidates |
| `scheduler.py`, `predictive_scheduler/` | none between calls | plan_predictions, decide, select_evictions | no overcommitment; strongest prediction of each expert; ranked; nothing that fits left out |
| `routing/integration.py`, `qwen.py`, `models.py`, `collector.py` | events, hooks on the gates, captured rows | observe, adapt_and_observe(_step), install, remove, clear, capture_forward | one token is one predictor step; rows are of their own forward; hooks are released |
| `routing/history.py` to `top_k.py`, `predictive_scheduler/adapter.py` | none | build_access_patterns, build_expert_transitions, build_transition_probabilities, build_candidate_features, normalize_features, calculate_prediction_score, select_top_k_predictions, the conversion for the scheduler | any history can be scored, scores in [0, 1]; history and predictor tell the same |

Interaction. Calls go downwards only, with two exceptions: the admission reads
the statuses and the queue of the engine it feeds, and the predictor is told of
cache hits. Shared state under a lock: the queue (its condition) and the engine
(`_lock`). Shared state without a lock: the stores, which the workers write
while the thread that runs the model reads, writes and moves experts in them.
The cache, the predictor, the capture and the scheduler belong to one thread.
Nothing in `predictive_cache` connects the cache's candidates with the scheduler
and the pipeline; its users (and the tests) do, each in a loop of its own.

What is hard here: the order in which client, workers and controller enter the
two locks; statuses written after the queue has changed; two counters of the
same thing (heap and pending set, transitions and totals, LRU order and access
steps); the shutdown protocol with its event, count, join and thread joins;
exceptions that leave a worker; a file that is being written when it is read or
when the process dies; a cancellation between two stages; admission by several
reads; a forward pass that fails while hooks are installed or after some of its
tokens have been observed. `PROJECT.json` lists these with their lines under `hazards`.

## 2. The modules

Conventions: a definition that models code carries the name of the function or
of what it does in it; variables carry the names of the attributes without the
underscore. A definition that begins with "Mutant" in its comment is a wrong
variant of the one after it and is used by no specification: replacing the one
by the other must break a property (`mutants`). Variables called "history" in
the declarations are not in the code and never read by a guard.

**PrefetchQueue** is the queue as operators: `heap` is the set of entries
(expert, priority, sequence), `pending`, `sequence`, `unfinished` as in the
code, `waiters` the threads asleep in the condition. `Put`, `Pop`, `TaskDone`,
`CancelEntry`, `Clear` are the critical sections; a wait is `StartWait` /
`GiveUp` and `NotifyOne` / `NotifyAll` take threads out of `waiters`. The heap
order is `IsNext`: highest priority, then lowest sequence.

**PrefetchEngine** extends it with `start()` (`Start`), `stop()` in its steps
(`StopRequest`, `StopJoinsQueue`, `StopNotifies`, `StopJoinsWorkers`,
`StopFinishes`), the clients (`SubmitPut` and `SubmitMark`: the put and the
status, between which submit() holds the lock but a worker may take the task;
`Cancel`, `ClearTaskStates`, `ClearResults`) and `_worker_loop()` (`TakeTask`,
`WaitForTask`, `WaitEnds`, `ReadStopEvent`, `ReadUnfinished`, `MarkRunning`,
`Execute`, `AppendResult`, `MarkFinal`, `FinishTask`, and `ExecuteEscapes` for
what is no `Exception`). `Execute` chooses the outcome of `_execute()`:
COMPLETED, CANCELLED or FAILED. One critical section is one step.

**PrefetchService** is the abstract specification: a phase, the waiting and the
active tasks, an outcome for each. A task is accepted only while RUNNING, begun
in the order of urgency, ended once or withdrawn while it waits; the service
stops only when nothing is left. PrefetchEngine implements it (`Service`, with
the phase computed from `running` and `stopEvent`, the active tasks from the
workers' hands), checked by the run `engine` and proved for one controller.

**PrefetchPipeline** extends the engine with the threads in `process()`: for
each request the thresholds (`Reject`, `Admit`), the three reads of the engine
(`AskQueued`, `AskRunning`, `AskFull`), `submit()` and the statistics.

**QueueThreads** puts the queue among other threads: PrefetchWorkers (`Run`,
`TakeTask`, `FindNothing`, `ExecuteTask`), producers, an owner that cancels and
clears, and threads in join().

**StageTransfer** is the inside of `Execute`: `CheckCancelled` before each
stage, `FindFile` (exists) and `LoadFile` (open and pickle.load), `StoreInRam`,
`FetchFromRam`, `PlaceOnGpu`; the first decides at `gpuStore` whether the
executor was built with a GPU store or ends in RAM. Two tasks of one expert may
run together (the run `resubmit` shows how they come about). Three variables are
history: `met` remembers such a meeting, `before` the versions that were written
when a task began, `oldest` those of them that were written already when each
task began that it found running on its expert.
The owner writes a file in two steps
(`PutBegins` truncates it, `PutEnds` completes it), removes records, cancels,
and moves a GPU record in two (`MovePayload`, `MoveLocation`); `Crash` loses all but the files. `rootDir` is the choice of the NVMe store's constructor:
without a root_dir it is a dict (`PutInMemory`, and `FindFile` has the record at
once). A payload is the expert and the version that was written. The experts of
the pipeline are integers, so that each has a file of its own (`_path` replaces
slashes, of which integers have none).

**ExpertPredictor** and **ExpertCache** are the statistics, the scores and the
LRU. Scores are integers over a common denominator, exp(-age/decay) is a
decreasing table, so equal and greater mean what they mean for the reals; the
rounding of doubles is not modelled. `touched` is the history of all touches
that the LRU is compared with. `Predictions` and `PrefetchCandidates` are
predict() and prefetch_candidates() of the cache.

**Ordering** has sorted(), list.sort() and comprehensions as the models need
them: `Ordered` (a set by a strict order, the place of an element being the
number of those before it), `StableSort`, `SubSequence`. SortSeq and SelectSeq
of the standard modules would do for TLC, but have no definition to prove with.
The ranking of the predictor, the plan and the selection of the scheduler, the
events of a token and the best k are written with them.

**RoutingAnalysis** holds the pure functions over a history: access patterns,
transitions within an event, their totals, candidate features, the score, the
best k, and the predictions handed to the scheduler. A probability is its
numerator over a denominator common to all candidates, as in ExpertPredictor.

**RoutingCapture** extends ExpertCache and RoutingAnalysis with the thread that
captures: `BridgeObserves` (the bridge called by itself), `Install`,
`RemoveHooks`, `ClearCaptured`, `PlainForward` (a forward of the caller's own,
with whatever hooks are on) and capture_forward() in its steps: `Begin` (clear
and install), `GateRuns` for each gate that the model calls, `ForwardRaises`,
`ForwardReturns` (the checks on the captured rows) and `TokenObserved` for each
token; `Finish` is the finally clause. What a row holds is chosen when it is
read. `registered` counts the hooks of a gate, `asked` is what the caller wants
hooked; events carry as history the call and token they were observed for
(`call`, `position`) and the forward their row is from (`of`). A behaviour has
one of two drivers, ExpertCache alone or the capture: observe() is all that they
have in common, the lookups of the one and the hooks of the other touch
different variables, and their product would only multiply the states.

**ExpertScheduler** is one call of plan_predictions() after the other:
`Deduplicate` per prediction, `Evaluate` per candidate (cost model, policy,
capacity), `Rank`. Sizes and costs are arguments of the call.
**EvictionSelection** is select_evictions() in the same form; ExpertScheduler
extends it and makes one call of either function at a time.

The MC modules give instances: `MCPrefetchEngine`, `MCPrefetchPipeline`,
`MCQueueThreads`, `MCStageTransfer`, `MCExpertCache`, `MCExpertScheduler`.
Symmetry is used for worker threads (and experts in StageTransfer), which no
definition tells apart, and never in a run with a liveness property.

    PrefetchService <- (refinement) PrefetchEngine -> PrefetchQueue <- QueueThreads
    PrefetchPipeline -> PrefetchEngine     PrefetchEngineProofs -> PrefetchEngine
    PrefetchPipelineProofs -> PrefetchPipeline, PrefetchEngineProofs
    ExpertCache -> ExpertPredictor         PrefetchServiceProofs -> PrefetchEngineProofs
    RoutingCapture -> ExpertCache, RoutingAnalysis
    QueueThreadsProofs -> QueueThreads     StageTransferProofs -> StageTransfer
    ExpertPredictor, RoutingAnalysis, EvictionSelection, CollectionLemmas -> Ordering
    ExpertScheduler -> EvictionSelection
    ExpertSchedulerProofs -> ExpertScheduler, CollectionLemmas
    RoutingCaptureProofs -> RoutingCapture, CollectionLemmas    (-> is EXTENDS)

## 3. The runs

Runs that pass:

| Run | Instance | Shows |
|---|---|---|
| `engine` | 2 workers, a client, a controller with restarts, 3 tasks of 2 experts, 2 submissions, queue of 2; fair | the three views of the queue agree (`PendingMatchesHeap`), the count that join() and the exit test rest on is exact (`UnfinishedExact`), statuses are of real tasks (`QueuedIsReal`, `RunningIsReal`, `SettledWhenIdle`), no task is lost or twice there (`AcceptedInOnePlace`, `OutcomeIsFinal`), the engine implements PrefetchService (`ImplementsService`, which includes the order by priority and, among equals, by arrival), every accepted task gets an outcome (`AcceptedGetsOutcome`) and stop(wait=True) returns stopped (`StopReturns`) |
| `lifecycle` | 1 worker out of 2 thread identities, queue of 1, exceptions that end workers, both kinds of stop() | stopped means drained (`DrainedWhenStopped`), restarts do not add workers (`AtMostNumWorkers`)|
| `pipeline` | one thread in process() with three plans and the empty one, 2 workers, queue of 1, a client that cancels, a controller; fair | admission in its separate reads lets no expert in twice (`NoDuplicateWork`), what it admits is accepted (`AdmittedIsAccepted`), a status moves along the life of its task (`StatusFollowsLife`), process() returns (`ProcessReturns`) |
| `queue_threads` | 2 PrefetchWorkers, producers, cancel(), clear(), a thread in join() | one worker executes a task, once (`ExecutedOnce`); the count is off by exactly the tasks taken (`UndoneStaysCounted`) |
| `stages` | 2 workers, 2 experts, 2 versions, cancellation, failures, crashes, with and without a GPU store, with files and without a root_dir; 2.7 million states | only payloads of that expert that were written to their end (`GenuinePayload`), the outcome tells the stores written (`OutcomeTellsStages`), a location tells the device, and GPU records leave RAM records alone (`LocationTellsDevice`), a task alone on its expert brings no older version back, and overlapping ones none older than what was written when the first of them began (`NeverOlder`) |
| `cache` | 3 experts, capacity 2, up to 3 steps. Driver caller: events of five kinds, a lookup. Driver capture: a model with two gates and one without, 2 calls, 2 tokens, steps from 0 to 2, rows of which one is invalid; 0.7 million states | LRU against the stack of all touches (`HoldsTheLastTouched`) and against the access steps (`OrderedByAccess`); the predictor's sums (`CountersAgree`, `DistancesAddUp`), its ranking (`SureSuccessorFirst`), what a warm cache leaves of it (`CandidatesNotStarved`); a token is one step, whole or not at all (`OneTokenOneStep`), observed from its own forward (`OwnForwardOnly`); no hook is left or doubled (`HooksReleased`, `CaptureTypeOK`); history and predictor tell the same (`HistoryAgreesWithPredictor`), and every history can be scored (`ScoresAreAccepted`) |
| `scheduler` | lists of up to 3 predictions of 3 experts with duplicates, residents, invalid scores, 2 sizes and costs or one; evictions among 3 experts of any size, priority and place | the capacity is never overcommitted and a call fails for its input only (`NoOvercommit`), nothing worth it that fits is left out and each expert is there with its strongest prediction (`PlanIsFull`), the strongest get the space (`StrongestGetTheSpace`); evictions are just enough, and of the least important (`JustEnough`), and as few as possible among equals (`FewestAmongEquals`) |

The type invariants of PrefetchPipeline and StageTransfer are proved and not
run; those of the engine and of the capture are among the runs' properties.

Runs that TLC must find violated, each a disagreement of the code with a line
of its own documentation (section 7): `stop_no_wait`, `two_stops`,
`worker_lost`, `resubmit`, `worker_never_done`.

Each property of a passing run has a mutant in `PROJECT.json`: a variant of one
definition, as a bug in that code would be, for which the same run fails.

## 4. Bounds and why they are enough

- `MaxSequence` bounds how many tasks are ever accepted. Two are enough for the
  races between two tasks of one expert, and of two experts and two workers, and
  for the order of two that wait; `pipeline` has three. The proofs hold for every
  value of it.
- `MaxQueueSize`: the limit of the queue, met in `lifecycle` and `pipeline`
  (one) and never met in `engine`, where it is the number of experts and
  stands for None: one entry per expert may be pending.
- `Workers` are thread identities; a thread that ended is one that start() may
  use again, so `lifecycle` has more of them than `NumWorkers`.
- `MaxDecisions` bounds the requests a caller brings to process(); it is not
  above `MaxSequence`, for otherwise the bound of the queue would look like a
  submit() that does not return.
- `MaxVersion`: the puts of the owner, two: one expert rewritten, or both
  written once. A version is the number of its put.
- `MaxCalls` and `MaxTokens` (the capture), two each: a call that fails, or a
  forward of the caller's own, and one that follows it; a valid token and an
  invalid one after it. `CallerSteps` are 0 to 2, so that two calls may continue,
  overlap, go back or leave a gap. All tokens of a forward fit under `MaxStep`.
- `MaxStep`, `MaxLookups` (the predictor), `Events`, `Rows`, `Calls`,
  `EvictionCalls`: the inputs, enumerated in the MC modules.

## 5. Fairness and why the code justifies it

- A worker goes on (`WF(Work(w))`): the operating system runs it, get() has a
  timeout of 0.2 s, and handlers are assumed to return. Nothing says with what:
  each execution may complete, fail or be cancelled, and nothing forces an
  exception to escape or not to.
- A controller inside stop() goes on (`WF(StopStep(c))`): join() of the queue
  and of threads return once their condition holds.
- The thread inside submit() finishes it (`WF(SubmitMark)`): it holds the lock
  and waits for nothing.
- In PrefetchPipeline a caller inside process() goes on; in QueueThreads the
  threads in get(), execute() and join() do.

Nobody has to call anything: no fairness for start(), stop(), submit(),
process(), cancel() or put().

## 6. The proofs

`PrefetchEngineProofs` and `PrefetchServiceProofs` hold for any sets of experts,
tasks and workers, any queue limit and any bound on the submissions. Assumptions
are those of the modules: finitely many thread identities, not fewer than
`NumWorkers`, no thread that is both worker and controller, a positive limit.

Few of the safety properties are inductive alone. `UnfinishedExact` counts
sets: that put() adds an entry to the heap, and not one that is there, needs
`PendingMatchesHeap` (entries have different numbers, below the next one); that
task_done() and cancel() find a count above zero needs the exact count itself.
`QueuedIsReal` needs `SubmitTracked`: the second half of submit() writes QUEUED
for a task that a worker may have taken, but which cannot be past RUNNING while
submit() holds the lock. `RunningIsReal` needs that a worker that writes the
final status has one in hand (`TaskInHand`, part of `Typing`). The invariant is

    IInv == Typing /\ PendingMatchesHeap /\ UnfinishedExact /\ StatusInv

and `Invariance` is `Spec => []IInv`. From it: `TypeCorrect`, `PendingCorrect`,
`UnfinishedCorrect`, `QueuedCorrect`, `RunningCorrect`, and `SettledCorrect`,
which follows by counting: nothing unfinished means an empty heap and no worker
with a task, so no status can be QUEUED or RUNNING.

`SubmitTracked`, `TaskInHand` and `LifecycleInv` are proved only; no run lists them.

`PlaceCorrect` (an accepted task is in one place) is inductive relative to
`IInv`, and `OutcomeCorrect` (an action property) follows step by step from the
two. With one controller (`Controllers = {c0}`) `LifecycleInv` is inductive as
well; it gives `DrainedCorrect` and `WorkersBounded`, and with the rest
`EngineImplementsService`: initial states map to initial states, and each step
to a step of PrefetchService or to a stutter. The assumption cannot be dropped:
`two_stops` is the counterexample.

`PrefetchPipelineProofs` has two parts. `PipelineRunsEngine`, for any number of
callers: every step of a pipeline is a step of the engine or leaves it alone, so
`IInv` holds here as well. The others assume one caller (`Callers = {p}`), for
two of them may both be told that an expert is neither queued nor running. The
invariant is `LifeInv(p) == Single /\ StatusOfPlace /\ AnswersHold(p)`: the task
of an expert is in one place; that place fixes its status, up to the moment in
which submit() has put it and not yet marked it; and what the admission was told
stays true until it submits: after the answer "not queued" the task is not
QUEUED (a worker can only move it on to RUNNING), after "not running" it is
nowhere, after "not full" there is room, because workers only take. From it
`PipelineDoesNotDuplicate`, `AdmittedCanBePut` and `StatusesInOrder`. With
several pipelines over one engine all three can fail.

`QueueThreadsProofs`, for any producers, workers and joiners: `ExecutedOnce`
rests on the sequence numbers (whatever is queued, in a worker's hands or in the
results has a number below the next one, `Numbered`), `UndoneStaysCounted` on
that and on the taken tasks having left the heap (`CountInv`), so that the two
cardinalities of the count concern different tasks.

`StageTransferProofs`, for any experts, workers and versions, with crashes:
`ContentInv` says that a file is missing, cut short or written to its end for its
expert (`FilesGenuine`), that a worker holds such a payload of its own expert
(`HandsGenuine`), and that the owner's load() or unload() still has the record it
found unless a worker replaced it (`OwnerKnows`); it gives
`StoresHoldGenuinePayloads` and `LocationsAreTrue`. `WroteSoFar` ties the stage
of a task to what it has written, for `OutcomesTellStages`. `StoresGetNoOlder`,
an action property, needs `VersionInv`: a whole file has the newest of the
versions written for its expert (`FileNewest`), a task that has met no other of its expert is
the only one, and what such a task holds is not older than what the stores have. For tasks that
overlap, what a task knew at its beginning was written (`BeginsKnown`), and what it
holds, or finds in RAM after its first stage, is no older than its `oldest`
(`FreshInHand`).

`CollectionLemmas` is what the two modules below need to know of sums, products,
maxima and minima, sorts, filters, concatenations and the sizes of images and of
disjoint unions. The folds and the flattening of the libraries
are recursive functions: each is shown to have a solution, so that its value is
the solution's, and what it returns is then proved by induction over a finite
set (`FiniteSetInduction`, in which the property is a set and not an operator,
from `NatMinimum`). `OrderedExact` says that `Ordered` enumerates its set in
order, `StableSortExact` that a sorted list is a rearrangement in which nothing
stands before what should precede it, `LargestSum` that the first m of a falling
list are the largest sum of m of its terms.

`ExpertSchedulerProofs`, for any calls with any numbers of predictions,
residents and candidates. `PlanInv` follows the two loops. After k predictions
(`Deduplicated(k)`) the dict has, for each expert that is not resident, the first
of its strongest predictions among these k, at the place of its first one;
after m candidates (`Evaluated(m)`) one of these m is left out only for want of
benefit or because it does not fit in what is left, and what is left only shrinks,
so it does not fit in the end either; `WithinCapacity` says that the used space
is that of the call and of the requests. Sorting them by priority changes none
of this because the comparison is a weak order (`BeforeIsWeak`; crosswise
comparison of quotients is transitive) and a sum does not depend on the order
(`SumReindexed`). It gives `NeverOvercommitted`, `PlansAreFull` and
`SpaceGoesToTheStrongest`. `EvictionInv` says that a selection is always a prefix
of the sorted candidates and was still too small without its last element; it
gives `SelectionsAreJustEnough`, and with `LargestSum` `SelectionsAreFewest`.
Used from the module's form: a resident or a candidate has one state, as a
function from experts has. `policy.py:142` and `capacity.py:176` take any sequence of
states and do not check that no expert is in it twice; that is a precondition here.

`RoutingCaptureProofs`, for any models, rows, experts, lookups and finitely many
layers, of which a row names experts (`CaptureAssumption`). The invariant has a
part for each piece of state:

- `HooksInv` (a gate has one hook if it is in `_hooks`, none otherwise; between
  calls `_hooks` is what the caller asked for) gives `HooksAreReleased`;
  `RowsInv` is `RowsAreOfTheirForward`: while a capture is in progress nothing
  but its own forward has stored rows.
- `CollectorInv` is about the events collected; that a new one is of its own
  forward needs `RowsInv`. It gives `OnlyTheOwnForward`.
- `DistanceInv` (`DistancesAddUp` with the types, an expert without an entry
  having no numbers, one never observed no distances, and every observation being
  before the step) gives
  `DistancesCorrect`.
- `CountersInv` bounds every counter by the step and has `CountersAgree`. That
  the maximum kept is the maximum needs that frequencies grow by one and only for
  the experts of the event; that the totals are sums needs that an event has an
  expert once (`Distinct`), for an event that named one twice would count its
  transitions twice. It gives `CountersCorrect`.
- `CacheInv`: the keys are the last `Capacity` of the list of all experts in the
  order of their last touches, and the access steps of the entries go up with
  them (`Fits`). Neither part is inductive alone. An eviction removes the head,
  which is the key that falls out of the last `Capacity` (`TouchMovesTheTop`).
  It gives `LastTouchedAreHeld` and `AccessOrder`.
- `TokenInv`, for the capture as the only driver: the tokens of a forward are
  those from 0 to its position, with the same layers (`WholeTokens`,
  `TokensSoFar`), there are as many as steps, and an expert has been observed as
  often as tokens have it (`StepPerToken`). It gives `TokensAreSteps`.
- `TransitionsInv` (no more transitions to an expert than observations of it) is
  needed for `SureSuccessorIsFirst`: a sure successor has been observed, so its
  frequency is positive when the transition only outweighs by equality, and a
  recency is below its full scale, for an observation lies before the step.
- `HistoryInv`, for the capture as the only driver: the experts known are those
  of the collected events (`known` is kept by the predictor, the events by the
  collector); no token has two events of one layer; and if each forward starts at
  the step where the last one ended (`Aligned`), the events stand in the order of
  their steps, events of one step are of one token, and the first and last step
  of each expert are those of events. It needs `CollectorInv` (layers go up within
  a token) and `CountersInv` (no first or last step lies after the present one).

`HistoryAgrees` compares what the predictor counted along the way with what the
analysis computes afterwards. `AccessPatternsExact` says that the left fold of
build_access_patterns() is what can be read off the history directly, again from
the solution of a recursion and by induction on how many events were seen; an
expert then has as many accesses as there are events with it
(`AccessesCounted`), as many successors counted as its events had others, since a
row has no expert twice (`SuccessorsCounted`, by `DisjointSum`), and with aligned
steps the first and last step of the predictor (`FirstAndLastAgree`).

`ScoresAccepted` says of the chain from a history to the scheduler's predictions
that no step of it raises. Features are bounded by what they are divided by
(`FeaturesBounded`; `ProductPositive` for the common denominator), so three
weighted parts are at most the whole (`ScoreArithmetic`), and the best k leave
out nothing better (`SelectionExact`). That the step before the last one raises
(`LastStepExact`) holds for any history. The histories are those of captures; a caller
that drives the cache itself collects none (the first conjunct of `HistoryInv`).

`CaptureTyping` follows from all parts but the last. `CandidatesRemain` and
`SureSuccessorIsFirst` are about the ranking, a function of the counters: scores
are not negative (`ScoreNatural`, so a minimum of 0 excludes nobody), score and
then number are a strict total order (`RankedExact`), and a prediction is its
first entries (`PredictExact`). So whoever is left out of a prediction stands
behind all that are in it, which are the top_k others of `CandidatesNotStarved`;
the rest is counting what is cached.

The parts of these invariants that are no property of a run are proved only;
before that TLC had found them to hold on the instances of `cache` and `scheduler`.

Only model-checked: the three liveness properties `AcceptedGetsOutcome`,
`StopReturns` and `ProcessReturns`, which rest on fairness and ENABLED and which
no prover here reaches. Every invariant and every action property that a passing run
checks is stated by a theorem.

## 7. What the models found

1. stop(wait=False) never sets `_running` to False (engine.py:140). The workers
   drain and exit, but the engine stays STOPPING: start() does nothing, submit()
   refuses. The documentation of the class promises STOPPED (`stop_no_wait`).
2. Two threads in stop(wait=True): one is delayed before its last lines
   (engine.py:136), the other finishes and start() runs again; the first then
   empties the new list of workers. They run on, unknown to the engine, and the
   next start() adds as many again (`two_stops`).
3. The loop has try/finally without except (engine.py:277): an exception that is
   no `Exception`, or one raised outside of the inner try, counts the task done
   and ends the worker. With tasks left and no worker, stop() hangs in join(),
   which the finally clause is there to prevent (`worker_lost`).
4. An expert may be submitted again while a worker is between get() and the
   status RUNNING (engine.py:264), or before the final status. The two tasks
   share one status, and cancel() refuses the one that waits (`resubmit`). The
   pipeline avoids it (`NoDuplicateWork`).
5. PrefetchWorker takes a task and never calls task_done() (worker.py:31), as
   queue.py demands: join() of such a queue never returns
   (`worker_never_done`).

## 8. What is not modelled

- The rounding of doubles in scores, benefits and priorities.
- The bytes of a file: pickle.load() is one step, so a reader that mixes two
  versions of equal length is not in the model.
- The in-memory stores of `storage/in_memory.py` and `prefetch/ram.py` (single
  dict operations, used by tests only), put() of the owner into RAM and GPU (the
  workers fill these), the default transfer handler, which no task of the
  pipeline reaches, release(), transfer_time_ms() and explain(), which nothing
  calls, and plan_prefetch(), which repeats plan_predictions() in other types.
- `routing/hook.py`, which puts the events of one output into a collector it is
  given, and the collector's own queries, which are those of the history. The
  shape checks of gate outputs are in the model as failures (`ForwardRaises`);
  capture_forward() with input_ids of another shape raises before it changes
  anything and is left out.
- The order of the layers of a token is that of their numbers, as gates run in
  that order; a model that ran them in another would list its events in that one.
- A history that the caller assembles or edits by hand: the analysis is checked
  over the histories that captures leave.
- A loop of cache, scheduler and pipeline: it is not in this code (section 1).
  What its author has to know: completed experts are planned again unless the
  loop inserts them into the LRU, and `used_mb` has to be passed for each call,
  for the scheduler does not learn what earlier calls have planned.
- decide() does not look whether the expert is on the GPU, which its docstring
  gives as the first step (policy.py:52); plan_predictions() removes residents
  before it asks, and that is what the model has.
- A notify() that wakes a thread in join() instead of one in get() leaves the
  latter asleep until its timeout (0.2 s in the engine, after which it looks
  again). This is a delay, and no property tells it from a prompt wake-up.
- CUDA: a move to the device succeeds or raises.
- Getters, logging, `__init__` files; `init.py` imports a name that its package
  does not export, and is imported by nothing.
