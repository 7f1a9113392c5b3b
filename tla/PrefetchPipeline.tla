-------------------------- MODULE PrefetchPipeline ---------------------------
(***************************************************************************)
(* The prediction pipeline in front of the engine:                         *)
(*   predictive_cache/prefetch/pipeline.py         PrefetchPipeline        *)
(*   predictive_cache/prefetch/admission.py        AdmissionController     *)
(*   predictive_cache/prefetch/admission_stats.py  AdmissionStats          *)
(*                                                                         *)
(* Each caller has a pipeline of its own over one shared engine.  Of a     *)
(* request process() evaluates the admission, records the decision and     *)
(* submits what is admitted.  The admission asks the engine three          *)
(* questions, each under a lock it takes and releases: anything may happen *)
(* between two answers, and between the last one and the submit().         *)
(***************************************************************************)
EXTENDS PrefetchEngine, Sequences

CONSTANTS Callers,        (* the threads that call process()                *)
          Plans,          (* the request lists a scheduler may return       *)
          MinPriority,    (* min_priority, min_confidence                   *)
          MinConfidence,
          MaxDecisions    (* bound: decisions per pipeline                  *)

Requests == [expert : Experts, priority : Int, confidence : Int]
TaskOf(r) == [expert |-> r.expert, priority |-> r.priority]

ASSUME PipelineAssumption ==
       /\ Plans \subseteq Seq({r \in Requests : TaskOf(r) \in Tasks})
       /\ MinPriority \in Nat /\ MinConfidence \in Nat
       /\ MaxDecisions \in Nat

VARIABLES ppc,     (* where each caller is in process()                     *)
          todo,    (* the requests it has still to handle                   *)
          stats    (* its AdmissionStats                                    *)

callerVars == <<ppc, todo, stats>>
pipelineVars == <<vars, callerVars>>

Rejections == {"low_priority", "low_confidence", "duplicate_queued",
               "duplicate_running", "queue_full"}

PipelineInit ==
    /\ Init
    /\ ppc = [p \in Callers |-> "idle"]
    /\ todo = [p \in Callers |-> <<>>]
    /\ stats = [p \in Callers |-> [total |-> 0, accepted |-> 0, rejected |-> 0,
                                   by |-> [r \in Rejections |-> 0]]]
-----------------------------------------------------------------------------
PGoto(p, next) == ppc' = [ppc EXCEPT ![p] = next]

Request(p) == Head(todo[p])

(* process() is called and the scheduler has planned; with nothing to      *)
(* request it returns.                                                     *)
Process(p) ==
    /\ ppc[p] = "idle"
    /\ \E plan \in Plans :
          /\ todo' = [todo EXCEPT ![p] = plan]
          /\ stats[p].total + Len(plan) <= MaxDecisions
          /\ PGoto(p, IF plan = <<>> THEN "idle" ELSE "evaluate")
    /\ UNCHANGED <<vars, stats>>

(* The loop goes on with the next request, or process() returns.           *)
NextRequest(p) ==
    /\ todo' = [todo EXCEPT ![p] = Tail(@)]
    /\ PGoto(p, IF Len(todo[p]) = 1 THEN "idle" ELSE "evaluate")

RecordAccept(p) ==
    stats' = [stats EXCEPT ![p].total = @ + 1, ![p].accepted = @ + 1]

RecordReject(p, reason) ==
    stats' = [stats EXCEPT ![p].total = @ + 1, ![p].rejected = @ + 1,
                           ![p].by[reason] = @ + 1]

Admit(p) ==
    /\ RecordAccept(p)
    /\ PGoto(p, "submit")
    /\ UNCHANGED <<vars, todo>>

Reject(p, reason) ==
    /\ RecordReject(p, reason)
    /\ NextRequest(p)
    /\ UNCHANGED vars

AskNext(p, next) ==
    /\ PGoto(p, next)
    /\ UNCHANGED <<vars, todo, stats>>

EvaluateRequest(p) ==
    /\ ppc[p] = "evaluate"
    /\ IF Request(p).priority < MinPriority THEN Reject(p, "low_priority")
       ELSE IF Request(p).confidence < MinConfidence THEN Reject(p, "low_confidence")
       ELSE AskNext(p, "ask_queued")

(* Mutants: the two duplicate checks in the other order; only the first.   *)
AskedInOtherOrder == <<"RUNNING", "QUEUED">>
AskedOnce == <<"QUEUED", "QUEUED">>

(* The order of the two duplicate checks.                                  *)
Asked == <<"QUEUED", "RUNNING">>

DuplicateOf(status) == IF status = "QUEUED" THEN "duplicate_queued" ELSE "duplicate_running"

AskStatus(p, status, next) ==
    /\ LockFree
    /\ IF states[Request(p).expert] = status THEN Reject(p, DuplicateOf(status))
                                             ELSE AskNext(p, next)

(* task.expert_id in engine.queued_tasks                                   *)
AskQueued(p) == ppc[p] = "ask_queued" /\ AskStatus(p, Asked[1], "ask_running")

(* task.expert_id in engine.running_tasks                                  *)
AskRunning(p) == ppc[p] = "ask_running" /\ AskStatus(p, Asked[2], "ask_full")

(* Mutant: a full queue is not looked at.                                  *)
AskNothing(p) == ppc[p] = "ask_full" /\ Admit(p)

(* engine.queue_full                                                       *)
AskFull(p) ==
    /\ ppc[p] = "ask_full"
    /\ IF IsFull THEN Reject(p, "queue_full") ELSE Admit(p)

SubmitAccepted(p) ==
    /\ ppc[p] = "submit"
    /\ SubmitPut(TaskOf(Request(p)))
    /\ PGoto(p, "submitting")
    /\ UNCHANGED <<todo, stats>>

SubmitReturns(p) ==
    /\ ppc[p] = "submitting"
    /\ SubmitMark
    /\ NextRequest(p)
    /\ UNCHANGED stats

(* submit() returns False: what was admitted is dropped.                   *)
SubmitRefused(p) ==
    /\ ppc[p] = "submit"
    /\ LockFree
    /\ ~Accepting \/ ~CanPut(TaskOf(Request(p)))
    /\ NextRequest(p)
    /\ UNCHANGED <<vars, stats>>

Call(p) ==
    \/ Process(p)
    \/ EvaluateRequest(p)
    \/ AskQueued(p)
    \/ AskRunning(p)
    \/ AskFull(p)
    \/ SubmitAccepted(p)
    \/ SubmitReturns(p)
    \/ SubmitRefused(p)

(* Besides process(), a client may cancel; nothing in the package clears   *)
(* the task states while the engine runs.                                  *)
PipelineNext ==
    \/ \E p \in Callers : Call(p)
    \/ /\ \/ \E c \in Controllers : Control(c)
          \/ \E w \in Workers : Work(w)
          \/ \E e \in Experts : Cancel(e)
       /\ UNCHANGED callerVars

PipelineSpec == PipelineInit /\ [][PipelineNext]_pipelineVars

PipelineFairness ==
    /\ \A p \in Callers : WF_pipelineVars(Call(p) /\ ppc[p] # "idle")
    /\ \A w \in Workers : WF_pipelineVars(Work(w) /\ UNCHANGED callerVars)
    /\ \A c \in Controllers : WF_pipelineVars(StopStep(c) /\ UNCHANGED callerVars)

PipelineFairSpec == PipelineSpec /\ PipelineFairness
-----------------------------------------------------------------------------
(* The types of the callers' variables; TypeOK has the engine's.           *)
PipelineTypeOK ==
    /\ ppc \in [Callers -> {"idle", "evaluate", "ask_queued", "ask_running", "ask_full",
                            "submit", "submitting"}]
    /\ todo \in [Callers -> Seq({r \in Requests : TaskOf(r) \in Tasks})]
    /\ \A p \in Callers : ppc[p] # "idle" => todo[p] # <<>>

(* The tasks of expert e that wait or that a worker is still to finish.    *)
InFlight(e) ==
    EntriesOf(e) \cup {task[w] : w \in {v \in Workers :
                          wpc[v] \in {"got"} \cup Executing /\ task[v].expert = e}}

(* One pipeline never has two tasks of an expert under way, although the   *)
(* admission reads the statuses in two steps while workers move them from  *)
(* QUEUED to RUNNING (admission.py:77-87; test_admission.py checks the two *)
(* reasons one at a time): the order of the two questions matters.         *)
NoDuplicateWork == \A e \in Experts : Cardinality(InFlight(e)) <= 1

(* With one pipeline an admitted task is not refused for its own sake: the *)
(* engine refuses it only once stop() was called, so accepted counts what  *)
(* was submitted.                                                          *)
AdmittedIsAccepted ==
    \A p \in Callers :
        ppc[p] = "submit" /\ Accepting => CanPut(TaskOf(Request(p)))

(* With one pipeline the status of an expert follows the life of its task. *)
StatusFollowsLife ==
    [][\A e \in Experts :
          \/ states'[e] = states[e]
          \/ states[e] \in FinalStatus \cup {NoStatus} /\ states'[e] = "QUEUED"
          \/ states[e] = "QUEUED" /\ states'[e] \in {"RUNNING", "CANCELLED"}
          \/ states[e] = "RUNNING" /\ states'[e] \in FinalStatus]_pipelineVars

(* process() returns, whatever the workers and the controller do.          *)
ProcessReturns == \A p \in Callers : ppc[p] # "idle" ~> ppc[p] = "idle"
=============================================================================
