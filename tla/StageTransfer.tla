---------------------------- MODULE StageTransfer ----------------------------
(***************************************************************************)
(* What the engine's transfer executor does to the stores while it         *)
(* executes a task: the stage chain of prefetch/stages.py, the handlers    *)
(* NVMe -> RAM and RAM -> GPU of prefetch/storage.py, and the stores of    *)
(* storage/nvme.py (one pickle file per expert or, without a root_dir, a   *)
(* dict), ram.py and gpu.py.  PrefetchEngine's Execute is the outcome;     *)
(* here is the way.                                                        *)
(*                                                                         *)
(* The workers of the engine run handlers at the same time, nothing is     *)
(* locked, and the owner of the stores (the thread that runs the model)    *)
(* writes, removes, loads and unloads experts meanwhile.  One dict         *)
(* operation is one step; a file is written in two, and a task holds what  *)
(* it has read between two steps.  pickle.load() is one step: it falls     *)
(* before, between or after the two steps of a writer.  Every task of the  *)
(* pipeline is NVME -> RAM, so the default handler is never reached.       *)
(***************************************************************************)
EXTENDS Integers, FiniteSets

CONSTANTS Experts, Workers,
          MaxVersion,     (* bound: how many puts begin, of all experts      *)
          HandlersFail,   (* whether I/O, memory or CUDA may raise          *)
          Absent, Torn,   (* no file; a file without its end                *)
          None            (* no record, no expert                           *)

ASSUME TransferAssumption ==
       /\ MaxVersion \in Nat
       /\ HandlersFail \in BOOLEAN
       /\ None \notin Experts

VARIABLES gpuStore,   (* the executor was given a GPU store: the chain is   *)
                      (* registered, not the first handler alone            *)
          rootDir,    (* the NVMe store has a root_dir                      *)
          file,       (* the file of each expert, or its record in the dict *)
          ram, gpu,   (* _records of the two stores                         *)
          cancelled,  (* what should_cancel() returns                       *)
          wpc,        (* where each worker is in the chain                  *)
          job,        (* the expert of its task                             *)
          data,       (* the payload it has read                            *)
          met,        (* history: another task of its expert ran meanwhile  *)
          before,     (* history: what was written for its expert when its  *)
                      (* task began                                         *)
          oldest,     (* history: what was written when the oldest of the   *)
                      (* tasks began that its task found under way          *)
          wrote,      (* history: the stores its task has written           *)
          ending,     (* how its last task ended                            *)
          writing,    (* the expert whose put() the owner is in             *)
          moving,     (* the load() or unload() the owner is in             *)
          version,    (* history: how many puts have begun; the number of   *)
                      (* a put is the version of what it writes             *)
          written     (* history: the payloads written to their end         *)

chainVars == <<wpc, job, data, met, before, oldest, wrote, ending>>
ownerVars == <<writing, moving, version, written>>
setup == <<gpuStore, rootDir>>
vars == <<setup, file, ram, gpu, cancelled, chainVars, ownerVars>>

Payload == [expert : Experts, version : 1 .. MaxVersion]
Place == {"ram", "gpu"}
Record == [payload : Payload, location : Place, device : Place]
(* The constants for nothing are no records.                               *)
ASSUME NothingAssumption ==
       /\ None \notin Record /\ None \notin Payload
       /\ Absent \notin Payload /\ Torn \notin Payload /\ Absent # Torn

NotMoving == [expert |-> None, to |-> "gpu", same |-> FALSE]

Current(e) == [expert |-> e, version |-> version]
RamRecord(p) == [payload |-> p, location |-> "ram", device |-> "ram"]
GpuRecord(p) == [payload |-> p, location |-> "gpu", device |-> "gpu"]

Empty == [e \in Experts |-> None]
NoTask == [w \in Workers |-> None]
NobodyMet == [w \in Workers |-> FALSE]
NothingBefore == [w \in Workers |-> {}]
AllIdle == [w \in Workers |-> "idle"]
NothingWrote == [w \in Workers |-> {}]
NothingEnded == [w \in Workers |-> "none"]

Init ==
    /\ gpuStore \in BOOLEAN /\ rootDir \in BOOLEAN
    /\ file = [e \in Experts |-> Absent]
    /\ ram = Empty /\ gpu = Empty /\ cancelled = FALSE
    /\ wpc = AllIdle /\ job = NoTask /\ data = NoTask
    /\ met = NobodyMet /\ before = NothingBefore /\ oldest = NothingBefore
    /\ wrote = NothingWrote /\ ending = NothingEnded
    /\ writing = None /\ moving = NotMoving
    /\ version = 0
    /\ written = {}
-----------------------------------------------------------------------------
(* The chain.                                                              *)

Goto(w, next) ==
    /\ wpc' = [wpc EXCEPT ![w] = next]
    /\ UNCHANGED <<setup, job, met, before, oldest, ending, cancelled, ownerVars>>

Ends(w, status) ==
    /\ wpc' = [wpc EXCEPT ![w] = "idle"]
    /\ job' = [job EXCEPT ![w] = None]
    /\ data' = [data EXCEPT ![w] = None]
    /\ met' = [met EXCEPT ![w] = FALSE]
    /\ before' = [before EXCEPT ![w] = {}]
    /\ oldest' = [oldest EXCEPT ![w] = {}]
    /\ ending' = [ending EXCEPT ![w] = status]
    /\ UNCHANGED <<setup, cancelled, ownerVars>>

WrittenFor(e) == {p \in written : p.expert = e}

(* With a GPU store the route is the chain, else the first handler alone.  *)
Begin(w, e) ==
    /\ wpc[w] = "idle"
    /\ wpc' = [wpc EXCEPT ![w] = IF gpuStore THEN "stage1" ELSE "exists"]
    /\ job' = [job EXCEPT ![w] = e]
    /\ met' = [v \in Workers |-> IF v = w THEN \E u \in Workers : job[u] = e
                                          ELSE met[v] \/ job[v] = e]
    /\ before' = [before EXCEPT ![w] = WrittenFor(e)]
    /\ oldest' = [oldest EXCEPT ![w] =
                     {p \in WrittenFor(e) : \A u \in Workers : job[u] = e => p \in before[u]}]
    /\ wrote' = [wrote EXCEPT ![w] = {}]
    /\ ending' = [ending EXCEPT ![w] = "none"]
    /\ UNCHANGED <<setup, file, ram, gpu, cancelled, data, ownerVars>>

(* Mutant: the second stage is checked when it is over.                    *)
CancelAtAnyPoint(w) ==
    /\ wpc[w] \in {"stage1", "stage2"}
    /\ \/ cancelled /\ wpc[w] = "stage1" /\ Ends(w, "CANCELLED") /\ UNCHANGED <<gpu, wrote>>
       \/ /\ cancelled /\ wpc[w] = "stage2" /\ ram[job[w]] # None
          /\ gpu' = [gpu EXCEPT ![job[w]] = GpuRecord(ram[job[w]].payload)]
          /\ wrote' = [wrote EXCEPT ![w] = @ \cup {"gpu"}]
          /\ Ends(w, "CANCELLED")
       \/ /\ ~cancelled /\ Goto(w, IF wpc[w] = "stage1" THEN "exists" ELSE "fetch")
          /\ UNCHANGED <<gpu, data, wrote>>
    /\ UNCHANGED <<file, ram>>

(* should_cancel() is asked before each stage, and only there.             *)
CheckCancelled(w) ==
    /\ wpc[w] \in {"stage1", "stage2"}
    /\ \/ cancelled /\ Ends(w, "CANCELLED")
       \/ ~cancelled /\ Goto(w, IF wpc[w] = "stage1" THEN "exists" ELSE "fetch") /\ UNCHANGED data
    /\ UNCHANGED <<file, ram, gpu, wrote>>

(* Stage one: NVMeExpertStore.get() looks for the file, or takes what the  *)
(* dict has ...                                                            *)
FindFile(w) ==
    /\ wpc[w] = "exists"
    /\ \/ file[job[w]] = Absent /\ Ends(w, "FAILED")
       \/ file[job[w]] # Absent /\ rootDir /\ Goto(w, "load") /\ UNCHANGED data
       \/ /\ file[job[w]] # Absent /\ ~rootDir
          /\ data' = [data EXCEPT ![w] = file[job[w]]]
          /\ Goto(w, "store")
    /\ UNCHANGED <<file, ram, gpu, wrote>>

(* Mutant: what can be read of a file is taken for the expert.             *)
LoadTorn(w) ==
    /\ wpc[w] = "load"
    /\ \/ file[job[w]] = Absent /\ Ends(w, "FAILED")
       \/ /\ file[job[w]] # Absent
          /\ data' = [data EXCEPT ![w] = IF file[job[w]] = Torn THEN Current(job[w]) ELSE file[job[w]]]
          /\ Goto(w, "store")
    /\ UNCHANGED <<file, ram, gpu, wrote>>

(* ... and reads it: gone or cut short meanwhile, it raises.               *)
LoadFile(w) ==
    /\ wpc[w] = "load"
    /\ \/ file[job[w]] \in {Absent, Torn} /\ Ends(w, "FAILED")
       \/ /\ file[job[w]] \notin {Absent, Torn}
          /\ data' = [data EXCEPT ![w] = file[job[w]]]
          /\ Goto(w, "store")
    /\ UNCHANGED <<file, ram, gpu, wrote>>

(* Mutant: an expert that RAM has is not stored again.                     *)
StoreIfMissing(w) ==
    /\ wpc[w] = "store"
    /\ ram' = IF ram[job[w]] = None THEN [ram EXCEPT ![job[w]] = RamRecord(data[w])] ELSE ram
    /\ wrote' = [wrote EXCEPT ![w] = @ \cup {"ram"}]
    /\ \/ gpuStore /\ Goto(w, "stage2") /\ data' = [data EXCEPT ![w] = None]
       \/ ~gpuStore /\ Ends(w, "COMPLETED")
    /\ UNCHANGED <<file, gpu>>

StoreInRam(w) ==
    /\ wpc[w] = "store"
    /\ ram' = [ram EXCEPT ![job[w]] = RamRecord(data[w])]
    /\ wrote' = [wrote EXCEPT ![w] = @ \cup {"ram"}]
    /\ \/ gpuStore /\ Goto(w, "stage2") /\ data' = [data EXCEPT ![w] = None]
       \/ ~gpuStore /\ Ends(w, "COMPLETED")
    /\ UNCHANGED <<file, gpu>>

(* Stage two: the record RAM has by now, and its payload on the GPU in a   *)
(* record of its own.                                                      *)
FetchFromRam(w) ==
    /\ wpc[w] = "fetch"
    /\ \/ ram[job[w]] = None /\ Ends(w, "FAILED")
       \/ /\ ram[job[w]] # None
          /\ data' = [data EXCEPT ![w] = ram[job[w]].payload]
          /\ Goto(w, "place")
    /\ UNCHANGED <<file, ram, gpu, wrote>>

(* The owner's load() or unload() goes on with the record it has found,    *)
(* which is no longer that of the store.                                   *)
Replaced(e) == moving' = IF moving.expert = e THEN [moving EXCEPT !.same = FALSE] ELSE moving

Completes(w) ==
    /\ wpc' = [wpc EXCEPT ![w] = "idle"]
    /\ job' = [job EXCEPT ![w] = None]
    /\ data' = [data EXCEPT ![w] = None]
    /\ met' = [met EXCEPT ![w] = FALSE]
    /\ before' = [before EXCEPT ![w] = {}]
    /\ oldest' = [oldest EXCEPT ![w] = {}]
    /\ ending' = [ending EXCEPT ![w] = "COMPLETED"]
    /\ wrote' = [wrote EXCEPT ![w] = @ \cup {"gpu"}]
    /\ UNCHANGED <<setup, file, cancelled, writing, version, written>>

(* Mutant: the GPU store gets the record of the RAM store, and makes it    *)
(* its own.                                                                *)
PlaceSharedRecord(w) ==
    /\ wpc[w] = "place"
    /\ gpu' = [gpu EXCEPT ![job[w]] = GpuRecord(data[w])]
    /\ ram' = IF ram[job[w]] = None THEN ram ELSE [ram EXCEPT ![job[w]] = GpuRecord(@.payload)]
    /\ Replaced(job[w])
    /\ Completes(w)

PlaceOnGpu(w) ==
    /\ wpc[w] = "place"
    /\ gpu' = [gpu EXCEPT ![job[w]] = GpuRecord(data[w])]
    /\ Replaced(job[w])
    /\ Completes(w)
    /\ UNCHANGED ram

(* Reading, storing or moving raises.                                      *)
HandlerRaises(w) ==
    /\ HandlersFail
    /\ wpc[w] \in {"load", "store", "fetch", "place"}
    /\ Ends(w, "FAILED")
    /\ UNCHANGED <<file, ram, gpu, wrote>>
-----------------------------------------------------------------------------
(* The owner.                                                              *)

Cancel ==
    /\ cancelled' = ~cancelled
    /\ UNCHANGED <<setup, file, ram, gpu, chainVars, ownerVars>>

OwnerFree == writing = None /\ moving = NotMoving

(* NVMeExpertStore.put() without a root_dir.                               *)
PutInMemory(e) ==
    /\ OwnerFree /\ ~rootDir
    /\ version < MaxVersion
    /\ version' = version + 1
    /\ file' = [file EXCEPT ![e] = [expert |-> e, version |-> version + 1]]
    /\ written' = written \cup {[expert |-> e, version |-> version + 1]}
    /\ UNCHANGED <<setup, ram, gpu, cancelled, chainVars, writing, moving>>

(* NVMeExpertStore.put(): open("wb") empties the file, pickle.dump() and   *)
(* the close fill it.                                                      *)
PutBegins(e) ==
    /\ OwnerFree /\ rootDir
    /\ version < MaxVersion
    /\ file' = [file EXCEPT ![e] = Torn]
    /\ version' = version + 1
    /\ writing' = e
    /\ UNCHANGED <<setup, ram, gpu, cancelled, chainVars, moving, written>>

PutEnds ==
    /\ writing # None
    /\ file' = [file EXCEPT ![writing] = Current(writing)]
    /\ written' = written \cup {Current(writing)}
    /\ writing' = None
    /\ UNCHANGED <<setup, ram, gpu, cancelled, chainVars, moving, version>>

Remove(e) ==
    /\ OwnerFree
    /\ \/ file' = [file EXCEPT ![e] = Absent] /\ UNCHANGED <<ram, gpu>>
       \/ ram' = [ram EXCEPT ![e] = None] /\ UNCHANGED <<file, gpu>>
       \/ gpu' = [gpu EXCEPT ![e] = None] /\ UNCHANGED <<file, ram>>
    /\ UNCHANGED <<setup, cancelled, chainVars, ownerVars>>

(* GPUExpertStore.load(), which is prefetch() too, and unload(): the       *)
(* payload, then the location, of the record found first.                  *)
MovePayload(e, place) ==
    /\ OwnerFree
    /\ gpu[e] # None
    /\ gpu' = [gpu EXCEPT ![e].device = place]
    /\ moving' = [expert |-> e, to |-> place, same |-> TRUE]
    /\ UNCHANGED <<setup, file, ram, cancelled, chainVars, writing, version, written>>

(* Mutant: the record is looked up again for its location.                 *)
MoveLocationOfExpert ==
    /\ moving.expert # None
    /\ gpu' = [gpu EXCEPT ![moving.expert].location = moving.to]
    /\ moving' = NotMoving
    /\ UNCHANGED <<setup, file, ram, cancelled, chainVars, writing, version, written>>

MoveLocation ==
    /\ moving.expert # None
    /\ gpu' = IF moving.same THEN [gpu EXCEPT ![moving.expert].location = moving.to] ELSE gpu
    /\ moving' = NotMoving
    /\ UNCHANGED <<setup, file, ram, cancelled, chainVars, writing, version, written>>

(* The process ends and is started again: only files are left.             *)
Crash ==
    /\ file' = IF rootDir THEN file ELSE [e \in Experts |-> Absent]
    /\ ram' = Empty /\ gpu' = Empty /\ cancelled' = FALSE
    /\ wpc' = AllIdle /\ job' = NoTask /\ data' = NoTask
    /\ met' = NobodyMet /\ before' = NothingBefore /\ oldest' = NothingBefore
    /\ wrote' = NothingWrote /\ ending' = NothingEnded
    /\ writing' = None /\ moving' = NotMoving
    /\ UNCHANGED <<setup, version, written>>
-----------------------------------------------------------------------------
Step(w) ==
    \/ CheckCancelled(w)
    \/ FindFile(w)
    \/ LoadFile(w)
    \/ StoreInRam(w)
    \/ FetchFromRam(w)
    \/ PlaceOnGpu(w)

Owner ==
    \/ Cancel
    \/ PutEnds
    \/ \E e \in Experts : PutInMemory(e) \/ PutBegins(e) \/ Remove(e) \/ \E p \in Place : MovePayload(e, p)
    \/ MoveLocation

Next ==
    \/ \E w \in Workers : Step(w) \/ HandlerRaises(w) \/ \E e \in Experts : Begin(w, e)
    \/ Owner
    \/ Crash

Spec == Init /\ [][Next]_vars
-----------------------------------------------------------------------------
TypeOK ==
    /\ gpuStore \in BOOLEAN /\ rootDir \in BOOLEAN
    /\ file \in [Experts -> Payload \cup {Absent, Torn}]
    /\ ram \in [Experts -> Record \cup {None}]
    /\ gpu \in [Experts -> Record \cup {None}]
    /\ cancelled \in BOOLEAN
    /\ wpc \in [Workers -> {"idle", "stage1", "exists", "load", "store", "stage2", "fetch", "place"}]
    /\ job \in [Workers -> Experts \cup {None}]
    /\ data \in [Workers -> Payload \cup {None}]
    /\ met \in [Workers -> BOOLEAN]
    /\ before \in [Workers -> SUBSET Payload]
    /\ oldest \in [Workers -> SUBSET Payload]
    /\ wrote \in [Workers -> SUBSET Place]
    /\ ending \in [Workers -> {"none", "COMPLETED", "CANCELLED", "FAILED"}]
    /\ writing \in Experts \cup {None}
    /\ moving \in [expert : Experts \cup {None}, to : Place, same : BOOLEAN]
    /\ version \in 0 .. MaxVersion
    /\ written \subseteq Payload

(* RAM and GPU only ever hold payloads that were put for that expert and   *)
(* written to their end: not those of another worker's expert, not a file  *)
(* a writer is still in, not one a crash cut short (nvme.py:46-70).        *)
GenuinePayload ==
    \A e \in Experts : \A r \in {ram[e], gpu[e]} :
        r # None => r.payload \in written /\ r.payload.expert = e

(* The outcome the engine records tells which stores the task has written: *)
(* COMPLETED all of its chain, the other two a beginning of it, and        *)
(* CANCELLED never the last ("cancelled at a stage boundary",              *)
(* stages.py:14, 52-71).                                                   *)
Chain == IF gpuStore THEN {"ram", "gpu"} ELSE {"ram"}

OutcomeTellsStages ==
    \A w \in Workers :
        /\ "gpu" \in wrote[w] => "ram" \in wrote[w]
        /\ ending[w] = "COMPLETED" => wrote[w] = Chain
        /\ ending[w] \in {"CANCELLED", "FAILED"} => wrote[w] # Chain

(* A record's location tells where its payload is: a RAM record is left as *)
(* it was when the GPU store gets one of its own and when that one is      *)
(* moved; a GPU record agrees except while load() or unload() is between   *)
(* the two, also when a worker put a new record under the mover's hands    *)
(* (storage.py:64-69, 88-94, gpu.py:59-94).                                *)
LocationTellsDevice ==
    \A e \in Experts :
        /\ ram[e] # None => ram[e] = RamRecord(ram[e].payload)
        /\ gpu[e] # None /\ ~(moving.expert = e /\ moving.same) =>
              gpu[e].location = gpu[e].device

NotStale(old, new, payloads) ==
    new \notin {old, None} => \A p \in payloads : p.version <= new.payload.version

NotOlder(old, new) ==
    old # None /\ new # None => old.payload.version <= new.payload.version

(* Tasks of one expert that overlap may put an older version over a newer  *)
(* one, in RAM and then on the GPU.  But what a task puts into a store is  *)
(* never older than what had been written before it began, or before the   *)
(* oldest of the tasks it found under way: each of them reads the file     *)
(* after its beginning, and RAM has what one of them has read.  And a task *)
(* that was the only one of its expert from its beginning to its end never *)
(* puts an older version over a newer one, whatever tasks that ran         *)
(* together left in the stores (storage.py:59-61, 80-94).                  *)
NeverOlder ==
    [][\A w \in Workers :
          wpc[w] \in {"store", "place"} /\ wpc'[w] # wpc[w] =>
              /\ NotStale(ram[job[w]], ram'[job[w]], oldest[w])
              /\ NotStale(gpu[job[w]], gpu'[job[w]], oldest[w])
              /\ ~met[w] => /\ NotOlder(ram[job[w]], ram'[job[w]])
                            /\ NotOlder(gpu[job[w]], gpu'[job[w]])]_vars
=============================================================================
