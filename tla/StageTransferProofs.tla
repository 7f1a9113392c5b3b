------------------------- MODULE StageTransferProofs -------------------------
(***************************************************************************)
(* What the stores hold and what outcomes tell, for any number of experts, *)
(* workers and puts.                                                       *)
(***************************************************************************)
EXTENDS StageTransfer, TLAPS

(* A file is missing, cut short, or what a put() wrote for its expert; a   *)
(* record of the dict is never cut short.                                  *)
FilesGenuine ==
    \A e \in Experts :
        /\ file[e] \notin {Absent, Torn} => file[e] \in written /\ file[e].expert = e
        /\ file[e] = Torn => rootDir

(* So is what a worker has read and is about to store.                     *)
HandsGenuine ==
    \A w \in Workers :
        /\ wpc[w] # "idle" => job[w] \in Experts
        /\ wpc[w] \in {"store", "place"} => data[w] \in written /\ data[w].expert = job[w]

(* The owner is in a put() that has a number; the record it moves is there *)
(* and its payload has arrived.                                            *)
OwnerKnows ==
    /\ writing # None => version > 0
    /\ moving.expert # None /\ moving.same =>
          gpu[moving.expert] # None /\ gpu[moving.expert].device = moving.to

(* How far a task has come is what it has written.                         *)
WroteSoFar ==
    \A w \in Workers :
        /\ wpc[w] \in {"stage1", "exists", "load", "store"} => wrote[w] = {}
        /\ wpc[w] \in {"stage2", "fetch", "place"} => wrote[w] = {"ram"} /\ gpuStore
        /\ wpc[w] # "idle" => ending[w] = "none"

ContentInv == TypeOK /\ FilesGenuine /\ HandsGenuine /\ GenuinePayload /\ OwnerKnows /\ LocationTellsDevice
OutcomeInv == WroteSoFar /\ OutcomeTellsStages

-----------------------------------------------------------------------------
(* Payloads and records.                                                   *)

LEMMA PayloadFacts ==
    ASSUME NEW e \in Experts, NEW n \in 1 .. MaxVersion
    PROVE  LET p == [expert |-> e, version |-> n] IN
           p \in Payload /\ p.expert = e /\ p \notin {Absent, Torn}
BY NothingAssumption DEF Payload

LEMMA RecordFacts ==
    ASSUME NEW p \in Payload
    PROVE  /\ RamRecord(p) \in Record /\ RamRecord(p) # None
           /\ RamRecord(p).payload = p
           /\ RamRecord(p).location = "ram" /\ RamRecord(p).device = "ram"
           /\ GpuRecord(p) \in Record /\ GpuRecord(p) # None
           /\ GpuRecord(p).payload = p
           /\ GpuRecord(p).location = "gpu" /\ GpuRecord(p).device = "gpu"
BY NothingAssumption DEF RamRecord, GpuRecord, Record, Place

LEMMA PayloadOf ==
    ASSUME NEW r \in Record
    PROVE  r.payload \in Payload /\ r.location \in Place /\ r.device \in Place
BY DEF Record

LEMMA MovedRecord ==
    ASSUME NEW r \in Record, NEW place \in Place
    PROVE  /\ [r EXCEPT !.device = place] \in Record
           /\ [r EXCEPT !.device = place] # None
           /\ [r EXCEPT !.device = place].payload = r.payload
           /\ [r EXCEPT !.device = place].device = place
           /\ [r EXCEPT !.location = place] \in Record
           /\ [r EXCEPT !.location = place] # None
           /\ [r EXCEPT !.location = place].payload = r.payload
           /\ [r EXCEPT !.location = place].location = place
           /\ [r EXCEPT !.location = place].device = r.device
BY NothingAssumption DEF Record, Place
-----------------------------------------------------------------------------
LEMMA InitInv == Init => ContentInv /\ OutcomeInv
<1> SUFFICES ASSUME Init
             PROVE  ContentInv /\ OutcomeInv
  OBVIOUS
<1> USE DEF Init, Empty, NoTask, NobodyMet, AllIdle, NothingBefore, NothingWrote, NothingEnded, NotMoving
<1>1. TypeOK
  <2>1. moving \in [expert : Experts \cup {None}, to : Place, same : BOOLEAN]
    BY DEF Place
  <2>2. version \in 0 .. MaxVersion
    BY TransferAssumption
  <2> QED
    BY <2>1, <2>2 DEF TypeOK
<1>2. FilesGenuine /\ HandsGenuine /\ GenuinePayload
  BY NothingAssumption DEF FilesGenuine, HandsGenuine, GenuinePayload
<1>3. OwnerKnows /\ LocationTellsDevice
  BY DEF OwnerKnows, LocationTellsDevice
<1>4. WroteSoFar /\ OutcomeTellsStages
  BY DEF WroteSoFar, OutcomeTellsStages, Chain
<1> QED
  BY <1>1, <1>2, <1>3, <1>4 DEF ContentInv, OutcomeInv

(* A step of a worker that leaves the stores and the owner alone.          *)
LEMMA WorkerStepKeepsContent ==
    ASSUME ContentInv, NEW w \in Workers,
           CheckCancelled(w) \/ FindFile(w) \/ LoadFile(w) \/ FetchFromRam(w) \/ HandlerRaises(w)
    PROVE  ContentInv'
<1> USE DEF ContentInv
<1>1. UNCHANGED <<gpuStore, rootDir, file, ram, gpu, cancelled, writing, moving, version, written, wrote>>
  BY DEF CheckCancelled, FindFile, LoadFile, FetchFromRam, HandlerRaises, Ends, Goto, ownerVars, setup
<1>2. PICK next, d : /\ wpc' = [wpc EXCEPT ![w] = next]
                     /\ data' = [data EXCEPT ![w] = d]
                     /\ next \in {"idle", "exists", "load", "store", "fetch", "place"}
                     /\ d \in Payload \cup {None}
                     /\ next \in {"store", "place"} => d \in written /\ d.expert = job[w]
                     /\ next # "idle" => wpc[w] # "idle" /\ job' = job
                     /\ next = "idle" => job' = [job EXCEPT ![w] = None]
  <2>1. CASE CheckCancelled(w)
    BY <2>1 DEF CheckCancelled, Ends, Goto, TypeOK
  <2>2. CASE FindFile(w)
    BY <2>2 DEF FindFile, Ends, Goto, TypeOK, FilesGenuine, HandsGenuine
  <2>3. CASE LoadFile(w)
    BY <2>3 DEF LoadFile, Ends, Goto, TypeOK, FilesGenuine, HandsGenuine
  <2>4. CASE FetchFromRam(w)
    BY <2>4, PayloadOf DEF FetchFromRam, Ends, Goto, TypeOK, GenuinePayload, HandsGenuine
  <2>5. CASE HandlerRaises(w)
    BY <2>5 DEF HandlerRaises, Ends, TypeOK
  <2> QED
    BY <2>1, <2>2, <2>3, <2>4, <2>5
<1>3. /\ met' \in [Workers -> BOOLEAN] /\ ending' \in [Workers -> {"none", "COMPLETED", "CANCELLED", "FAILED"}]
      /\ before' \in [Workers -> SUBSET Payload] /\ oldest' \in [Workers -> SUBSET Payload]
  BY DEF CheckCancelled, FindFile, LoadFile, FetchFromRam, HandlerRaises, Ends, Goto, TypeOK
<1>4. TypeOK'
  BY <1>1, <1>2, <1>3 DEF TypeOK
<1>5. FilesGenuine' /\ GenuinePayload' /\ OwnerKnows' /\ LocationTellsDevice'
  BY <1>1 DEF FilesGenuine, GenuinePayload, OwnerKnows, LocationTellsDevice, RamRecord
<1>6. HandsGenuine'
  BY <1>1, <1>2 DEF HandsGenuine, TypeOK
<1> QED
  BY <1>4, <1>5, <1>6

LEMMA StoreKeepsContent ==
    ASSUME ContentInv, NEW w \in Workers, StoreInRam(w)
    PROVE  ContentInv'
<1> USE DEF ContentInv
<1>1. /\ wpc[w] = "store"
      /\ ram' = [ram EXCEPT ![job[w]] = RamRecord(data[w])]
      /\ UNCHANGED <<gpuStore, rootDir, file, gpu, cancelled, writing, moving, version, written>>
  BY DEF StoreInRam, Ends, Goto, ownerVars, setup
<1>2. job[w] \in Experts /\ data[w] \in written /\ data[w].expert = job[w] /\ data[w] \in Payload
  BY <1>1 DEF HandsGenuine, TypeOK
<1>3. /\ RamRecord(data[w]) \in Record /\ RamRecord(data[w]) # None
      /\ RamRecord(data[w]).payload = data[w]
  BY <1>2, RecordFacts
<1>4. PICK next : /\ wpc' = [wpc EXCEPT ![w] = next] /\ next \in {"idle", "stage2"}
                  /\ data' = [data EXCEPT ![w] = None]
                  /\ next = "stage2" => job' = job
                  /\ next = "idle" => job' = [job EXCEPT ![w] = None]
  BY DEF StoreInRam, Ends, Goto
<1>5. TypeOK'
  <2>1. /\ met' \in [Workers -> BOOLEAN] /\ ending' \in [Workers -> {"none", "COMPLETED", "CANCELLED", "FAILED"}]
        /\ before' \in [Workers -> SUBSET Payload] /\ oldest' \in [Workers -> SUBSET Payload]
    BY DEF StoreInRam, Ends, Goto, TypeOK
  <2>2. wrote' \in [Workers -> SUBSET Place]
    BY DEF StoreInRam, TypeOK, Place
  <2> QED
    BY <1>1, <1>2, <1>3, <1>4, <2>1, <2>2 DEF TypeOK
<1>6. FilesGenuine' /\ OwnerKnows'
  BY <1>1 DEF FilesGenuine, OwnerKnows
<1>7. GenuinePayload' /\ LocationTellsDevice'
  BY <1>1, <1>2, <1>3 DEF GenuinePayload, LocationTellsDevice, TypeOK
<1>8. HandsGenuine'
  BY <1>1, <1>4 DEF HandsGenuine, TypeOK
<1> QED
  BY <1>5, <1>6, <1>7, <1>8

LEMMA PlaceKeepsContent ==
    ASSUME ContentInv, NEW w \in Workers, PlaceOnGpu(w)
    PROVE  ContentInv'
<1> USE DEF ContentInv
<1>1. /\ wpc[w] = "place"
      /\ gpu' = [gpu EXCEPT ![job[w]] = GpuRecord(data[w])]
      /\ UNCHANGED <<gpuStore, rootDir, file, ram, cancelled, writing, version, written>>
      /\ wpc' = [wpc EXCEPT ![w] = "idle"]
      /\ data' = [data EXCEPT ![w] = None]
      /\ job' = [job EXCEPT ![w] = None]
  BY DEF PlaceOnGpu, Completes, setup
<1>2. job[w] \in Experts /\ data[w] \in written /\ data[w].expert = job[w] /\ data[w] \in Payload
  BY <1>1 DEF HandsGenuine, TypeOK
<1>3. /\ GpuRecord(data[w]) \in Record /\ GpuRecord(data[w]) # None
      /\ GpuRecord(data[w]).payload = data[w]
      /\ GpuRecord(data[w]).location = GpuRecord(data[w]).device
  BY <1>2, RecordFacts
<1>4. /\ moving' \in [expert : Experts \cup {None}, to : Place, same : BOOLEAN]
      /\ moving'.expert = moving.expert /\ moving'.to = moving.to
      /\ moving'.same => moving.same /\ moving.expert # job[w]
      /\ moving.expert # job[w] => moving' = moving
  BY DEF PlaceOnGpu, Replaced, TypeOK
<1>5. TypeOK'
  <2>1. /\ met' \in [Workers -> BOOLEAN] /\ ending' \in [Workers -> {"none", "COMPLETED", "CANCELLED", "FAILED"}]
        /\ before' \in [Workers -> SUBSET Payload] /\ oldest' \in [Workers -> SUBSET Payload]
    BY DEF PlaceOnGpu, Completes, TypeOK
  <2>2. wrote' \in [Workers -> SUBSET Place]
    BY DEF PlaceOnGpu, Completes, TypeOK, Place
  <2> QED
    BY <1>1, <1>2, <1>3, <1>4, <2>1, <2>2 DEF TypeOK
<1>6. FilesGenuine'
  BY <1>1 DEF FilesGenuine
<1>7. GenuinePayload' /\ HandsGenuine'
  BY <1>1, <1>2, <1>3 DEF GenuinePayload, HandsGenuine, TypeOK
<1>8. OwnerKnows'
  BY <1>1, <1>4 DEF OwnerKnows, TypeOK
<1>9. LocationTellsDevice'
  BY <1>1, <1>2, <1>3, <1>4 DEF LocationTellsDevice, TypeOK
<1> QED
  BY <1>5, <1>6, <1>7, <1>8, <1>9

LEMMA BeginKeepsContent ==
    ASSUME ContentInv, NEW w \in Workers, NEW e \in Experts, Begin(w, e)
    PROVE  ContentInv'
<1> USE DEF ContentInv
<1>1. UNCHANGED <<gpuStore, rootDir, file, ram, gpu, cancelled, data, writing, moving, version, written>>
  BY DEF Begin, ownerVars, setup
<1>2. TypeOK'
  BY <1>1 DEF Begin, TypeOK, WrittenFor
<1>3. FilesGenuine' /\ GenuinePayload' /\ OwnerKnows' /\ LocationTellsDevice'
  BY <1>1 DEF FilesGenuine, GenuinePayload, OwnerKnows, LocationTellsDevice, RamRecord
<1>4. HandsGenuine'
  BY <1>1 DEF Begin, HandsGenuine, TypeOK
<1> QED
  BY <1>2, <1>3, <1>4
-----------------------------------------------------------------------------
(* The owner of the stores.                                                *)

LEMMA PutKeepsContent ==
    ASSUME ContentInv, NEW e \in Experts, PutInMemory(e) \/ PutBegins(e) \/ PutEnds
    PROVE  ContentInv'
<1> USE DEF ContentInv
<1>1. UNCHANGED <<gpuStore, rootDir, ram, gpu, cancelled, moving, wpc, job, data, met, before, oldest, wrote,
                 ending>>
  BY DEF PutInMemory, PutBegins, PutEnds, chainVars, setup
<1>2. CASE PutBegins(e)
  <2>1. /\ file' = [file EXCEPT ![e] = Torn] /\ rootDir /\ written' = written
        /\ version' \in 1 .. MaxVersion /\ writing' = e
    BY <1>2, TransferAssumption DEF PutBegins, TypeOK
  <2>2. TypeOK'
    BY <1>1, <2>1 DEF TypeOK
  <2> QED
    BY <1>1, <2>1, <2>2 DEF FilesGenuine, HandsGenuine, GenuinePayload, OwnerKnows, LocationTellsDevice, TypeOK, RamRecord
<1>3. ASSUME PutInMemory(e) \/ PutEnds
      PROVE  ContentInv'
  <2>1. PICK x \in Experts, n \in 1 .. MaxVersion :
           /\ file' = [file EXCEPT ![x] = [expert |-> x, version |-> n]]
           /\ written' = written \cup {[expert |-> x, version |-> n]}
           /\ version' = n /\ writing' \in {writing, None}
    BY <1>3, TransferAssumption DEF PutInMemory, PutEnds, Current, OwnerKnows, TypeOK
  <2> DEFINE p == [expert |-> x, version |-> n]
  <2>2. p \in Payload /\ p.expert = x /\ p \notin {Absent, Torn}
    BY PayloadFacts
  <2> HIDE DEF p
  <2>3. TypeOK'
    BY <1>1, <2>1, <2>2 DEF TypeOK, p
  <2>4. FilesGenuine'
    BY <1>1, <2>1, <2>2 DEF FilesGenuine, TypeOK, p
  <2>5. HandsGenuine' /\ GenuinePayload' /\ OwnerKnows' /\ LocationTellsDevice'
    BY <1>1, <2>1 DEF HandsGenuine, GenuinePayload, OwnerKnows, LocationTellsDevice, RamRecord
  <2> QED
    BY <2>3, <2>4, <2>5
<1> QED
  BY <1>2, <1>3

LEMMA MoveKeepsContent ==
    ASSUME ContentInv, MoveLocation \/ \E e \in Experts, place \in Place : MovePayload(e, place)
    PROVE  ContentInv'
<1> USE DEF ContentInv
<1>1. UNCHANGED <<gpuStore, rootDir, file, ram, cancelled, writing, version, written, wpc, job, data, met, before, oldest,
                 wrote, ending>>
  BY DEF MoveLocation, MovePayload, chainVars, setup
<1>2. FilesGenuine' /\ HandsGenuine'
  BY <1>1 DEF FilesGenuine, HandsGenuine
<1>3. ASSUME NEW e \in Experts, NEW place \in Place, MovePayload(e, place)
      PROVE  ContentInv'
  <2>1. /\ gpu[e] \in Record /\ gpu[e] # None /\ moving.expert = None
        /\ gpu' = [gpu EXCEPT ![e] = [gpu[e] EXCEPT !.device = place]]
        /\ moving' = [expert |-> e, to |-> place, same |-> TRUE]
    BY <1>3 DEF MovePayload, TypeOK, OwnerFree, NotMoving
  <2> DEFINE r == [gpu[e] EXCEPT !.device = place]
  <2>2. r \in Record /\ r # None /\ r.payload = gpu[e].payload /\ r.device = place
    BY <2>1, MovedRecord
  <2> HIDE DEF r
  <2>3. moving' \in [expert : Experts \cup {None}, to : Place, same : BOOLEAN]
    BY <2>1
  <2>4. TypeOK'
    BY <1>1, <2>1, <2>2, <2>3 DEF TypeOK, r
  <2>5. GenuinePayload'
    <3>1. \A x \in Experts : gpu'[x] # None => gpu[x] # None /\ gpu'[x].payload = gpu[x].payload
      BY <2>1, <2>2 DEF TypeOK, r
    <3> QED
      BY <1>1, <3>1 DEF GenuinePayload
  <2>6. OwnerKnows' /\ LocationTellsDevice'
    BY <1>1, <2>1, <2>2, TransferAssumption DEF OwnerKnows, LocationTellsDevice, TypeOK, RamRecord, r
  <2> QED
    BY <1>2, <2>4, <2>5, <2>6
<1>4. CASE MoveLocation /\ ~moving.same
  <2>1. gpu' = gpu /\ moving' = NotMoving
    BY <1>4 DEF MoveLocation
  <2>2. moving' \in [expert : Experts \cup {None}, to : Place, same : BOOLEAN]
    BY <2>1 DEF NotMoving, Place
  <2>3. TypeOK'
    BY <1>1, <2>1, <2>2 DEF TypeOK
  <2> QED
    BY <1>1, <1>2, <1>4, <2>1, <2>3 DEF GenuinePayload, OwnerKnows, LocationTellsDevice, RamRecord, NotMoving
<1>5. CASE MoveLocation /\ moving.same
  <2>1. /\ moving.expert \in Experts /\ moving.to \in Place
        /\ gpu[moving.expert] \in Record /\ gpu[moving.expert] # None
        /\ gpu[moving.expert].device = moving.to
        /\ gpu' = [gpu EXCEPT ![moving.expert] = [gpu[moving.expert] EXCEPT !.location = moving.to]]
        /\ moving' = NotMoving
    BY <1>5 DEF MoveLocation, OwnerKnows, TypeOK
  <2> DEFINE r == [gpu[moving.expert] EXCEPT !.location = moving.to]
  <2>2. /\ r \in Record /\ r # None /\ r.payload = gpu[moving.expert].payload
        /\ r.location = moving.to /\ r.device = moving.to
    BY <2>1, MovedRecord
  <2> HIDE DEF r
  <2>3. moving' \in [expert : Experts \cup {None}, to : Place, same : BOOLEAN]
    BY <2>1 DEF NotMoving, Place
  <2>4. TypeOK'
    BY <1>1, <2>1, <2>2, <2>3 DEF TypeOK, r
  <2>5. GenuinePayload'
    <3>1. \A x \in Experts : gpu'[x] # None => gpu[x] # None /\ gpu'[x].payload = gpu[x].payload
      BY <2>1, <2>2 DEF TypeOK, r
    <3> QED
      BY <1>1, <3>1 DEF GenuinePayload
  <2>6. OwnerKnows' /\ LocationTellsDevice'
    BY <1>1, <2>1, <2>2 DEF OwnerKnows, LocationTellsDevice, TypeOK, RamRecord, NotMoving, r
  <2> QED
    BY <1>2, <2>4, <2>5, <2>6
<1> QED
  BY <1>3, <1>4, <1>5

LEMMA RestKeepsContent ==
    ASSUME ContentInv, Cancel \/ Crash \/ \E e \in Experts : Remove(e)
    PROVE  ContentInv'
<1> USE DEF ContentInv
<1>1. CASE Cancel
  <2>1. UNCHANGED <<gpuStore, rootDir, file, ram, gpu, writing, moving, version, written, wpc, job, data, met, before, oldest,
                 wrote, ending>>
    BY <1>1 DEF Cancel, chainVars, ownerVars, setup
  <2>2. TypeOK'
    BY <1>1, <2>1 DEF Cancel, TypeOK
  <2> QED
    BY <2>1, <2>2 DEF FilesGenuine, HandsGenuine, GenuinePayload, OwnerKnows, LocationTellsDevice, RamRecord
<1>2. CASE Crash
  <2>1. moving' \in [expert : Experts \cup {None}, to : Place, same : BOOLEAN]
    BY <1>2 DEF Crash, NotMoving, Place
  <2>2. TypeOK'
    BY <1>2, <2>1 DEF Crash, TypeOK, Empty, NoTask, NobodyMet, NothingBefore, AllIdle, NothingWrote, NothingEnded, setup
  <2>3. FilesGenuine'
    BY <1>2, NothingAssumption DEF Crash, FilesGenuine, setup
  <2> QED
    BY <1>2, <2>2, <2>3 DEF Crash, Empty, AllIdle, NotMoving, HandsGenuine, GenuinePayload, OwnerKnows, LocationTellsDevice
<1>3. ASSUME NEW e \in Experts, Remove(e)
      PROVE  ContentInv'
  <2>1. /\ UNCHANGED <<gpuStore, rootDir, cancelled, writing, moving, version, written, wpc, job, data, met, before, oldest,
                 wrote, ending>>
        /\ moving.expert = None
    BY <1>3 DEF Remove, chainVars, ownerVars, setup, OwnerFree, NotMoving
  <2>2. /\ file' = file \/ file' = [file EXCEPT ![e] = Absent]
        /\ ram' = ram \/ ram' = [ram EXCEPT ![e] = None]
        /\ gpu' = gpu \/ gpu' = [gpu EXCEPT ![e] = None]
    BY <1>3 DEF Remove
  <2>3. TypeOK'
    BY <2>1, <2>2 DEF TypeOK
  <2>4. FilesGenuine' /\ HandsGenuine'
    BY <2>1, <2>2, NothingAssumption DEF FilesGenuine, HandsGenuine, TypeOK
  <2>5. GenuinePayload' /\ OwnerKnows' /\ LocationTellsDevice'
    BY <2>1, <2>2 DEF GenuinePayload, OwnerKnows, LocationTellsDevice, TypeOK, RamRecord
  <2> QED
    BY <2>3, <2>4, <2>5
<1> QED
  BY <1>1, <1>2, <1>3

LEMMA ContentStep == ContentInv /\ [Next]_vars => ContentInv'
<1> SUFFICES ASSUME ContentInv, [Next]_vars
             PROVE  ContentInv'
  OBVIOUS
<1>1. CASE UNCHANGED vars
  BY <1>1 DEF vars, setup, chainVars, ownerVars, ContentInv, TypeOK, FilesGenuine, HandsGenuine,
     GenuinePayload, OwnerKnows, LocationTellsDevice, RamRecord
<1>2. ASSUME NEW w \in Workers, Step(w) \/ HandlerRaises(w)
      PROVE  ContentInv'
  BY <1>2, WorkerStepKeepsContent, StoreKeepsContent, PlaceKeepsContent DEF Step
<1>3. CASE Owner
  <2>1. CASE PutEnds
    <3>1. writing \in Experts
      BY <2>1 DEF PutEnds, ContentInv, TypeOK
    <3> QED
      BY <2>1, <3>1, PutKeepsContent
  <2>2. ASSUME NEW e \in Experts, PutInMemory(e) \/ PutBegins(e) \/ Remove(e)
        PROVE  ContentInv'
    BY <2>2, PutKeepsContent, RestKeepsContent
  <2>3. CASE MoveLocation \/ \E e \in Experts, place \in Place : MovePayload(e, place)
    BY <2>3, MoveKeepsContent
  <2> QED
    BY <1>3, <2>1, <2>2, <2>3, RestKeepsContent DEF Owner
<1>4. CASE Crash
  BY <1>4, RestKeepsContent
<1> QED
  BY <1>1, <1>2, <1>3, <1>4, BeginKeepsContent DEF Next
-----------------------------------------------------------------------------
LEMMA OutcomeStep == TypeOK /\ OutcomeInv /\ [Next]_vars => OutcomeInv'
<1> SUFFICES ASSUME TypeOK, OutcomeInv, [Next]_vars
             PROVE  OutcomeInv'
  OBVIOUS
<1>0. /\ gpuStore' = gpuStore => Chain' = Chain
      /\ {} # Chain /\ (gpuStore => {"ram"} # Chain /\ Chain = {"ram"} \cup {"gpu"})
      /\ ~gpuStore => Chain = {} \cup {"ram"}
      /\ "gpu" \notin {} /\ "gpu" \notin {"ram"} /\ "ram" \in {"ram"}
      /\ {} \cup {"ram"} = {"ram"}
  <2>1. gpuStore' = gpuStore => Chain' = Chain
    BY DEF Chain
  <2>2. "gpu" \notin {"ram"} /\ "ram" \in {"ram"} /\ {} \cup {"ram"} = {"ram"}
    OBVIOUS
  <2>3. CASE gpuStore
    <3>1. Chain = {"ram", "gpu"}
      BY <2>3 DEF Chain
    <3>2. {"ram", "gpu"} = {"ram"} \cup {"gpu"}
      OBVIOUS
    <3> QED
      BY <2>1, <2>2, <2>3, <3>1, <3>2
  <2>4. CASE ~gpuStore
    <3>1. Chain = {"ram"}
      BY <2>4 DEF Chain
    <3> QED
      BY <2>1, <2>2, <2>4, <3>1
  <2> QED
    BY <2>3, <2>4
<1> USE DEF OutcomeInv, WroteSoFar, OutcomeTellsStages, TypeOK
<1>1. CASE UNCHANGED <<wpc, wrote, ending, gpuStore>>
  BY <1>1 DEF Chain
<1>2. ASSUME NEW w \in Workers, Step(w) \/ HandlerRaises(w)
      PROVE  OutcomeInv'
  <2>1. CASE CheckCancelled(w)
    BY <2>1, <1>0 DEF CheckCancelled, Ends, Goto, setup
  <2>2. CASE FindFile(w)
    BY <2>2, <1>0 DEF FindFile, Ends, Goto, setup
  <2>3. CASE LoadFile(w)
    BY <2>3, <1>0 DEF LoadFile, Ends, Goto, setup
  <2>4. CASE StoreInRam(w)
    BY <2>4, <1>0 DEF StoreInRam, Ends, Goto, setup
  <2>5. CASE FetchFromRam(w)
    BY <2>5, <1>0 DEF FetchFromRam, Ends, Goto, setup
  <2>6. CASE PlaceOnGpu(w)
    BY <2>6, <1>0 DEF PlaceOnGpu, Completes, setup
  <2>7. CASE HandlerRaises(w)
    BY <2>7, <1>0 DEF HandlerRaises, Ends, setup
  <2> QED
    BY <1>2, <2>1, <2>2, <2>3, <2>4, <2>5, <2>6, <2>7 DEF Step
<1>3. ASSUME NEW w \in Workers, NEW e \in Experts, Begin(w, e)
      PROVE  OutcomeInv'
  BY <1>0, <1>3 DEF Begin, setup
<1>4. CASE Owner
  <2>1. UNCHANGED <<wpc, wrote, ending, gpuStore>>
    BY <1>4 DEF Owner, Cancel, PutEnds, PutInMemory, PutBegins, Remove, MovePayload, MoveLocation, chainVars, setup
  <2> QED
    BY <1>1, <2>1
<1>5. CASE Crash
  BY <1>5 DEF Crash, AllIdle, NothingWrote, NothingEnded, setup
<1>6. CASE UNCHANGED vars
  BY <1>1, <1>6 DEF vars, setup, chainVars
<1> QED
  BY <1>2, <1>3, <1>4, <1>5, <1>6 DEF Next

THEOREM Invariance == Spec => [](ContentInv /\ OutcomeInv)
<1>1. ContentInv /\ OutcomeInv /\ [Next]_vars => (ContentInv /\ OutcomeInv)'
  BY ContentStep, OutcomeStep DEF ContentInv
<1> QED
  BY InitInv, <1>1, PTL DEF Spec

(* The variables of the chain, the stores and the owner have their types.  *)
THEOREM TransferTypeCorrect == Spec => []TypeOK
BY Invariance, PTL DEF ContentInv

(* No store ever holds a payload that was not put for that expert and      *)
(* written to its end, with any number of workers and after any crash.     *)
THEOREM StoresHoldGenuinePayloads == Spec => []GenuinePayload
BY Invariance, PTL DEF ContentInv

(* Locations tell the truth, whatever the workers and the owner do.        *)
THEOREM LocationsAreTrue == Spec => []LocationTellsDevice
BY Invariance, PTL DEF ContentInv

(* The outcome of a task tells exactly which stores it has written.        *)
THEOREM OutcomesTellStages == Spec => []OutcomeTellsStages
BY Invariance, PTL DEF OutcomeInv
-----------------------------------------------------------------------------
(* Versions.                                                               *)

(* A whole file has the newest of all payloads written for its expert.     *)
FileNewest ==
    /\ \A p \in written : p.version <= version
    /\ \A e \in Experts : file[e] \notin {Absent, Torn} =>
          \A p \in written : p.expert = e => p.version <= file[e].version

(* A task that has met no other of its expert is the only one.             *)
LoneTasks ==
    \A w \in Workers :
        /\ wpc[w] = "idle" => job[w] = None
        /\ wpc[w] # "idle" /\ ~met[w] => \A v \in Workers \ {w} : job[v] # job[w]

NoNewer(r, p) == r # None => r.payload.version <= p.version

(* Such a task goes on with nothing older than what the stores have.       *)
NewerInHand ==
    \A w \in Workers : ~met[w] =>
        /\ wpc[w] = "store" => NoNewer(ram[job[w]], data[w]) /\ NoNewer(gpu[job[w]], data[w])
        /\ wpc[w] \in {"stage2", "fetch"} /\ ram[job[w]] # None => NoNewer(gpu[job[w]], ram[job[w]].payload)
        /\ wpc[w] = "place" => NoNewer(gpu[job[w]], data[w])

(* What had been written when a task began had been written for its        *)
(* expert, and of two tasks of one expert that run together neither has    *)
(* begun before the oldest that the other has found under way.             *)
BeginsKnown ==
    \A w \in Workers :
        /\ wpc[w] = "idle" => before[w] = {}
        /\ oldest[w] \subseteq before[w]
        /\ before[w] \subseteq written /\ \A p \in before[w] : p.expert = job[w]
        /\ \A v \in Workers : job[v] = job[w] => oldest[w] \subseteq before[v]

NotBehind(payloads, p) == \A q \in payloads : q.version <= p.version

(* A task has read nothing older than what there was when it began; RAM    *)
(* may get what another one has read.                                      *)
FreshInHand ==
    \A w \in Workers :
        /\ wpc[w] = "store" => NotBehind(before[w], data[w])
        /\ wpc[w] \in {"stage2", "fetch"} /\ ram[job[w]] # None => NotBehind(oldest[w], ram[job[w]].payload)
        /\ wpc[w] = "place" => NotBehind(oldest[w], data[w])

VersionInv == FileNewest /\ LoneTasks /\ NewerInHand /\ BeginsKnown /\ FreshInHand

LEMMA InitVersions == Init => VersionInv
BY DEF Init, VersionInv, FileNewest, LoneTasks, NewerInHand, BeginsKnown, FreshInHand, AllIdle, NoTask,
   NothingBefore

LEMMA FileStep ==
    ASSUME ContentInv, FileNewest, [Next]_vars
    PROVE  FileNewest'
<1> USE DEF FileNewest
<1>1. \A p \in written : p.version \in Int
  BY DEF ContentInv, TypeOK, Payload
<1>2. version \in Int
  BY DEF ContentInv, TypeOK
<1>3. CASE UNCHANGED <<file, version, written>>
  BY <1>3
<1>4. ASSUME NEW e \in Experts, PutBegins(e)
      PROVE  FileNewest'
  BY <1>1, <1>2, <1>4 DEF PutBegins, ContentInv, TypeOK
<1>5. ASSUME NEW e \in Experts, NEW p, p = [expert |-> e, version |-> version'],
             version' \in {version, version + 1},
             file' = [file EXCEPT ![e] = p], written' = written \cup {p}
      PROVE  FileNewest'
  <2>1. p.expert = e /\ p.version = version'
    BY <1>5
  <2>2. \A q \in written' : q.version <= version'
    BY <1>1, <1>2, <1>5, <2>1
  <2>3. ASSUME NEW f \in Experts, file'[f] \notin {Absent, Torn}, NEW q \in written', q.expert = f
        PROVE  q.version <= file'[f].version
    <3>1. CASE f = e
      BY <1>5, <2>1, <2>2, <3>1 DEF ContentInv, TypeOK
    <3>2. CASE f # e
      BY <1>5, <2>1, <2>3, <3>2 DEF ContentInv, TypeOK
    <3> QED
      BY <3>1, <3>2
  <2> QED
    BY <2>2, <2>3
<1>6. ASSUME NEW e \in Experts, PutInMemory(e)
      PROVE  FileNewest'
  BY <1>2, <1>5, <1>6 DEF PutInMemory
<1>7. CASE PutEnds
  <2>1. writing \in Experts /\ version' = version
    BY <1>7 DEF PutEnds, ContentInv, TypeOK
  <2> QED
    BY <1>5, <1>7, <2>1 DEF PutEnds, Current
<1>8. ASSUME NEW e \in Experts, Remove(e)
      PROVE  FileNewest'
  <2>1. version' = version /\ written' = written /\ (file' = file \/ file' = [file EXCEPT ![e] = Absent])
    BY <1>8 DEF Remove, ownerVars
  <2> QED
    BY <2>1 DEF ContentInv, TypeOK
<1>9. CASE Crash
  BY <1>9 DEF Crash
<1>10. ASSUME NEW w \in Workers, Step(w) \/ HandlerRaises(w) \/ \E e \in Experts : Begin(w, e)
       PROVE  FileNewest'
  <2>1. UNCHANGED <<file, version, written>>
    BY <1>10 DEF Step, CheckCancelled, FindFile, LoadFile, StoreInRam, FetchFromRam, PlaceOnGpu,
       HandlerRaises, Begin, Ends, Goto, Completes, ownerVars
  <2> QED
    BY <1>3, <2>1
<1>11. CASE Cancel \/ MoveLocation \/ \E e \in Experts, place \in Place : MovePayload(e, place)
  BY <1>3, <1>11 DEF Cancel, MoveLocation, MovePayload, ownerVars
<1>12. CASE UNCHANGED vars
  BY <1>3, <1>12 DEF vars, ownerVars
<1> QED
  BY <1>4, <1>6, <1>7, <1>8, <1>9, <1>10, <1>11, <1>12 DEF Next, Owner

LEMMA LoneStep ==
    ASSUME TypeOK, HandsGenuine, LoneTasks, [Next]_vars
    PROVE  LoneTasks'
<1> USE DEF LoneTasks, TypeOK
<1>1. CASE UNCHANGED <<wpc, job, met>>
  BY <1>1
<1>2. ASSUME NEW w \in Workers,
             wpc' = [wpc EXCEPT ![w] = "idle"], job' = [job EXCEPT ![w] = None],
             met' = [met EXCEPT ![w] = FALSE], wpc[w] # "idle",
             \A v \in Workers : wpc[v] # "idle" => job[v] # None
      PROVE  LoneTasks'
  BY <1>2
<1>3. ASSUME NEW w \in Workers, NEW next, next # "idle", wpc[w] # "idle",
             wpc' = [wpc EXCEPT ![w] = next], UNCHANGED <<job, met>>
      PROVE  LoneTasks'
  BY <1>3
<1>4. ASSUME NEW w \in Workers, Step(w) \/ HandlerRaises(w)
      PROVE  LoneTasks'
  <2>1. \A v \in Workers : wpc[v] # "idle" => job[v] # None
    BY <1>4, TransferAssumption DEF HandsGenuine
  <2>2. wpc[w] # "idle"
    BY <1>4 DEF Step, CheckCancelled, FindFile, LoadFile, StoreInRam, FetchFromRam, PlaceOnGpu, HandlerRaises
  <2>3. \/ /\ wpc' = [wpc EXCEPT ![w] = "idle"] /\ job' = [job EXCEPT ![w] = None]
           /\ met' = [met EXCEPT ![w] = FALSE]
        \/ \E next : next # "idle" /\ wpc' = [wpc EXCEPT ![w] = next] /\ UNCHANGED <<job, met>>
    BY <1>4 DEF Step, CheckCancelled, FindFile, LoadFile, StoreInRam, FetchFromRam, PlaceOnGpu,
       HandlerRaises, Ends, Goto, Completes
  <2> QED
    BY <1>2, <1>3, <2>1, <2>2, <2>3
<1>5. ASSUME NEW w \in Workers, NEW e \in Experts, Begin(w, e)
      PROVE  LoneTasks'
  <2>1. /\ job' = [job EXCEPT ![w] = e] /\ wpc'[w] # "idle" /\ wpc[w] = "idle"
        /\ \A v \in Workers \ {w} : wpc'[v] = wpc[v]
        /\ met'[w] = (\E u \in Workers : job[u] = e)
        /\ \A v \in Workers \ {w} : met'[v] = (met[v] \/ job[v] = e)
    BY <1>5 DEF Begin
  <2> QED
    BY <2>1
<1>6. CASE Owner
  BY <1>1, <1>6 DEF Owner, Cancel, PutEnds, PutInMemory, PutBegins, Remove, MovePayload, MoveLocation, chainVars
<1>7. CASE Crash
  BY <1>7 DEF Crash, AllIdle, NoTask
<1>8. CASE UNCHANGED vars
  BY <1>1, <1>8 DEF vars, chainVars
<1> QED
  BY <1>4, <1>5, <1>6, <1>7, <1>8 DEF Next

(* What a worker finds is not older than what the stores have: the file,   *)
(* because every payload of a store was once written to it.                *)
LEMMA NewerStep ==
    ASSUME ContentInv, VersionInv, [Next]_vars
    PROVE  NewerInHand'
<1> USE DEF ContentInv, VersionInv, TypeOK
<1> DEFINE Newer(w) ==
      ~met'[w] =>
        /\ wpc'[w] = "store" => NoNewer(ram'[job'[w]], data'[w]) /\ NoNewer(gpu'[job'[w]], data'[w])
        /\ wpc'[w] \in {"stage2", "fetch"} /\ ram'[job'[w]] # None => NoNewer(gpu'[job'[w]], ram'[job'[w]].payload)
        /\ wpc'[w] = "place" => NoNewer(gpu'[job'[w]], data'[w])
<1>2. SUFFICES ASSUME NEW w \in Workers
               PROVE  Newer(w)
  BY DEF NewerInHand
<1>3. ASSUME UNCHANGED <<ram, gpu, wpc, job, data, met>>
      PROVE  Newer(w)
  BY <1>3 DEF NewerInHand
<1>4. ASSUME wpc'[w] \notin {"store", "stage2", "fetch", "place"}
      PROVE  Newer(w)
  BY <1>4
<1>5. ASSUME NEW u \in Workers, Step(u) \/ HandlerRaises(u), u # w
      PROVE  Newer(w)
  <2>1. wpc'[w] = wpc[w] /\ met'[w] = met[w] /\ job'[w] = job[w] /\ data'[w] = data[w]
    BY <1>5 DEF Step, CheckCancelled, FindFile, LoadFile, StoreInRam, FetchFromRam, PlaceOnGpu,
       HandlerRaises, Ends, Goto, Completes
  <2>2. wpc[u] # "idle" /\ job[u] \in Experts
    BY <1>5 DEF Step, CheckCancelled, FindFile, LoadFile, StoreInRam, FetchFromRam, PlaceOnGpu,
       HandlerRaises, HandsGenuine
  <2>3. \A e \in Experts : e # job[u] => ram'[e] = ram[e] /\ gpu'[e] = gpu[e]
    BY <1>5 DEF Step, CheckCancelled, FindFile, LoadFile, StoreInRam, FetchFromRam, PlaceOnGpu, HandlerRaises
  <2>4. wpc[w] # "idle" /\ ~met[w] => job[w] # job[u] /\ job[w] \in Experts
    BY <1>5 DEF LoneTasks, HandsGenuine
  <2> QED
    BY <2>1, <2>3, <2>4 DEF NewerInHand, NoNewer
<1>6. CASE CheckCancelled(w)
  BY <1>6 DEF CheckCancelled, Ends, Goto, NewerInHand, NoNewer
<1>7. ASSUME wpc'[w] = "store", wpc[w] # "idle", file[job[w]] \notin {Absent, Torn},
             data'[w] = file[job[w]], UNCHANGED <<ram, gpu, job, met>>
      PROVE  Newer(w)
  <2>1. job[w] \in Experts
    BY <1>7 DEF HandsGenuine
  <2>2. NoNewer(ram[job[w]], file[job[w]]) /\ NoNewer(gpu[job[w]], file[job[w]])
    BY <1>7, <2>1 DEF FileNewest, GenuinePayload, NoNewer
  <2> QED
    BY <1>7, <2>2
<1>8. CASE FindFile(w)
  <2>1. \/ wpc'[w] \in {"idle", "load"}
        \/ /\ wpc'[w] = "store" /\ wpc[w] # "idle" /\ file[job[w]] \notin {Absent, Torn}
           /\ data'[w] = file[job[w]] /\ UNCHANGED <<ram, gpu, job, met>>
    BY <1>8 DEF FindFile, Ends, Goto, FilesGenuine, HandsGenuine
  <2> QED
    BY <1>4, <1>7, <2>1
<1>9. CASE LoadFile(w)
  <2>1. \/ wpc'[w] = "idle"
        \/ /\ wpc'[w] = "store" /\ wpc[w] # "idle" /\ file[job[w]] \notin {Absent, Torn}
           /\ data'[w] = file[job[w]] /\ UNCHANGED <<ram, gpu, job, met>>
    BY <1>9 DEF LoadFile, Ends, Goto
  <2> QED
    BY <1>4, <1>7, <2>1
<1>10. CASE StoreInRam(w)
  <2>1. /\ wpc[w] = "store" /\ wpc'[w] \in {"idle", "stage2"} /\ gpu' = gpu
        /\ ram' = [ram EXCEPT ![job[w]] = RamRecord(data[w])]
        /\ wpc'[w] = "stage2" => job' = job /\ met' = met
    BY <1>10 DEF StoreInRam, Ends, Goto
  <2>2. job[w] \in Experts /\ data[w] \in Payload
    BY <2>1 DEF HandsGenuine
  <2>3. ram'[job[w]].payload = data[w]
    BY <2>1, <2>2, RecordFacts
  <2> QED
    BY <2>1, <2>3 DEF NewerInHand, NoNewer
<1>11. CASE FetchFromRam(w)
  BY <1>11 DEF FetchFromRam, Ends, Goto, NewerInHand, NoNewer
<1>12. CASE PlaceOnGpu(w)
  <2>1. wpc'[w] = "idle"
    BY <1>12 DEF PlaceOnGpu, Completes
  <2> QED
    BY <1>4, <2>1
<1>13. CASE HandlerRaises(w)
  <2>1. wpc'[w] = "idle"
    BY <1>13 DEF HandlerRaises, Ends
  <2> QED
    BY <1>4, <2>1
<1>14. ASSUME NEW u \in Workers, NEW e \in Experts, Begin(u, e)
       PROVE  Newer(w)
  <2>1. UNCHANGED <<ram, gpu, data>>
    BY <1>14 DEF Begin
  <2>2. CASE u = w
    BY <1>4, <1>14, <2>2 DEF Begin
  <2>3. CASE u # w
    <3>1. wpc'[w] = wpc[w] /\ job'[w] = job[w] /\ (~met'[w] => ~met[w])
      BY <1>14, <2>3 DEF Begin
    <3> QED
      BY <2>1, <3>1 DEF NewerInHand
  <2> QED
    BY <2>2, <2>3
<1>15. CASE Owner
  <2>1. UNCHANGED <<wpc, job, data, met>>
    BY <1>15 DEF Owner, Cancel, PutEnds, PutInMemory, PutBegins, Remove, MovePayload, MoveLocation, chainVars
  <2>2. \A e \in Experts : ram'[e] = ram[e] \/ ram'[e] = None
    BY <1>15 DEF Owner, Cancel, PutEnds, PutInMemory, PutBegins, Remove, MovePayload, MoveLocation
  <2>3. \A e \in Experts : gpu'[e] = None \/ (gpu[e] # None /\ gpu'[e].payload = gpu[e].payload)
    <3>1. CASE MoveLocation
      BY <1>15, <3>1, MovedRecord DEF MoveLocation, OwnerKnows
    <3>2. ASSUME NEW e \in Experts, NEW place \in Place, MovePayload(e, place)
          PROVE  \A x \in Experts : gpu'[x] = None \/ (gpu[x] # None /\ gpu'[x].payload = gpu[x].payload)
      <4>1. gpu[e] \in Record /\ gpu[e] # None /\ gpu' = [gpu EXCEPT ![e] = [gpu[e] EXCEPT !.device = place]]
        BY <3>2 DEF MovePayload
      <4>2. [gpu[e] EXCEPT !.device = place].payload = gpu[e].payload
        BY <4>1, MovedRecord
      <4> QED
        BY <4>1, <4>2
    <3> QED
      BY <1>15, <3>1, <3>2 DEF Owner, Cancel, PutEnds, PutInMemory, PutBegins, Remove
  <2>4. wpc[w] # "idle" => job[w] \in Experts
    BY DEF HandsGenuine
  <2> QED
    BY <2>1, <2>2, <2>3, <2>4 DEF NewerInHand, NoNewer
<1>16. CASE Crash
  BY <1>4, <1>16 DEF Crash, AllIdle
<1>17. CASE UNCHANGED vars
  BY <1>3, <1>17 DEF vars, chainVars
<1> HIDE DEF Newer
<1> QED
  BY <1>5, <1>6, <1>8, <1>9, <1>10, <1>11, <1>12, <1>13, <1>14, <1>15, <1>16, <1>17 DEF Next, Step

LEMMA BeginsStep ==
    ASSUME ContentInv, LoneTasks, BeginsKnown, [Next]_vars
    PROVE  BeginsKnown'
<1> USE DEF BeginsKnown, TypeOK
<1>1. ASSUME UNCHANGED <<wpc, job, before, oldest>>, written \subseteq written'
      PROVE  BeginsKnown'
  BY <1>1
<1>2. TypeOK /\ \A v \in Workers : (wpc[v] # "idle" => job[v] # None) /\ (wpc[v] = "idle" => job[v] = None)
  BY TransferAssumption DEF ContentInv, HandsGenuine, LoneTasks
<1>3. ASSUME NEW w \in Workers, wpc[w] # "idle", written' = written,
             wpc' = [wpc EXCEPT ![w] = "idle"], job' = [job EXCEPT ![w] = None],
             before' = [before EXCEPT ![w] = {}], oldest' = [oldest EXCEPT ![w] = {}]
      PROVE  BeginsKnown'
  <2>1. ASSUME NEW u \in Workers
        PROVE  /\ wpc'[u] = "idle" => before'[u] = {}
               /\ oldest'[u] \subseteq before'[u]
               /\ before'[u] \subseteq written' /\ \A p \in before'[u] : p.expert = job'[u]
               /\ \A v \in Workers : job'[v] = job'[u] => oldest'[u] \subseteq before'[v]
    <3>1. CASE u = w
      BY <1>2, <1>3, <3>1
    <3>2. CASE u # w
      <4>1. wpc'[u] = wpc[u] /\ job'[u] = job[u] /\ before'[u] = before[u] /\ oldest'[u] = oldest[u]
        BY <1>2, <1>3, <3>2
      <4>2. ASSUME NEW v \in Workers, job'[v] = job'[u]
            PROVE  oldest'[u] \subseteq before'[v]
        <5>1. CASE v = w
          <6>1. wpc[u] = "idle"
            BY <1>2, <1>3, <4>1, <4>2, <5>1
          <6> QED
            BY <4>1, <6>1
        <5>2. CASE v # w
          BY <1>2, <1>3, <4>1, <4>2, <5>2
        <5> QED
          BY <5>1, <5>2
      <4> QED
        BY <1>3, <4>1, <4>2
    <3> QED
      BY <3>1, <3>2
  <2> QED
    BY <2>1
<1>4. ASSUME NEW w \in Workers, NEW next, next # "idle", wpc[w] # "idle", written' = written,
             wpc' = [wpc EXCEPT ![w] = next], UNCHANGED <<job, before, oldest>>
      PROVE  BeginsKnown'
  BY <1>2, <1>4
<1>5. ASSUME NEW w \in Workers, Step(w) \/ HandlerRaises(w)
      PROVE  BeginsKnown'
  <2>1. wpc[w] # "idle" /\ written' = written
    BY <1>5 DEF Step, CheckCancelled, FindFile, LoadFile, StoreInRam, FetchFromRam, PlaceOnGpu, HandlerRaises,
       Ends, Goto, Completes, ownerVars
  <2>2. \/ /\ wpc' = [wpc EXCEPT ![w] = "idle"] /\ job' = [job EXCEPT ![w] = None]
           /\ before' = [before EXCEPT ![w] = {}] /\ oldest' = [oldest EXCEPT ![w] = {}]
        \/ \E next : next # "idle" /\ wpc' = [wpc EXCEPT ![w] = next] /\ UNCHANGED <<job, before, oldest>>
    BY <1>5 DEF Step, CheckCancelled, FindFile, LoadFile, StoreInRam, FetchFromRam, PlaceOnGpu,
       HandlerRaises, Ends, Goto, Completes
  <2> QED
    BY <1>3, <1>4, <2>1, <2>2
<1>6. ASSUME NEW w \in Workers, NEW e \in Experts, Begin(w, e)
      PROVE  BeginsKnown'
  <2>1. PICK W, O : /\ W = WrittenFor(e)
                    /\ O = {p \in W : \A u \in Workers : job[u] = e => p \in before[u]}
    OBVIOUS
  <2>2. /\ wpc[w] = "idle" /\ wpc'[w] # "idle" /\ written' = written
        /\ \A u \in Workers \ {w} : wpc'[u] = wpc[u]
        /\ job' = [job EXCEPT ![w] = e]
        /\ before' = [before EXCEPT ![w] = W] /\ oldest' = [oldest EXCEPT ![w] = O]
    BY <1>2, <1>6, <2>1 DEF Begin, ownerVars
  <2>3. W \subseteq written /\ (\A p \in W : p.expert = e) /\ O \subseteq W
    BY <2>1 DEF WrittenFor
  <2>4. ASSUME NEW u \in Workers \ {w}
        PROVE  /\ wpc'[u] = wpc[u] /\ job'[u] = job[u]
               /\ before'[u] = before[u] /\ oldest'[u] = oldest[u]
    BY <1>2, <2>2
  <2>5. job'[w] = e /\ before'[w] = W /\ oldest'[w] = O
    BY <1>2, <2>2
  <2>6. ASSUME NEW u \in Workers, NEW v \in Workers, job'[v] = job'[u]
        PROVE  oldest'[u] \subseteq before'[v]
    <3>1. CASE u = w /\ v = w
      BY <2>3, <2>5, <3>1
    <3>2. CASE u = w /\ v # w
      BY <2>1, <2>4, <2>5, <2>6, <3>2
    <3>3. CASE u # w /\ v = w
      <4>1. before[u] \subseteq W
        BY <2>1, <2>4, <2>5, <2>6, <3>3 DEF WrittenFor
      <4> QED
        BY <2>4, <2>5, <3>3, <4>1
    <3>4. CASE u # w /\ v # w
      BY <2>4, <2>6, <3>4
    <3> QED
      BY <3>1, <3>2, <3>3, <3>4
  <2>7. ASSUME NEW u \in Workers
        PROVE  /\ wpc'[u] = "idle" => before'[u] = {}
               /\ oldest'[u] \subseteq before'[u]
               /\ before'[u] \subseteq written' /\ \A p \in before'[u] : p.expert = job'[u]
    BY <2>2, <2>3, <2>4, <2>5
  <2> QED
    BY <2>6, <2>7
<1>7. CASE Owner
  <2>1. UNCHANGED <<wpc, job, before, oldest>> /\ written \subseteq written'
    BY <1>7 DEF Owner, Cancel, PutEnds, PutInMemory, PutBegins, Remove, MovePayload, MoveLocation, chainVars,
       ownerVars
  <2> QED
    BY <1>1, <2>1
<1>8. CASE Crash
  BY <1>8 DEF Crash, AllIdle, NoTask, NothingBefore
<1>9. CASE UNCHANGED vars
  BY <1>1, <1>9 DEF vars, chainVars, ownerVars
<1> QED
  BY <1>5, <1>6, <1>7, <1>8, <1>9 DEF Next

(* What the file has is not older than anything that was written before a  *)
(* task began; RAM has that, or what a task has read that is no older than *)
(* the oldest of those that ran together.                                  *)
LEMMA FreshStep ==
    ASSUME ContentInv, VersionInv, [Next]_vars
    PROVE  FreshInHand'
<1> USE DEF ContentInv, VersionInv, TypeOK
<1> DEFINE Fresh(w) ==
      /\ wpc'[w] = "store" => NotBehind(before'[w], data'[w])
      /\ wpc'[w] \in {"stage2", "fetch"} /\ ram'[job'[w]] # None =>
            NotBehind(oldest'[w], ram'[job'[w]].payload)
      /\ wpc'[w] = "place" => NotBehind(oldest'[w], data'[w])
<1>1. SUFFICES ASSUME NEW w \in Workers
               PROVE  Fresh(w)
  BY DEF FreshInHand
<1>2. wpc[w] # "idle" => job[w] \in Experts
  BY DEF HandsGenuine
<1>3. ASSUME UNCHANGED <<wpc, job, data, before, oldest>>,
             \A e \in Experts : ram'[e] = ram[e] \/ ram'[e] = None
      PROVE  Fresh(w)
  BY <1>2, <1>3 DEF FreshInHand
<1>4. ASSUME wpc'[w] \notin {"store", "stage2", "fetch", "place"}
      PROVE  Fresh(w)
  BY <1>4
<1>5. ASSUME NEW u \in Workers, u # w, Step(u) \/ HandlerRaises(u)
      PROVE  Fresh(w)
  <2>1. /\ wpc'[w] = wpc[w] /\ job'[w] = job[w] /\ data'[w] = data[w]
        /\ before'[w] = before[w] /\ oldest'[w] = oldest[w]
    BY <1>5 DEF Step, CheckCancelled, FindFile, LoadFile, StoreInRam, FetchFromRam, PlaceOnGpu,
       HandlerRaises, Ends, Goto, Completes
  <2>2. CASE ram' = ram
    BY <2>1, <2>2 DEF FreshInHand
  <2>3. CASE StoreInRam(u)
    <3>1. /\ wpc[u] = "store" /\ ram' = [ram EXCEPT ![job[u]] = RamRecord(data[u])]
          /\ job[u] \in Experts /\ data[u] \in Payload
      BY <2>3 DEF StoreInRam, HandsGenuine
    <3>2. CASE wpc[w] # "idle" /\ job[w] = job[u]
      <4>1. ram'[job[w]].payload = data[u]
        BY <3>1, <3>2, RecordFacts
      <4>2. NotBehind(before[u], data[u]) /\ oldest[w] \subseteq before[u]
        BY <3>1, <3>2 DEF FreshInHand, BeginsKnown
      <4>3. NotBehind(oldest[w], ram'[job[w]].payload)
        BY <4>1, <4>2 DEF NotBehind
      <4> QED
        BY <2>1, <4>3 DEF FreshInHand
    <3>3. CASE wpc[w] # "idle" /\ job[w] # job[u]
      <4>1. ram'[job[w]] = ram[job[w]]
        BY <1>2, <3>1, <3>3
      <4> QED
        BY <2>1, <4>1 DEF FreshInHand
    <3> QED
      BY <1>4, <2>1, <3>2, <3>3
  <2>4. StoreInRam(u) \/ ram' = ram
    BY <1>5 DEF Step, CheckCancelled, FindFile, LoadFile, FetchFromRam, PlaceOnGpu, HandlerRaises
  <2> QED
    BY <2>2, <2>3, <2>4
<1>6. CASE CheckCancelled(w)
  BY <1>6 DEF CheckCancelled, Ends, Goto, FreshInHand
<1>7. ASSUME wpc'[w] = "store", wpc[w] # "idle", file[job[w]] \notin {Absent, Torn},
             data'[w] = file[job[w]], UNCHANGED <<job, before>>
      PROVE  Fresh(w)
  <2>1. NotBehind(before[w], file[job[w]])
    BY <1>2, <1>7 DEF FileNewest, BeginsKnown, NotBehind
  <2> QED
    BY <1>7, <2>1
<1>8. CASE FindFile(w)
  <2>1. \/ wpc'[w] \in {"idle", "load"}
        \/ /\ wpc'[w] = "store" /\ wpc[w] # "idle" /\ file[job[w]] \notin {Absent, Torn}
           /\ data'[w] = file[job[w]] /\ UNCHANGED <<job, before>>
    BY <1>8 DEF FindFile, Ends, Goto, FilesGenuine, HandsGenuine
  <2> QED
    BY <1>4, <1>7, <2>1
<1>9. CASE LoadFile(w)
  <2>1. \/ wpc'[w] = "idle"
        \/ /\ wpc'[w] = "store" /\ wpc[w] # "idle" /\ file[job[w]] \notin {Absent, Torn}
           /\ data'[w] = file[job[w]] /\ UNCHANGED <<job, before>>
    BY <1>9 DEF LoadFile, Ends, Goto
  <2> QED
    BY <1>4, <1>7, <2>1
<1>10. CASE StoreInRam(w)
  <2>1. /\ wpc[w] = "store" /\ wpc'[w] \in {"idle", "stage2"}
        /\ ram' = [ram EXCEPT ![job[w]] = RamRecord(data[w])]
        /\ wpc'[w] = "stage2" => job' = job /\ oldest' = oldest
    BY <1>10 DEF StoreInRam, Ends, Goto
  <2>2. job[w] \in Experts /\ data[w] \in Payload
    BY <2>1 DEF HandsGenuine
  <2>3. ram'[job[w]].payload = data[w]
    BY <2>1, <2>2, RecordFacts
  <2>4. NotBehind(oldest[w], data[w])
    BY <2>1 DEF FreshInHand, BeginsKnown, NotBehind
  <2> QED
    BY <2>1, <2>3, <2>4
<1>11. CASE FetchFromRam(w)
  BY <1>11 DEF FetchFromRam, Ends, Goto, FreshInHand
<1>12. CASE PlaceOnGpu(w) \/ HandlerRaises(w)
  <2>1. wpc'[w] = "idle"
    BY <1>12 DEF PlaceOnGpu, Completes, HandlerRaises, Ends
  <2> QED
    BY <1>4, <2>1
<1>13. ASSUME NEW u \in Workers, NEW e \in Experts, Begin(u, e)
       PROVE  Fresh(w)
  <2>1. UNCHANGED <<ram, data>>
    BY <1>13 DEF Begin
  <2>2. CASE u = w
    BY <1>4, <1>13, <2>2 DEF Begin
  <2>3. CASE u # w
    <3>1. wpc'[w] = wpc[w] /\ job'[w] = job[w] /\ before'[w] = before[w] /\ oldest'[w] = oldest[w]
      BY <1>13, <2>3 DEF Begin
    <3> QED
      BY <2>1, <3>1 DEF FreshInHand
  <2> QED
    BY <2>2, <2>3
<1>14. CASE Owner
  <2>1. UNCHANGED <<wpc, job, data, before, oldest>>
    BY <1>14 DEF Owner, Cancel, PutEnds, PutInMemory, PutBegins, Remove, MovePayload, MoveLocation, chainVars
  <2>2. \A e \in Experts : ram'[e] = ram[e] \/ ram'[e] = None
    BY <1>14 DEF Owner, Cancel, PutEnds, PutInMemory, PutBegins, Remove, MovePayload, MoveLocation
  <2> QED
    BY <1>3, <2>1, <2>2
<1>15. CASE Crash
  BY <1>4, <1>15 DEF Crash, AllIdle
<1>16. CASE UNCHANGED vars
  BY <1>3, <1>16 DEF vars, chainVars
<1> HIDE DEF Fresh
<1> QED
  BY <1>5, <1>6, <1>8, <1>9, <1>10, <1>11, <1>12, <1>13, <1>14, <1>15, <1>16 DEF Next, Step

LEMMA VersionsGrow ==
    ASSUME ContentInv, VersionInv, [Next]_vars, NEW w \in Workers,
           wpc[w] \in {"store", "place"}, wpc'[w] # wpc[w]
    PROVE  /\ NotStale(ram[job[w]], ram'[job[w]], oldest[w])
           /\ NotStale(gpu[job[w]], gpu'[job[w]], oldest[w])
           /\ ~met[w] => /\ NotOlder(ram[job[w]], ram'[job[w]])
                         /\ NotOlder(gpu[job[w]], gpu'[job[w]])
<1> USE DEF ContentInv, VersionInv, TypeOK
<1>1. job[w] \in Experts /\ data[w] \in Payload
  BY DEF HandsGenuine
<1>2. \A r \in {ram[job[w]], gpu[job[w]]} : r # None => r.payload.version \in Int
  BY <1>1, PayloadOf DEF Payload
<1>3. CASE StoreInRam(w)
  <2>1. wpc[w] = "store" /\ gpu' = gpu /\ ram' = [ram EXCEPT ![job[w]] = RamRecord(data[w])]
    BY <1>3 DEF StoreInRam
  <2>2. ram'[job[w]].payload = data[w]
    BY <1>1, <2>1, RecordFacts
  <2>3. NotBehind(oldest[w], data[w])
    BY <2>1 DEF FreshInHand, BeginsKnown, NotBehind
  <2>4. ~met[w] => NotOlder(ram[job[w]], ram'[job[w]]) /\ NotOlder(gpu[job[w]], gpu'[job[w]])
    BY <1>2, <2>1, <2>2 DEF NewerInHand, NoNewer, NotOlder
  <2> QED
    BY <2>1, <2>2, <2>3, <2>4 DEF NotStale, NotBehind
<1>4. CASE PlaceOnGpu(w)
  <2>1. wpc[w] = "place" /\ ram' = ram /\ gpu' = [gpu EXCEPT ![job[w]] = GpuRecord(data[w])]
    BY <1>4 DEF PlaceOnGpu
  <2>2. gpu'[job[w]].payload = data[w]
    BY <1>1, <2>1, RecordFacts
  <2>3. NotBehind(oldest[w], data[w])
    BY <2>1 DEF FreshInHand, BeginsKnown, NotBehind
  <2>4. ~met[w] => NotOlder(ram[job[w]], ram'[job[w]]) /\ NotOlder(gpu[job[w]], gpu'[job[w]])
    BY <1>2, <2>1, <2>2 DEF NewerInHand, NoNewer, NotOlder
  <2> QED
    BY <2>1, <2>2, <2>3, <2>4 DEF NotStale, NotBehind
<1>5. CASE HandlerRaises(w)
  <2>1. UNCHANGED <<ram, gpu>>
    BY <1>5 DEF HandlerRaises
  <2> QED
    BY <1>2, <2>1 DEF NotOlder, NotStale
<1>6. CASE Crash
  BY <1>1, <1>6 DEF Crash, Empty, NotOlder, NotStale
<1>7. ASSUME NEW u \in Workers, u # w, Step(u) \/ HandlerRaises(u) \/ \E e \in Experts : Begin(u, e)
      PROVE  FALSE
  BY <1>7 DEF Step, CheckCancelled, FindFile, LoadFile, StoreInRam, FetchFromRam, PlaceOnGpu,
     HandlerRaises, Begin, Ends, Goto, Completes
<1>8. CASE Owner \/ UNCHANGED vars
  BY <1>8 DEF Owner, Cancel, PutEnds, PutInMemory, PutBegins, Remove, MovePayload, MoveLocation, chainVars, vars
<1>9. ~CheckCancelled(w) /\ ~FindFile(w) /\ ~LoadFile(w) /\ ~FetchFromRam(w) /\ \A e \in Experts : ~Begin(w, e)
  BY DEF CheckCancelled, FindFile, LoadFile, FetchFromRam, Begin
<1> QED
  BY <1>3, <1>4, <1>5, <1>6, <1>7, <1>8, <1>9 DEF Next, Step

(* A task never stores anything older than what had been written before it *)
(* or the oldest task it found under way began; and a lone task never      *)
(* replaces a payload by an older one: what it has read is the newest      *)
(* there was, and only its own steps, puts into the file and removals come *)
(* before it stores it.                                                    *)
THEOREM StoresGetNoOlder == Spec => NeverOlder
<1>1. ContentInv /\ VersionInv /\ [Next]_vars => VersionInv'
  BY FileStep, LoneStep, NewerStep, BeginsStep, FreshStep DEF VersionInv, ContentInv
<1>2. ContentInv /\ VersionInv /\ [Next]_vars =>
        [\A w \in Workers :
          wpc[w] \in {"store", "place"} /\ wpc'[w] # wpc[w] =>
              /\ NotStale(ram[job[w]], ram'[job[w]], oldest[w])
              /\ NotStale(gpu[job[w]], gpu'[job[w]], oldest[w])
              /\ ~met[w] => /\ NotOlder(ram[job[w]], ram'[job[w]])
                            /\ NotOlder(gpu[job[w]], gpu'[job[w]])]_vars
  BY VersionsGrow
<1> QED
  BY <1>1, <1>2, InitVersions, Invariance, PTL DEF Spec, NeverOlder
=============================================================================
