--------------------------- MODULE OsvIndex_proof ---------------------------
(***************************************************************************)
(* Proofs about OsvSync, for every set of records and ecosystems, every     *)
(* batch size and every number of runs and faults: type correctness, and    *)
(* the package index against the rows it was built from (IndexDescribesRow, *)
(* RowsIndexed).                                                            *)
(***************************************************************************)
EXTENDS OsvSyncInv, FiniteSetTheorems, TLAPS

-----------------------------------------------------------------------------
(* Types of the operators the steps are built from *)

LEMMA JobsFacts ==
    /\ \A s \in Seeds : s \in Jobs /\ s[2] \in Ecosystems
    /\ DeltaJob \in Jobs /\ MetricsJob \in Jobs
    /\ DeltaJob \notin Seeds /\ MetricsJob \notin Seeds /\ DeltaJob # MetricsJob
BY DEF Jobs, Seeds, SeedRuns, DeltaJob, MetricsJob

LEMMA FinishedType == \A j \in Jobs : Finished(j) \in Job
<1> SUFFICES ASSUME NEW j \in Jobs PROVE Finished(j) \in Job
    OBVIOUS
<1>1. (IF j \in Seeds THEN j[2] ELSE CHOOSE e \in Ecosystems : TRUE) \in Ecosystems
    BY JobsFacts, EcosystemAssumption
<1>2. NoState \in SyncState /\ Nothing \in [Osv -> Nat]
    BY DEF NoState, SyncState, Statuses, Nothing
<1> QED
    BY <1>1, <1>2 DEF Finished, Job, Pcs

LEMMA AdvanceType ==
    ASSUME NEW new \in Job, NEW done, NEW pc \in Pcs, NEW rest \in SUBSET Osv
    PROVE  Advance(new, done, pc, rest) \in Job
<1>1. [new EXCEPT !.pc = pc, !.rest = rest] \in Job
    BY DEF Job
<1>2. [new EXCEPT !.rest = @ \ done] \in Job
    BY DEF Job
<1> QED
    BY <1>1, <1>2 DEF Advance

LEMMA HeldType == \A new : Held(new) \in SUBSET Osv
BY DEF Held

\* A batch is a part of what is left, and finite.
LEMMA BatchType ==
    ASSUME TypeOK, NEW j \in Jobs, NEW size, NEW batch \in Batches(j, size)
    PROVE  /\ batch \subseteq job[j].rest
           /\ batch \subseteq Osv
           /\ Cardinality(batch) \in Nat
<1>1. batch \subseteq job[j].rest
    BY DEF Batches, kSubset
<1>2. batch \subseteq Osv
    BY <1>1 DEF TypeOK, Job
<1>3. IsFiniteSet(batch)
    BY <1>2, OsvAssumption, FS_Subset
<1> QED
    BY <1>1, <1>2, <1>3, FS_CardinalityType

\* The ids of a batch are new, and different for different records.
LEMMA FreshIdsType ==
    ASSUME TypeOK, NEW batch, Cardinality(batch) \in Nat, NEW ids \in FreshIds(batch)
    PROVE  /\ ids \in [batch -> Nat \ {0}]
           /\ \A v \in batch : ids[v] >= nextId /\ ids[v] < nextId + Cardinality(batch)
           /\ \A v, w \in batch : ids[v] = ids[w] => v = w
<1>1. ids \in [batch -> nextId .. (nextId + Cardinality(batch) - 1)]
    BY DEF FreshIds, Injection
<1>2. \A v, w \in batch : ids[v] = ids[w] => v = w
    BY <1>1 DEF FreshIds, Injection, IsInjective
<1>3. nextId \in Nat \ {0}
    BY DEF TypeOK
<1> QED
    BY <1>1, <1>2, <1>3

LEMMA AssignType ==
    ASSUME NEW vid \in [Osv -> Nat], NEW batch, NEW ids \in [batch -> Nat]
    PROVE  Assign(vid, batch, ids) \in [Osv -> Nat]
BY DEF Assign

LEMMA UpsertType ==
    ASSUME TypeOK, NEW batch \in SUBSET Osv, Cardinality(batch) \in Nat,
           NEW content \in [Osv -> Nat], NEW ids \in FreshIds(batch),
           UpsertBatch(batch, content, ids)
    PROVE  /\ vulns' \in [Osv -> Row]
           /\ index' \subseteq IndexRow
           /\ nextId' \in Nat \ {0}
           /\ ids \in [batch -> Nat]
<1>1. ids \in [batch -> Nat \ {0}]
    BY FreshIdsType
<1>2. vulns' \in [Osv -> Row]
    BY <1>1 DEF UpsertBatch, TypeOK, Row
<1>3. index' \subseteq IndexRow
    BY DEF UpsertBatch, TypeOK
<1>4. nextId' \in Nat \ {0}
    BY DEF UpsertBatch, TypeOK
<1> QED
    BY <1>1, <1>2, <1>3, <1>4

LEMMA RollBackType ==
    ASSUME TypeOK, NEW batch \in SUBSET Osv, Cardinality(batch) \in Nat,
           NEW ids \in FreshIds(batch) \cup {ZeroIds(batch)},
           RollBackBatch(batch, ids)
    PROVE  /\ vulns' \in [Osv -> Row]
           /\ index' \subseteq IndexRow
           /\ nextId' \in Nat \ {0}
           /\ ids \in [batch -> Nat]
<1>1. ids \in [batch -> Nat]
    <2>1. CASE ids = ZeroIds(batch)
        BY <2>1 DEF ZeroIds
    <2>2. CASE ids \in FreshIds(batch)
        BY <2>2, FreshIdsType
    <2> QED BY <2>1, <2>2
<1>2. nextId' \in Nat \ {0}
    BY DEF RollBackBatch, TypeOK
<1> QED
    BY <1>1, <1>2 DEF RollBackBatch, TypeOK

LEMMA RebuildType ==
    ASSUME TypeOK, NEW batch \in SUBSET Osv, NEW content \in [Osv -> Nat],
           NEW vid \in [Osv -> Nat], BulkRebuildPackageIndex(batch, content, vid)
    PROVE  vulns' \in [Osv -> Row] /\ index' \subseteq IndexRow /\ nextId' \in Nat \ {0}
BY DEF BulkRebuildPackageIndex, TypeOK, IndexRow

LEMMA FaultType ==
    ASSUME TypeOK, NEW k \in FaultKinds, Fault(k)
    PROVE  faults' \in [FaultKinds -> Nat]
BY DEF Fault, TypeOK

LEMMA SetType ==
    ASSUME TypeOK, NEW j \in Jobs, NEW new \in Job, Set(j, new)
    PROVE  job' \in [Jobs -> Job]
BY DEF Set, TypeOK

-----------------------------------------------------------------------------
(* Type correctness *)

LEMMA InitType == Init => TypeOK
<1> SUFFICES ASSUME Init PROVE TypeOK
    OBVIOUS
<1>1. vulns \in [Osv -> Row] /\ index \subseteq IndexRow /\ nextId \in Nat \ {0}
    BY DEF Init, StoreInit, Absent, Row
<1>2. published \in [Osv -> Nat] /\ clock \in Nat
    BY DEF Init
<1>3. state \in [Ecosystems -> SyncState]
    BY DEF Init, NoState, SyncState, Statuses
<1>4. job \in [Jobs -> Job]
    BY FinishedType DEF Init
<1>5. runs \in [DOMAIN MaxRuns -> Nat] /\ faults \in [FaultKinds -> Nat]
    BY DEF Init
<1> QED
    BY <1>1, <1>2, <1>3, <1>4, <1>5 DEF TypeOK

\* The frame of a job's step that leaves the tables and osv.dev alone.
LEMMA LocalType ==
    ASSUME TypeOK, NEW j \in Jobs, NEW new \in Job, Set(j, new),
           UNCHANGED <<storeVars, published, clock, state, runs>>,
           faults' \in [FaultKinds -> Nat]
    PROVE  TypeOK'
<1>1. job' \in [Jobs -> Job]
    BY SetType
<1> QED
    BY <1>1 DEF TypeOK, storeVars

LEMMA ReadStateType ==
    ASSUME TypeOK, NEW j \in Jobs, NEW found \in Job, ReadState(j, found)
    PROVE  TypeOK'
<1>1. [job[j] EXCEPT !.pc = "create"] \in Job
    BY DEF TypeOK, Job, Pcs
<1>2. PICK new \in Job : Set(j, new)
    BY <1>1 DEF ReadState
<1> QED
    BY <1>2, LocalType DEF ReadState, TypeOK

LEMMA NewStateType == NewState \in SyncState /\ NoState \in SyncState
BY DEF NewState, NoState, SyncState, Statuses

LEMMA CreateStateType ==
    ASSUME TypeOK, NEW j \in Jobs, NEW created \in Job, NEW failed \in Job,
           CreateState(j, created, failed)
    PROVE  TypeOK'
<1>1. state' \in [Ecosystems -> SyncState]
    BY NewStateType DEF CreateState, TypeOK
<1>2. job' \in [Jobs -> Job]
    BY SetType DEF CreateState
<1> QED
    BY <1>1, <1>2 DEF CreateState, TypeOK, storeVars

LEMMA SaveStateType ==
    ASSUME TypeOK, NEW j \in Jobs, NEW row \in SyncState, NEW new \in Job,
           SaveState(j, row, new)
    PROVE  TypeOK'
<1>1. job' \in [Jobs -> Job]
    BY SetType DEF SaveState
<1>2. state' \in [Ecosystems -> SyncState] /\ faults' \in [FaultKinds -> Nat]
    <2>1. CASE state' = [state EXCEPT ![job[j].eco] = row] /\ UNCHANGED faults
        BY <2>1 DEF TypeOK
    <2>2. CASE Fault("save") /\ UNCHANGED state
        BY <2>2, FaultType DEF TypeOK, FaultKinds
    <2> QED
        BY <2>1, <2>2 DEF SaveState, UpdateSyncState
<1> QED
    BY <1>1, <1>2 DEF SaveState, TypeOK, storeVars

LEMMA NextEcoType ==
    ASSUME TypeOK, NEW j \in Jobs, NEW pc \in Pcs, NextEco(j, pc)
    PROVE  TypeOK'
<1>1. \A e \in job[j].left :
        [job[j] EXCEPT !.pc = pc, !.eco = e, !.left = @ \ {e}] \in Job
    BY DEF TypeOK, Job
<1>2. PICK new \in Job : Set(j, new)
    BY <1>1, FinishedType DEF NextEco
<1> QED
    BY <1>2, LocalType DEF NextEco, TypeOK

-----------------------------------------------------------------------------
LEMMA MetricsType ==
    ASSUME TypeOK, NEW j \in Jobs, MetricsGet(j) \/ MetricsCount(j) \/ MetricsPut(j)
    PROVE  TypeOK'
<1>j. job[j] \in Job /\ job[j].mem \in SyncState /\ job[j].eco \in Ecosystems
    BY DEF TypeOK, Job
<1>1. CASE MetricsGet(j)
    <2>1. state[job[j].eco] \in SyncState
        BY <1>j DEF TypeOK
    <2>2. [job[j] EXCEPT !.pc = "count", !.mem = state[job[j].eco]] \in Job
        BY <1>j, <2>1 DEF Job, Pcs
    <2> QED
        BY <1>1, <2>2, LocalType DEF MetricsGet, TypeOK
<1>2. CASE MetricsCount(j)
    <2> DEFINE n == Cardinality({v \in Osv : Stored(v) /\ Home[v] = job[j].eco})
    <2>1. n \in Nat
        BY OsvAssumption, FS_Subset, FS_CardinalityType
    <2> HIDE DEF n
    <2>2. [job[j].mem EXCEPT !.total = n] \in SyncState
        BY <1>j, <2>1 DEF SyncState
    <2>3. [job[j] EXCEPT !.pc = "put", !.mem.total = n] \in Job
        BY <1>j, <2>2 DEF Job, Pcs
    <2>4. Set(j, [job[j] EXCEPT !.pc = "put", !.mem.total = n])
        BY <1>2 DEF MetricsCount, n
    <2> QED
        BY <1>2, <2>3, <2>4, LocalType DEF MetricsCount, TypeOK
<1>3. CASE MetricsPut(j)
    <2>1. [job[j] EXCEPT !.pc = "next", !.mem = NoState] \in Job
        BY <1>j, NewStateType DEF Job, Pcs
    <2> QED
        BY <1>3, <1>j, <2>1, FinishedType, SaveStateType DEF MetricsPut
<1> QED
    BY <1>1, <1>2, <1>3

LEMMA SeedType == ASSUME TypeOK, NEW s \in Seeds, SeedStep(s) PROVE TypeOK'
<1> USE JobsFacts
<1>j. job[s] \in Job
    BY DEF TypeOK
<1>m. job[s].mem \in SyncState
    BY <1>j DEF Job
<1>1. CASE SeedBegin(s)
    <2>1. [job[s] EXCEPT !.pc = "mark", !.mem = state[s[2]]] \in Job
        BY <1>j DEF TypeOK, Job, Pcs
    <2> QED
        BY <1>1, <2>1, ReadStateType DEF SeedBegin
<1>2. CASE SeedCreate(s)
    <2>1. [job[s] EXCEPT !.pc = "mark", !.mem = NewState] \in Job
        BY <1>j, NewStateType DEF Job, Pcs
    <2> QED
        BY <1>2, <2>1, FinishedType, CreateStateType DEF SeedCreate
<1>3. CASE SeedMark(s)
    <2> DEFINE row == [job[s].mem EXCEPT !.status = "syncing"]
    <2>1. row \in SyncState
        BY <1>m DEF SyncState, Statuses
    <2>2. [job[s] EXCEPT !.pc = "download", !.mem = row] \in Job
        BY <1>j, <2>1 DEF Job, Pcs
    <2> QED
        BY <1>3, <2>1, <2>2, SaveStateType DEF SeedMark
<1>4. CASE SeedDownload(s)
    <2>1. \A bad \in SUBSET Dir[s[2]] :
            LET new == [job[s] EXCEPT !.content =
                            [v \in Osv |-> IF v \in Dir[s[2]] \ bad THEN published[v] ELSE 0]]
            IN  [new EXCEPT !.pc = IF Held(new) = {} THEN "save" ELSE "upsert",
                            !.rest = Held(new)] \in Job
        BY <1>j, HeldType DEF TypeOK, Job, Pcs
    <2>2. [job[s] EXCEPT !.pc = "error"] \in Job
        BY <1>j DEF Job, Pcs
    <2>3. PICK new \in Job : Set(s, new)
        BY <1>4, <2>1, <2>2 DEF SeedDownload
    <2>4. faults' \in [FaultKinds -> Nat]
        BY <1>4, FaultType DEF SeedDownload, TypeOK, FaultKinds
    <2> QED
        BY <1>4, <2>3, <2>4, LocalType DEF SeedDownload
<1>5. CASE SeedUpsert(s)
    <2>1. PICK batch \in Batches(s, SeedBatch) :
            \/ /\ \E ids \in FreshIds(batch) :
                    LET new == [job[s] EXCEPT !.vid = Assign(@, batch, ids)]
                    IN  /\ UpsertBatch(batch, job[s].content, ids)
                        /\ Set(s, Advance(new, batch, "index", Held(new)))
               /\ UNCHANGED faults
            \/ /\ \E ids \in FreshIds(batch) \cup {ZeroIds(batch)} : RollBackBatch(batch, ids)
               /\ Fault("upsert")
               /\ Set(s, [job[s] EXCEPT !.pc = "error"])
        BY <1>5 DEF SeedUpsert
    <2>2. batch \in SUBSET Osv /\ Cardinality(batch) \in Nat
        BY BatchType
    <2>3. CASE /\ \E ids \in FreshIds(batch) :
                    LET new == [job[s] EXCEPT !.vid = Assign(@, batch, ids)]
                    IN  /\ UpsertBatch(batch, job[s].content, ids)
                        /\ Set(s, Advance(new, batch, "index", Held(new)))
               /\ UNCHANGED faults
        <3>1. PICK ids \in FreshIds(batch) :
                    LET new == [job[s] EXCEPT !.vid = Assign(@, batch, ids)]
                    IN  /\ UpsertBatch(batch, job[s].content, ids)
                        /\ Set(s, Advance(new, batch, "index", Held(new)))
            BY <2>3
        <3> DEFINE new == [job[s] EXCEPT !.vid = Assign(@, batch, ids)]
        <3>2. job[s].content \in [Osv -> Nat] /\ job[s].vid \in [Osv -> Nat]
            BY <1>j DEF Job
        <3>3. /\ vulns' \in [Osv -> Row] /\ index' \subseteq IndexRow /\ nextId' \in Nat \ {0}
              /\ ids \in [batch -> Nat]
            BY <2>2, <3>1, <3>2, UpsertType
        <3>4. Assign(job[s].vid, batch, ids) \in [Osv -> Nat]
            BY <3>2, <3>3, AssignType
        <3>5. new \in Job
            BY <1>j, <3>4 DEF Job
        <3>6. Advance(new, batch, "index", Held(new)) \in Job
            BY <3>5, AdvanceType, HeldType DEF Pcs
        <3>7. job' \in [Jobs -> Job]
            BY <3>1, <3>6, SetType
        <3> QED
            BY <1>5, <2>3, <3>3, <3>7 DEF SeedUpsert, TypeOK
    <2>4. CASE /\ \E ids \in FreshIds(batch) \cup {ZeroIds(batch)} : RollBackBatch(batch, ids)
               /\ Fault("upsert")
               /\ Set(s, [job[s] EXCEPT !.pc = "error"])
        <3>1. vulns' \in [Osv -> Row] /\ index' \subseteq IndexRow /\ nextId' \in Nat \ {0}
            BY <2>2, <2>4, RollBackType
        <3>2. [job[s] EXCEPT !.pc = "error"] \in Job
            BY <1>j DEF Job, Pcs
        <3>3. job' \in [Jobs -> Job]
            BY <2>4, <3>2, SetType
        <3>4. faults' \in [FaultKinds -> Nat]
            BY <2>4, FaultType DEF FaultKinds
        <3> QED
            BY <1>5, <3>1, <3>3, <3>4 DEF SeedUpsert, TypeOK
    <2> QED
        BY <2>1, <2>3, <2>4
<1>6. CASE SeedIndex(s)
    <2>1. PICK batch \in Batches(s, SeedBatch) :
            /\ \/ /\ BulkRebuildPackageIndex(batch, job[s].content, job[s].vid)
                  /\ UNCHANGED faults
               \/ Fault("rebuild") /\ UNCHANGED storeVars
            /\ Set(s, Advance(job[s], batch, "save", {}))
        BY <1>6 DEF SeedIndex
    <2>2. batch \in SUBSET Osv
        BY BatchType
    <2>3. /\ vulns' \in [Osv -> Row] /\ index' \subseteq IndexRow /\ nextId' \in Nat \ {0}
          /\ faults' \in [FaultKinds -> Nat]
        <3>1. CASE BulkRebuildPackageIndex(batch, job[s].content, job[s].vid) /\ UNCHANGED faults
            BY <1>j, <2>2, <3>1, RebuildType DEF Job, TypeOK
        <3>2. CASE Fault("rebuild") /\ UNCHANGED storeVars
            BY <3>2, FaultType DEF TypeOK, storeVars, FaultKinds
        <3> QED
            BY <2>1, <3>1, <3>2
    <2>4. Advance(job[s], batch, "save", {}) \in Job
        BY <1>j, AdvanceType DEF Pcs
    <2>5. job' \in [Jobs -> Job]
        BY <2>1, <2>4, SetType
    <2> QED
        BY <1>6, <2>3, <2>5 DEF SeedIndex, TypeOK
<1>7. CASE SeedSave(s)
    <2>1. [job[s].mem EXCEPT !.status = "synced", !.full = TRUE] \in SyncState
        BY <1>m DEF SyncState, Statuses
    <2>2. [job[s] EXCEPT !.pc = "mget"] \in Job
        BY <1>j DEF Job, Pcs
    <2> QED
        BY <1>7, <2>1, <2>2, SaveStateType DEF SeedSave
<1>8. CASE SeedError(s)
    <2>1. [job[s].mem EXCEPT !.status = "error"] \in SyncState
        BY <1>m DEF SyncState, Statuses
    <2> QED
        BY <1>8, <2>1, FinishedType, SaveStateType DEF SeedError
<1> QED
    BY <1>1, <1>2, <1>3, <1>4, <1>5, <1>6, <1>7, <1>8, MetricsType DEF SeedStep

LEMMA DeltaRestType == TypeOK => DeltaRest \in Job
<1> SUFFICES ASSUME TypeOK PROVE DeltaRest \in Job
    OBVIOUS
<1>1. Finished(DeltaJob) \in Job /\ job[DeltaJob] \in Job
    BY JobsFacts, FinishedType DEF TypeOK
<1> QED
    BY <1>1 DEF DeltaRest, Job, Pcs

LEMMA DeltaFilterType ==
    ASSUME TypeOK, NEW row \in SyncState PROVE DeltaFilter(row) \in Job
<1>1. job[DeltaJob] \in Job /\ Dir[job[DeltaJob].eco] \in SUBSET Osv
    BY JobsFacts, EcosystemAssumption DEF TypeOK, Job
<1> DEFINE new == {v \in Dir[job[DeltaJob].eco] : job[DeltaJob].csv[v] > row.cursor}
<1>2. new \in SUBSET Osv
    BY <1>1
<1> HIDE DEF new
<1>3. [job[DeltaJob] EXCEPT !.pc = "fetch", !.mem = row, !.rest = new] \in Job
    BY <1>1, <1>2 DEF Job, Pcs
<1> QED
    BY <1>3, DeltaRestType DEF DeltaFilter, new

LEMMA FetchedType ==
    ASSUME NEW new \in Job, NEW v PROVE Fetched(new, v) \in Job
<1>1. Advance(new, {v}, "save", {}) \in Job
    BY AdvanceType DEF Pcs
<1>2. Advance(new, {v}, "upsert", Held(new)) \in Job
    BY AdvanceType, HeldType DEF Pcs
<1> QED
    BY <1>1, <1>2 DEF Fetched

LEMMA DeltaType == ASSUME TypeOK, DeltaStep PROVE TypeOK'
<1> DEFINE d == job[DeltaJob]
<1>d. d \in Job /\ DeltaJob \in Jobs
    BY JobsFacts DEF TypeOK
<1>1. CASE DeltaStart
    <2> DEFINE start == [d EXCEPT !.pc = "next", !.csv = published,
                                  !.left = {e \in Ecosystems : Dir[e] # {}}]
    <2>1. start \in Job
        BY <1>d DEF Job, Pcs, TypeOK
    <2>2. CASE Set(DeltaJob, start) /\ UNCHANGED faults
        BY <1>1, <1>d, <2>1, <2>2, LocalType DEF DeltaStart, TypeOK
    <2>3. CASE Fault("download") /\ UNCHANGED job
        BY <1>1, <2>3, FaultType DEF DeltaStart, TypeOK, FaultKinds, storeVars
    <2> QED
        BY <1>1, <2>2, <2>3 DEF DeltaStart
<1>2. CASE DeltaNext
    BY <1>2, <1>d, NextEcoType DEF DeltaNext, Pcs
<1>3. CASE DeltaGet
    <2>1. state[d.eco] \in SyncState
        BY <1>d DEF TypeOK, Job
    <2> QED
        BY <1>3, <1>d, <2>1, DeltaFilterType, ReadStateType DEF DeltaGet
<1>4. CASE DeltaCreate
    BY <1>4, <1>d, NewStateType, DeltaFilterType, DeltaRestType, CreateStateType DEF DeltaCreate
<1>5. CASE DeltaFetch
    <2>1. PICK v \in d.rest :
            \/ /\ Set(DeltaJob, Fetched([d EXCEPT !.content[v] = published[v],
                        !.latest = IF d.csv[v] > @ THEN d.csv[v] ELSE @], v))
               /\ UNCHANGED faults
            \/ Fault("fetch") /\ Set(DeltaJob, Fetched(d, v))
        BY <1>5 DEF DeltaFetch
    <2>2. v \in Osv
        BY <1>d DEF Job
    <2>3. [d EXCEPT !.content[v] = published[v],
                    !.latest = IF d.csv[v] > @ THEN d.csv[v] ELSE @] \in Job
        BY <1>d, <2>2 DEF Job, TypeOK
    <2>4. PICK new \in Job : Set(DeltaJob, new)
        BY <1>d, <2>1, <2>3, FetchedType
    <2>5. faults' \in [FaultKinds -> Nat]
        BY <2>1, FaultType DEF TypeOK, FaultKinds
    <2> QED
        BY <1>5, <1>d, <2>4, <2>5, LocalType DEF DeltaFetch
<1>6. CASE DeltaUpsert
    <2> DEFINE ok(batch, ids) == [d EXCEPT !.vid = Assign(@, batch, ids)]
               failed(batch, ids) == [d EXCEPT !.vid = Assign(@, batch, ids),
                                               !.pc = "index", !.rest = {}]
    <2>1. PICK batch \in Batches(DeltaJob, DeltaBatch) :
            \/ /\ \E ids \in FreshIds(batch) :
                    /\ UpsertBatch(batch, d.content, ids)
                    /\ Set(DeltaJob, Advance(ok(batch, ids), batch, "index", {}))
               /\ UNCHANGED faults
            \/ /\ \E ids \in FreshIds(batch) \cup {ZeroIds(batch)} :
                    /\ RollBackBatch(batch, ids)
                    /\ Set(DeltaJob, failed(batch, ids))
               /\ Fault("upsert")
        BY <1>6 DEF DeltaUpsert
    <2>2. batch \in SUBSET Osv /\ Cardinality(batch) \in Nat
        BY <1>d, BatchType
    <2>3. d.content \in [Osv -> Nat] /\ d.vid \in [Osv -> Nat]
        BY <1>d DEF Job
    <2>4. ASSUME NEW ids \in FreshIds(batch), UpsertBatch(batch, d.content, ids),
                 Set(DeltaJob, Advance(ok(batch, ids), batch, "index", {})),
                 UNCHANGED faults
          PROVE  TypeOK'
        <3>1. /\ vulns' \in [Osv -> Row] /\ index' \subseteq IndexRow /\ nextId' \in Nat \ {0}
              /\ ids \in [batch -> Nat]
            BY <2>2, <2>3, <2>4, UpsertType
        <3>2. Assign(d.vid, batch, ids) \in [Osv -> Nat]
            BY <2>3, <3>1, AssignType
        <3>3. ok(batch, ids) \in Job
            BY <1>d, <3>2 DEF Job
        <3>4. Advance(ok(batch, ids), batch, "index", {}) \in Job
            BY <3>3, AdvanceType DEF Pcs
        <3>5. job' \in [Jobs -> Job]
            BY <1>d, <2>4, <3>4, SetType
        <3> QED
            BY <1>6, <2>4, <3>1, <3>5 DEF DeltaUpsert, TypeOK
    <2>5. ASSUME NEW ids \in FreshIds(batch) \cup {ZeroIds(batch)},
                 RollBackBatch(batch, ids), Set(DeltaJob, failed(batch, ids)), Fault("upsert")
          PROVE  TypeOK'
        <3>1. /\ vulns' \in [Osv -> Row] /\ index' \subseteq IndexRow /\ nextId' \in Nat \ {0}
              /\ ids \in [batch -> Nat]
            BY <2>2, <2>5, RollBackType
        <3>2. Assign(d.vid, batch, ids) \in [Osv -> Nat]
            BY <2>3, <3>1, AssignType
        <3>3. failed(batch, ids) \in Job
            BY <1>d, <3>2 DEF Job, Pcs
        <3>4. job' \in [Jobs -> Job]
            BY <1>d, <2>5, <3>3, SetType
        <3>5. faults' \in [FaultKinds -> Nat]
            BY <2>5, FaultType DEF FaultKinds
        <3> QED
            BY <1>6, <3>1, <3>4, <3>5 DEF DeltaUpsert, TypeOK
    <2> QED
        BY <2>1, <2>4, <2>5
<1>7. CASE DeltaIndex
    <2>1. [d EXCEPT !.pc = "save"] \in Job
        BY <1>d DEF Job, Pcs
    <2>2. job' \in [Jobs -> Job]
        BY <1>7, <1>d, <2>1, SetType DEF DeltaIndex
    <2>3. /\ vulns' \in [Osv -> Row] /\ index' \subseteq IndexRow /\ nextId' \in Nat \ {0}
          /\ faults' \in [FaultKinds -> Nat]
        <3>1. CASE BulkRebuildPackageIndex(Held(d), d.content, d.vid) /\ UNCHANGED faults
            BY <1>d, <3>1, HeldType, RebuildType DEF Job, TypeOK
        <3>2. CASE Fault("rebuild") /\ UNCHANGED storeVars
            BY <3>2, FaultType DEF TypeOK, storeVars, FaultKinds
        <3> QED
            BY <1>7, <3>1, <3>2 DEF DeltaIndex
    <2> QED
        BY <1>7, <2>2, <2>3 DEF DeltaIndex, TypeOK
<1>8. CASE DeltaSave
    <2>1. d.mem \in SyncState /\ d.latest \in Nat
        BY <1>d DEF Job
    <2>2. (IF d.latest = 0 THEN d.mem ELSE [d.mem EXCEPT !.cursor = d.latest]) \in SyncState
        BY <2>1 DEF SyncState
    <2> QED
        BY <1>8, <1>d, <2>2, DeltaRestType, SaveStateType DEF DeltaSave
<1> QED
    BY <1>1, <1>2, <1>3, <1>4, <1>5, <1>6, <1>7, <1>8 DEF DeltaStep

LEMMA RunsType ==
    ASSUME TypeOK, NEW r \in DOMAIN MaxRuns, runs' = [runs EXCEPT ![r] = @ + 1]
    PROVE  runs' \in [DOMAIN MaxRuns -> Nat]
<1>1. runs \in [DOMAIN MaxRuns -> Nat]
    BY DEF TypeOK
<1> HIDE DEF TypeOK
<1> QED
    BY <1>1

LEMMA RunNames == SeedRuns \subseteq DOMAIN MaxRuns /\ "metrics" \in DOMAIN MaxRuns
BY BoundAssumption

LEMMA NextType == TypeOK /\ [Next]_vars => TypeOK'
<1> SUFFICES ASSUME TypeOK, [Next]_vars PROVE TypeOK'
    OBVIOUS
<1>1. CASE \E v \in Osv : Publish(v)
    BY <1>1 DEF Publish, TypeOK, storeVars, jobVars
<1>2. ASSUME NEW r \in SeedRuns, StartSeedAll(r) PROVE TypeOK'
    <2>1. \A j \in Jobs : [job[j] EXCEPT !.pc = "ready"] \in Job
        BY DEF TypeOK, Job, Pcs
    <2>2. job' \in [Jobs -> Job]
        BY <1>2, <2>1 DEF StartSeedAll, TypeOK
    <2>3. runs' \in [DOMAIN MaxRuns -> Nat]
        BY <1>2, RunNames, RunsType DEF StartSeedAll
    <2> QED
        BY <1>2, <2>2, <2>3 DEF StartSeedAll, TypeOK, storeVars
<1>3. ASSUME NEW s \in Seeds, SeedStep(s) PROVE TypeOK'
    BY <1>3, SeedType
<1>4. CASE DeltaStep
    BY <1>4, DeltaType
<1>5. CASE MetricsStep
    <2>1. CASE StartMetrics
        <3>1. [job[MetricsJob] EXCEPT !.pc = "next",
                    !.left = {e \in Ecosystems : state[e] # NoState}] \in Job
            <4>1. job[MetricsJob] \in Job
                BY JobsFacts DEF TypeOK
            <4> QED
                BY <4>1 DEF Job, Pcs
        <3>2. job' \in [Jobs -> Job]
            BY <2>1, <3>1, JobsFacts, SetType DEF StartMetrics
        <3>3. runs' \in [DOMAIN MaxRuns -> Nat]
            BY <2>1, RunNames, RunsType DEF StartMetrics
        <3> QED
            BY <2>1, <3>2, <3>3 DEF StartMetrics, TypeOK, storeVars
    <2>2. CASE MetricsNext
        BY <2>2, JobsFacts, NextEcoType DEF MetricsNext, Pcs
    <2> QED
        BY <1>5, <2>1, <2>2, JobsFacts, MetricsType DEF MetricsStep
<1>6. CASE Crash
    BY <1>6, FinishedType, FaultType DEF Crash, TypeOK, storeVars, FaultKinds
<1>7. CASE UNCHANGED vars
    BY <1>7 DEF vars, TypeOK, storeVars
<1> QED
    BY <1>1, <1>2, <1>3, <1>4, <1>5, <1>6, <1>7 DEF Next

\* Every variable keeps its type, for every set of records and ecosystems and
\* every schedule of the jobs of syncer.go and scheduler.go.
THEOREM TypeCorrect == Spec => []TypeOK
<1> QED
    BY InitType, NextType, PTL DEF Spec

-----------------------------------------------------------------------------
(* What a job holds *)

LEMMA FinishedShape == \A j \in Jobs : Shape(j, Finished(j))
<1> SUFFICES ASSUME NEW j \in Jobs PROVE Shape(j, Finished(j))
    OBVIOUS
<1> QED
    BY DEF Shape, Finished, EarlyPcs, Nothing

LEMMA SetShape ==
    ASSUME TypeOK, ShapeInv, NEW j \in Jobs, NEW new, Set(j, new), Shape(j, new)
    PROVE  ShapeInv'
<1> SUFFICES ASSUME NEW k \in Jobs PROVE Shape(k, job'[k])
    BY DEF ShapeInv, Shape, Held
<1> QED
    BY DEF ShapeInv, Set, TypeOK

-----------------------------------------------------------------------------
(* The four kinds of steps, as the tables and the jobs' ids see them *)

Broken == faults["upsert"] + faults["rebuild"] + faults["crash"] # 0

SameIds(j, new) == new.vid = job[j].vid /\ new.content = job[j].content

LocalStep ==
    /\ UNCHANGED storeVars
    /\ \A k \in Jobs :
        /\ job'[k].vid = Nothing \/ SameIds(k, job'[k])
        /\ job[k].pc \in {"upsert", "index"} => job'[k] = job[k] \/ Broken'

UpsertStep(j, batch, ids, new) ==
    /\ At(j, "upsert")
    /\ batch \subseteq Held(job[j])
    /\ Cardinality(batch) \in Nat
    /\ ids \in FreshIds(batch)
    /\ UpsertBatch(batch, job[j].content, ids)
    /\ Set(j, new)
    /\ new.vid = Assign(job[j].vid, batch, ids)
    /\ new.content = job[j].content
    /\ \/ new.pc = "upsert"
       \/ new.pc = "index" /\ (j = DeltaJob \/ new.rest = Held(new))
    /\ UNCHANGED faults

RollBackStep(j, batch, ids, new) ==
    /\ batch \subseteq Held(job[j])
    /\ Cardinality(batch) \in Nat
    /\ ids \in FreshIds(batch) \cup {ZeroIds(batch)}
    /\ RollBackBatch(batch, ids)
    /\ Set(j, new)
    /\ new.vid = job[j].vid \/ new.vid = Assign(job[j].vid, batch, ids)
    /\ new.content = job[j].content
    /\ Fault("upsert")

RebuildStep(j, batch, new) ==
    /\ At(j, "index")
    /\ batch \subseteq Held(job[j])
    /\ BulkRebuildPackageIndex(batch, job[j].content, job[j].vid)
    /\ Set(j, new)
    /\ SameIds(j, new)
    /\ \/ At(j, "index") /\ new.pc = "index" /\ new.rest = job[j].rest \ batch
       \/ batch = Held(job[j])
       \/ j # DeltaJob /\ job[j].rest \subseteq batch
    /\ UNCHANGED faults

StepKind ==
    \/ LocalStep
    \/ \E j \in Jobs, batch \in SUBSET Osv : \E ids, new :
        UpsertStep(j, batch, ids, new) \/ RollBackStep(j, batch, ids, new)
    \/ \E j \in Jobs, batch \in SUBSET Osv : \E new : RebuildStep(j, batch, new)

LEMMA LocalSet ==
    ASSUME TypeOK, NEW j \in Jobs, NEW new, Set(j, new), UNCHANGED storeVars,
           new.vid = Nothing \/ SameIds(j, new),
           job[j].pc \notin {"upsert", "index"} \/ Broken'
    PROVE  LocalStep
<1>1. job' = [job EXCEPT ![j] = new] /\ job \in [Jobs -> Job]
    BY DEF Set, TypeOK
<1>2. \A k \in Jobs : job'[k] = IF k = j THEN new ELSE job[k]
    BY <1>1
<1> HIDE DEF Job
<1> QED
    BY <1>2 DEF LocalStep, SameIds

\* A step of job j from a step at which it neither upserts nor indexes.
LEMMA QuietKind ==
    ASSUME TypeOK, ShapeInv, NEW j \in Jobs, NEW new, Set(j, new), Shape(j, new),
           UNCHANGED storeVars, job[j].pc \notin {"upsert", "index"},
           new.vid = Nothing \/ SameIds(j, new)
    PROVE  ShapeInv' /\ StepKind
BY SetShape, LocalSet DEF StepKind

LEMMA ReadStateKind ==
    ASSUME TypeOK, ShapeInv, NEW j \in Jobs, NEW found, ReadState(j, found),
           job[j].pc \in EarlyPcs \ {"next"}, Shape(j, found), found.vid = Nothing
    PROVE  ShapeInv' /\ StepKind
<1> DEFINE new == [job[j] EXCEPT !.pc = "create"]
<1>1. CASE Set(j, found)
    BY <1>1, QuietKind DEF ReadState, EarlyPcs
<1>2. CASE Set(j, new)
    <2>1. job[j] \in Job /\ Shape(j, job[j])
        BY DEF TypeOK, ShapeInv
    <2>2. Shape(j, new) /\ SameIds(j, new)
        BY <2>1 DEF Shape, SameIds, Job, EarlyPcs, Held
    <2> QED
        BY <1>2, <2>2, QuietKind DEF ReadState, EarlyPcs
<1> QED
    BY <1>1, <1>2 DEF ReadState

LEMMA CreateStateKind ==
    ASSUME TypeOK, ShapeInv, NEW j \in Jobs, NEW created, NEW failed,
           CreateState(j, created, failed), Shape(j, created), Shape(j, failed),
           created.vid = Nothing, failed.vid = Nothing
    PROVE  ShapeInv' /\ StepKind
BY QuietKind DEF CreateState, At

LEMMA SaveStateKind ==
    ASSUME TypeOK, ShapeInv, NEW j \in Jobs, NEW row, NEW new, SaveState(j, row, new),
           Shape(j, new), job[j].pc \notin {"upsert", "index"},
           new.vid = Nothing \/ SameIds(j, new)
    PROVE  ShapeInv' /\ StepKind
BY QuietKind DEF SaveState

LEMMA NextEcoKind ==
    ASSUME TypeOK, ShapeInv, NEW j \in {DeltaJob, MetricsJob}, NEW pc \in {"get", "mget"},
           NextEco(j, pc)
    PROVE  ShapeInv' /\ StepKind
<1>j. j \in Jobs /\ j \notin Seeds /\ job[j] \in Job /\ Shape(j, job[j])
    BY JobsFacts DEF TypeOK, ShapeInv
<1>1. job[j].vid = Nothing /\ job[j].pc = "next"
    BY <1>j DEF NextEco, At, Shape, EarlyPcs
<1>2. ASSUME NEW e \in job[j].left,
             Set(j, [job[j] EXCEPT !.pc = pc, !.eco = e, !.left = @ \ {e}])
      PROVE  ShapeInv' /\ StepKind
    <2> DEFINE new == [job[j] EXCEPT !.pc = pc, !.eco = e, !.left = @ \ {e}]
    <2>1. new.vid = Nothing /\ new.content = job[j].content /\ new.pc = pc
        BY <1>j, <1>1 DEF Job
    <2>2. Shape(j, new)
        BY <1>j, <1>1, <2>1 DEF Shape, Nothing
    <2> HIDE DEF new
    <2>3. Set(j, new) /\ UNCHANGED storeVars
        BY <1>2 DEF new, NextEco
    <2> QED
        BY <1>j, <1>1, <2>1, <2>2, <2>3, QuietKind
<1>3. CASE Set(j, Finished(j))
    BY <1>j, <1>1, <1>3, FinishedShape, QuietKind DEF NextEco, Finished
<1> QED
    BY <1>2, <1>3 DEF NextEco

LEMMA MetricsKind ==
    ASSUME TypeOK, ShapeInv, NEW j \in Jobs, MetricsGet(j) \/ MetricsCount(j) \/ MetricsPut(j)
    PROVE  ShapeInv' /\ StepKind
<1>j. job[j] \in Job /\ Shape(j, job[j])
    BY DEF TypeOK, ShapeInv
<1>1. CASE MetricsGet(j)
    <2> DEFINE new == [job[j] EXCEPT !.pc = "count", !.mem = state[job[j].eco]]
    <2>1. Shape(j, new) /\ SameIds(j, new)
        BY <1>j DEF Shape, SameIds, Job, EarlyPcs, Held
    <2> QED
        BY <1>1, <2>1, QuietKind DEF MetricsGet, At
<1>2. CASE MetricsCount(j)
    <2> DEFINE n == Cardinality({v \in Osv : Stored(v) /\ Home[v] = job[j].eco})
               new == [job[j] EXCEPT !.pc = "put", !.mem.total = n]
    <2>1. Shape(j, new) /\ SameIds(j, new)
        <3> HIDE DEF n
        <3> QED BY <1>j DEF Shape, SameIds, Job, EarlyPcs, Held
    <2> QED
        BY <1>2, <2>1, QuietKind DEF MetricsCount, At
<1>3. CASE MetricsPut(j)
    <2>1. job[j].pc = "put"
        BY <1>3 DEF MetricsPut, At
    <2> DEFINE new == [job[j] EXCEPT !.pc = "next", !.mem = NoState]
    <2>2. CASE j = MetricsJob /\ SaveState(j, job[j].mem, new)
        <3>1. Shape(j, new) /\ new.vid = Nothing
            BY <1>j, <2>2, JobsFacts DEF Shape, Job, Held
        <3> HIDE DEF new
        <3> QED
            BY <2>1, <2>2, <3>1, SaveStateKind
    <2>3. CASE SaveState(j, job[j].mem, Finished(j))
        <3>1. Shape(j, Finished(j)) /\ Finished(j).vid = Nothing
            BY FinishedShape DEF Finished
        <3> QED
            BY <2>1, <2>3, <3>1, SaveStateKind
    <2> QED BY <1>3, <2>2, <2>3 DEF MetricsPut
<1> QED
    BY <1>1, <1>2, <1>3

LEMMA UpsertKind ==
    ASSUME TypeOK, ShapeInv, NEW j \in Jobs, NEW size, NEW batch \in Batches(j, size),
           NEW ids \in FreshIds(batch), NEW new, At(j, "upsert"),
           UpsertBatch(batch, job[j].content, ids), UNCHANGED faults,
           new = [job[j] EXCEPT !.vid = Assign(@, batch, ids)],
           \/ Set(j, Advance(new, batch, "index", Held(new)))
           \/ Set(j, Advance(new, batch, "index", {})) /\ j = DeltaJob
    PROVE  ShapeInv' /\ StepKind
<1>j. job[j] \in Job /\ Shape(j, job[j])
    BY DEF TypeOK, ShapeInv
<1>b. batch \subseteq job[j].rest /\ batch \in SUBSET Osv /\ Cardinality(batch) \in Nat
    BY BatchType
<1>h. batch \subseteq Held(job[j])
    BY <1>j, <1>b DEF Shape, At
<1>i. ids \in [batch -> Nat \ {0}]
    BY <1>b, FreshIdsType
<1>v. Assign(job[j].vid, batch, ids) \in [Osv -> Nat]
    <2>1. job[j].vid \in [Osv -> Nat] /\ ids \in [batch -> Nat]
        BY <1>j, <1>i DEF Job
    <2> QED BY <2>1, AssignType
<1>n. /\ new \in Job /\ new.vid = Assign(job[j].vid, batch, ids)
      /\ new.content = job[j].content /\ new.pc = "upsert" /\ new.eco = job[j].eco
      /\ new.rest = job[j].rest /\ Held(new) = Held(job[j])
    BY <1>j, <1>v DEF Job, At, Held
<1>1. PICK rest \in {Held(new), {}} :
            Set(j, Advance(new, batch, "index", rest)) /\ (rest = Held(new) \/ j = DeltaJob)
    OBVIOUS
<1> DEFINE adv == Advance(new, batch, "index", rest)
<1>2. /\ adv.vid = new.vid /\ adv.content = new.content /\ adv.eco = new.eco
      /\ \/ adv.pc = "index" /\ adv.rest = rest
         \/ adv.pc = "upsert" /\ adv.rest = new.rest \ batch
    <2>1. "index" \in Pcs /\ rest \in SUBSET Osv
        BY HeldType DEF Pcs
    <2> QED
        BY <1>n, <2>1 DEF Advance, Job
<1>3. Held(adv) = Held(job[j])
    BY <1>n, <1>2 DEF Held
<1> HIDE DEF adv
<1>4. j # MetricsJob
    BY <1>j DEF Shape, At
<1>5. Shape(j, adv)
    <2>1. \A v \in Osv : adv.vid[v] # 0 => adv.content[v] # 0
        BY <1>j, <1>h, <1>n, <1>2 DEF Shape, Assign, Held
    <2>2. adv.rest \subseteq Held(adv)
        BY <1>j, <1>n, <1>2, <1>3 DEF Shape, At
    <2> QED
        BY <1>j, <1>n, <1>2, <1>4, <2>1, <2>2 DEF Shape, EarlyPcs
<1>6. ShapeInv'
    BY <1>1, <1>5, SetShape DEF adv
<1>7. UpsertStep(j, batch, ids, adv)
    BY <1>1, <1>2, <1>3, <1>b, <1>h, <1>n DEF UpsertStep, adv
<1> QED
    BY <1>6, <1>7, <1>b DEF StepKind

LEMMA SeedKind ==
    ASSUME TypeOK, ShapeInv, NEW s \in Seeds, SeedStep(s) PROVE ShapeInv' /\ StepKind
<1>s. s \in Jobs /\ s # MetricsJob /\ s # DeltaJob
    BY JobsFacts
<1>j. job[s] \in Job /\ Shape(s, job[s]) /\ job[s].eco = s[2]
    BY <1>s DEF TypeOK, ShapeInv, Shape
<1>1. CASE SeedBegin(s)
    <2> DEFINE new == [job[s] EXCEPT !.pc = "mark", !.mem = state[s[2]]]
    <2>1. job[s].pc = "ready" /\ job[s].vid = Nothing
        BY <1>1, <1>j DEF SeedBegin, At, Shape, EarlyPcs
    <2>2. Shape(s, new) /\ new.vid = Nothing
        BY <1>s, <1>j, <2>1 DEF Shape, Job, Nothing
    <2> QED
        BY <1>1, <1>s, <2>1, <2>2, ReadStateKind DEF SeedBegin, EarlyPcs
<1>2. CASE SeedCreate(s)
    <2> DEFINE new == [job[s] EXCEPT !.pc = "mark", !.mem = NewState]
    <2>1. job[s].pc = "create" /\ job[s].vid = Nothing
        BY <1>2, <1>j DEF SeedCreate, CreateState, At, Shape, EarlyPcs
    <2>2. Shape(s, new) /\ new.vid = Nothing
        BY <1>s, <1>j, <2>1 DEF Shape, Job, Nothing
    <2>3. Shape(s, Finished(s)) /\ Finished(s).vid = Nothing
        BY <1>s, FinishedShape DEF Finished
    <2> QED
        BY <1>2, <1>s, <2>2, <2>3, CreateStateKind DEF SeedCreate
<1>3. CASE SeedMark(s)
    <2> DEFINE row == [job[s].mem EXCEPT !.status = "syncing"]
               new == [job[s] EXCEPT !.pc = "download", !.mem = row]
    <2>1. job[s].pc = "mark" /\ job[s].vid = Nothing
        BY <1>3, <1>j DEF SeedMark, At, Shape, EarlyPcs
    <2>2. Shape(s, new) /\ new.vid = Nothing
        <3> HIDE DEF row
        <3> QED BY <1>s, <1>j, <2>1 DEF Shape, Job, Nothing
    <2> QED
        BY <1>3, <1>s, <2>1, <2>2, SaveStateKind DEF SeedMark
<1>4. CASE SeedDownload(s)
    <2> DEFINE zip(bad) == [job[s] EXCEPT !.content =
                    [v \in Osv |-> IF v \in Dir[s[2]] \ bad THEN published[v] ELSE 0]]
               new(bad) == [zip(bad) EXCEPT
                    !.pc = IF Held(zip(bad)) = {} THEN "save" ELSE "upsert",
                    !.rest = Held(zip(bad))]
    <2>1. job[s].pc = "download" /\ job[s].vid = Nothing
        BY <1>4, <1>j DEF SeedDownload, At, Shape, EarlyPcs
    <2>2. ASSUME NEW bad \in SUBSET Dir[s[2]], Set(s, new(bad))
          PROVE  ShapeInv' /\ StepKind
        <3>1. /\ new(bad).vid = Nothing /\ new(bad).eco = s[2]
              /\ new(bad).pc \in {"save", "upsert"}
              /\ new(bad).content = zip(bad).content
              /\ new(bad).rest = Held(zip(bad))
            BY <1>j, <2>1 DEF Job
        <3>2. Held(new(bad)) = Held(zip(bad))
            BY <3>1 DEF Held
        <3> HIDE DEF new
        <3>3. Shape(s, new(bad))
            BY <1>s, <3>1, <3>2 DEF Shape, EarlyPcs, Nothing
        <3> QED
            BY <1>4, <1>s, <2>1, <2>2, <3>1, <3>3, QuietKind DEF SeedDownload
    <2>3. CASE Set(s, [job[s] EXCEPT !.pc = "error"])
        <3>1. Shape(s, [job[s] EXCEPT !.pc = "error"])
              /\ [job[s] EXCEPT !.pc = "error"].vid = Nothing
            BY <1>s, <1>j, <2>1 DEF Shape, Job, EarlyPcs, Nothing
        <3> QED
            BY <1>4, <1>s, <2>1, <2>3, <3>1, QuietKind DEF SeedDownload
    <2> QED
        BY <1>4, <2>2, <2>3 DEF SeedDownload
<1>5. CASE SeedUpsert(s)
    <2>0. At(s, "upsert")
        BY <1>5 DEF SeedUpsert
    <2>1. ASSUME NEW batch \in Batches(s, SeedBatch), NEW ids \in FreshIds(batch),
                 UpsertBatch(batch, job[s].content, ids), UNCHANGED faults,
                 LET new == [job[s] EXCEPT !.vid = Assign(@, batch, ids)]
                 IN  Set(s, Advance(new, batch, "index", Held(new)))
          PROVE  ShapeInv' /\ StepKind
        BY <1>s, <2>0, <2>1, UpsertKind
    <2>2. ASSUME NEW batch \in Batches(s, SeedBatch),
                 NEW ids \in FreshIds(batch) \cup {ZeroIds(batch)}, RollBackBatch(batch, ids),
                 Fault("upsert"), Set(s, [job[s] EXCEPT !.pc = "error"])
          PROVE  ShapeInv' /\ StepKind
        <3> DEFINE new == [job[s] EXCEPT !.pc = "error"]
        <3>1. Shape(s, new) /\ new.vid = job[s].vid /\ new.content = job[s].content
            BY <1>s, <1>j DEF Shape, Job, EarlyPcs
        <3> HIDE DEF new
        <3>2. ShapeInv'
            BY <1>s, <2>2, <3>1, SetShape DEF new
        <3>3. batch \subseteq Held(job[s]) /\ batch \in SUBSET Osv /\ Cardinality(batch) \in Nat
            BY <1>s, <1>j, <2>0, BatchType DEF Shape, At
        <3>4. RollBackStep(s, batch, ids, new)
            BY <2>2, <3>1, <3>3 DEF RollBackStep, new
        <3> QED
            BY <1>s, <3>2, <3>3, <3>4 DEF StepKind
    <2> QED
        BY <1>5, <2>1, <2>2 DEF SeedUpsert
<1>6. CASE SeedIndex(s)
    <2>1. PICK batch \in Batches(s, SeedBatch) :
            /\ \/ /\ BulkRebuildPackageIndex(batch, job[s].content, job[s].vid)
                  /\ UNCHANGED faults
               \/ Fault("rebuild") /\ UNCHANGED storeVars
            /\ Set(s, Advance(job[s], batch, "save", {}))
        BY <1>6 DEF SeedIndex
    <2> DEFINE new == Advance(job[s], batch, "save", {})
    <2>2. At(s, "index") /\ job[s].pc = "index"
        BY <1>6 DEF SeedIndex, At
    <2>3. /\ SameIds(s, new) /\ new.eco = job[s].eco
          /\ \/ new.pc = "save" /\ job[s].rest \subseteq batch
             \/ new.pc = "index" /\ new.rest = job[s].rest \ batch
        <3>1. "save" \in Pcs /\ {} \in SUBSET Osv
            BY DEF Pcs
        <3>2. /\ new.vid = job[s].vid /\ new.content = job[s].content
              /\ new.eco = job[s].eco
              /\ \/ new.pc = "save" /\ new.rest = {} /\ job[s].rest \subseteq batch
                 \/ new.pc = job[s].pc /\ new.rest = job[s].rest \ batch
            BY <1>j, <3>1 DEF Advance, Job
        <3> QED
            BY <2>2, <3>2 DEF SameIds
    <2> HIDE DEF new
    <2>4. Shape(s, new)
        BY <1>s, <1>j, <2>2, <2>3 DEF Shape, SameIds, EarlyPcs, Held
    <2>5. ShapeInv'
        BY <1>s, <2>1, <2>4, SetShape DEF new
    <2>6. batch \subseteq Held(job[s]) /\ batch \in SUBSET Osv
        BY <1>s, <1>j, <2>2, BatchType DEF Shape
    <2>7. CASE BulkRebuildPackageIndex(batch, job[s].content, job[s].vid) /\ UNCHANGED faults
        <3>1. RebuildStep(s, batch, new)
            BY <1>s, <2>1, <2>2, <2>3, <2>6, <2>7 DEF RebuildStep, new
        <3> QED
            BY <1>s, <2>5, <2>6, <3>1 DEF StepKind
    <2>8. CASE Fault("rebuild") /\ UNCHANGED storeVars
        <3>1. Broken'
            BY <2>8 DEF Broken, Fault, TypeOK, FaultKinds
        <3>2. LocalStep
            BY <1>s, <2>1, <2>3, <2>8, <3>1, LocalSet DEF new
        <3> QED
            BY <2>5, <3>2 DEF StepKind
    <2> QED
        BY <2>1, <2>7, <2>8
<1>7. CASE SeedSave(s)
    <2> DEFINE new == [job[s] EXCEPT !.pc = "mget"]
    <2>1. Shape(s, new) /\ SameIds(s, new)
        BY <1>s, <1>j DEF Shape, SameIds, Job, EarlyPcs
    <2> QED
        BY <1>7, <1>s, <2>1, SaveStateKind DEF SeedSave, At
<1>8. CASE SeedError(s)
    <2>1. Shape(s, Finished(s)) /\ Finished(s).vid = Nothing
        BY <1>s, FinishedShape DEF Finished
    <2> QED
        BY <1>8, <1>s, <2>1, SaveStateKind DEF SeedError, At
<1> QED
    BY <1>1, <1>2, <1>3, <1>4, <1>5, <1>6, <1>7, <1>8, <1>s, MetricsKind DEF SeedStep

LEMMA DeltaRestShape ==
    Shape(DeltaJob, DeltaRest) /\ DeltaRest.vid = Nothing
BY JobsFacts DEF DeltaRest, Finished, Shape, EarlyPcs, Nothing

LEMMA DeltaFilterShape ==
    ASSUME TypeOK, job[DeltaJob].vid = Nothing, NEW row
    PROVE  Shape(DeltaJob, DeltaFilter(row)) /\ DeltaFilter(row).vid = Nothing
<1> DEFINE new(left) == [job[DeltaJob] EXCEPT !.pc = "fetch", !.mem = row, !.rest = left]
<1>1. ASSUME NEW left PROVE Shape(DeltaJob, new(left)) /\ new(left).vid = Nothing
    <2>1. job[DeltaJob] \in Job
        BY JobsFacts DEF TypeOK
    <2> QED
        BY <2>1, JobsFacts DEF Shape, Job, Nothing
<1> HIDE DEF new
<1>2. DeltaFilter(row) = DeltaRest \/ \E left : DeltaFilter(row) = new(left)
    BY DEF DeltaFilter, new
<1> QED
    BY <1>1, <1>2, DeltaRestShape

LEMMA FetchedShape ==
    ASSUME NEW new \in Job, new.vid = Nothing, new.pc = "fetch", NEW v
    PROVE  Shape(DeltaJob, Fetched(new, v)) /\ Fetched(new, v).vid = Nothing
<1> DEFINE adv(pc, rest) == Advance(new, {v}, pc, rest)
<1>1. ASSUME NEW pc \in {"save", "upsert"}, NEW rest \in SUBSET Held(new)
      PROVE  Shape(DeltaJob, adv(pc, rest)) /\ adv(pc, rest).vid = Nothing
    <2>1. /\ adv(pc, rest).vid = Nothing /\ adv(pc, rest).content = new.content
          /\ \/ adv(pc, rest).pc = "fetch"
             \/ adv(pc, rest).pc \in {"save", "upsert"} /\ adv(pc, rest).rest = rest
        BY DEF Advance, Job
    <2>2. Held(adv(pc, rest)) = Held(new)
        BY <2>1 DEF Held
    <2> HIDE DEF adv
    <2> QED
        BY <2>1, <2>2, JobsFacts DEF Shape, Nothing
<1>2. {} \in SUBSET Held(new) /\ Held(new) \in SUBSET Held(new)
    OBVIOUS
<1>3. Fetched(new, v) = adv("save", {}) \/ Fetched(new, v) = adv("upsert", Held(new))
    BY DEF Fetched
<1> HIDE DEF adv
<1> QED
    BY <1>1, <1>2, <1>3

LEMMA DeltaKind == ASSUME TypeOK, ShapeInv, DeltaStep PROVE ShapeInv' /\ StepKind
<1> DEFINE d == job[DeltaJob]
<1>d. d \in Job /\ Shape(DeltaJob, d) /\ DeltaJob \in Jobs
      /\ DeltaJob # MetricsJob /\ DeltaJob \notin Seeds
    BY JobsFacts DEF TypeOK, ShapeInv
<1>1. CASE DeltaStart
    <2> DEFINE start == [d EXCEPT !.pc = "next", !.csv = published,
                                  !.left = {e \in Ecosystems : Dir[e] # {}}]
    <2>0. At(DeltaJob, "idle") /\ d.pc = "idle"
        BY <1>1 DEF DeltaStart, At
    <2>1. CASE Set(DeltaJob, start)
        <3>1. Shape(DeltaJob, start) /\ start.vid = Nothing
            BY <1>d, <2>0 DEF Shape, Job, EarlyPcs, Nothing
        <3> QED
            BY <1>1, <1>d, <2>0, <2>1, <3>1, QuietKind DEF DeltaStart
    <2>2. CASE UNCHANGED job
        BY <1>1, <2>2 DEF DeltaStart, StepKind, LocalStep, SameIds, ShapeInv, Shape, Held
    <2> QED
        BY <1>1, <2>1, <2>2 DEF DeltaStart
<1>2. CASE DeltaNext
    BY <1>2, NextEcoKind DEF DeltaNext
<1>3. CASE DeltaGet
    <2>1. d.pc = "get" /\ d.vid = Nothing
        BY <1>3, <1>d DEF DeltaGet, At, Shape, EarlyPcs
    <2> QED
        BY <1>3, <1>d, <2>1, DeltaFilterShape, ReadStateKind DEF DeltaGet, EarlyPcs
<1>4. CASE DeltaCreate
    <2>1. d.pc = "create" /\ d.vid = Nothing
        BY <1>4, <1>d DEF DeltaCreate, CreateState, At, Shape, EarlyPcs
    <2> QED
        BY <1>4, <1>d, <2>1, DeltaFilterShape, DeltaRestShape, CreateStateKind DEF DeltaCreate
<1>5. CASE DeltaFetch
    <2>1. PICK v \in d.rest :
            \/ /\ Set(DeltaJob, Fetched([d EXCEPT !.content[v] = published[v],
                        !.latest = IF d.csv[v] > @ THEN d.csv[v] ELSE @], v))
               /\ UNCHANGED faults
            \/ Fault("fetch") /\ Set(DeltaJob, Fetched(d, v))
        BY <1>5 DEF DeltaFetch
    <2> DEFINE got == [d EXCEPT !.content[v] = published[v],
                                !.latest = IF d.csv[v] > @ THEN d.csv[v] ELSE @]
    <2>2. d.pc = "fetch" /\ d.vid = Nothing
        BY <1>5, <1>d DEF DeltaFetch, At, Shape, EarlyPcs
    <2>3. v \in Osv
        BY <1>d DEF Job
    <2>4. got \in Job /\ got.pc = "fetch" /\ got.vid = Nothing
        BY <1>d, <2>2, <2>3 DEF Job, TypeOK
    <2> HIDE DEF got
    <2>5. PICK new : /\ Set(DeltaJob, new) /\ Shape(DeltaJob, new) /\ new.vid = Nothing
        <3>1. Shape(DeltaJob, Fetched(got, v)) /\ Fetched(got, v).vid = Nothing
            BY <2>4, FetchedShape
        <3>2. Shape(DeltaJob, Fetched(d, v)) /\ Fetched(d, v).vid = Nothing
            BY <1>d, <2>2, FetchedShape
        <3> QED
            BY <2>1, <3>1, <3>2 DEF got
    <2> QED
        BY <1>5, <1>d, <2>2, <2>5, QuietKind DEF DeltaFetch
<1>6. CASE DeltaUpsert
    <2>0. At(DeltaJob, "upsert")
        BY <1>6 DEF DeltaUpsert
    <2>1. ASSUME NEW batch \in Batches(DeltaJob, DeltaBatch), NEW ids \in FreshIds(batch),
                 UpsertBatch(batch, d.content, ids), UNCHANGED faults,
                 Set(DeltaJob, Advance([d EXCEPT !.vid = Assign(@, batch, ids)],
                                       batch, "index", {}))
          PROVE  ShapeInv' /\ StepKind
        BY <1>d, <2>0, <2>1, UpsertKind
    <2>2. ASSUME NEW batch \in Batches(DeltaJob, DeltaBatch),
                 NEW ids \in FreshIds(batch) \cup {ZeroIds(batch)}, RollBackBatch(batch, ids),
                 Set(DeltaJob, [d EXCEPT !.vid = Assign(@, batch, ids),
                                         !.pc = "index", !.rest = {}]),
                 Fault("upsert")
          PROVE  ShapeInv' /\ StepKind
        <3> DEFINE new == [d EXCEPT !.vid = Assign(@, batch, ids), !.pc = "index", !.rest = {}]
        <3>1. batch \subseteq Held(d) /\ batch \in SUBSET Osv /\ Cardinality(batch) \in Nat
            BY <1>d, <2>0, BatchType DEF Shape, At
        <3>2. /\ new.vid = Assign(d.vid, batch, ids) /\ new.content = d.content
              /\ new.pc = "index" /\ new.rest = {}
            BY <1>d DEF Job
        <3> HIDE DEF new
        <3>3. \A v \in Osv : new.vid[v] # 0 => new.content[v] # 0
            BY <1>d, <3>1, <3>2 DEF Shape, Assign, Held
        <3>4. Shape(DeltaJob, new)
            BY <1>d, <3>2, <3>3 DEF Shape, EarlyPcs
        <3>5. ShapeInv'
            BY <1>d, <2>2, <3>4, SetShape DEF new
        <3>6. RollBackStep(DeltaJob, batch, ids, new)
            BY <2>2, <3>1, <3>2 DEF RollBackStep, new
        <3> QED
            BY <1>d, <3>1, <3>5, <3>6 DEF StepKind
    <2> QED
        BY <1>6, <2>1, <2>2 DEF DeltaUpsert
<1>7. CASE DeltaIndex
    <2> DEFINE new == [d EXCEPT !.pc = "save"]
    <2>1. At(DeltaJob, "index") /\ d.pc = "index"
        BY <1>7 DEF DeltaIndex, At
    <2>2. Shape(DeltaJob, new) /\ SameIds(DeltaJob, new)
        BY <1>d, <2>1 DEF Shape, SameIds, Job, EarlyPcs
    <2> HIDE DEF new
    <2>3. Set(DeltaJob, new)
        BY <1>7 DEF DeltaIndex, new
    <2>4. ShapeInv'
        BY <1>d, <2>2, <2>3, SetShape
    <2>5. CASE BulkRebuildPackageIndex(Held(d), d.content, d.vid) /\ UNCHANGED faults
        <3>1. RebuildStep(DeltaJob, Held(d), new)
            BY <2>1, <2>2, <2>3, <2>5 DEF RebuildStep
        <3> QED
            BY <1>d, <2>4, <3>1, HeldType DEF StepKind
    <2>6. CASE Fault("rebuild") /\ UNCHANGED storeVars
        <3>1. Broken'
            BY <2>6 DEF Broken, Fault, TypeOK, FaultKinds
        <3>2. LocalStep
            BY <1>d, <2>2, <2>3, <2>6, <3>1, LocalSet
        <3> QED
            BY <2>4, <3>2 DEF StepKind
    <2> QED
        BY <1>7, <2>5, <2>6 DEF DeltaIndex
<1>8. CASE DeltaSave
    BY <1>8, <1>d, DeltaRestShape, SaveStateKind DEF DeltaSave, At
<1> QED
    BY <1>1, <1>2, <1>3, <1>4, <1>5, <1>6, <1>7, <1>8 DEF DeltaStep

LEMMA InitShape == Init => ShapeInv
BY FinishedShape DEF Init, ShapeInv

LEMMA NextKind == ASSUME TypeOK, ShapeInv, [Next]_vars PROVE ShapeInv' /\ StepKind
<1>1. ASSUME NEW v \in Osv, Publish(v) PROVE ShapeInv' /\ StepKind
    BY <1>1 DEF Publish, jobVars, StepKind, LocalStep, SameIds, ShapeInv, Shape, Held
<1>2. ASSUME NEW r \in SeedRuns, StartSeedAll(r) PROVE ShapeInv' /\ StepKind
    <2>1. /\ \A j \in Jobs : \/ job'[j] = job[j]
                             \/ /\ j \in Seeds /\ job[j].pc = "idle"
                                /\ job'[j] = [job[j] EXCEPT !.pc = "ready"]
          /\ UNCHANGED storeVars
        <3>1. \A j \in Seeds : j[1] = r => j = <<r, j[2]>> /\ j[2] \in Ecosystems
            BY DEF Seeds
        <3> QED
            BY <1>2, <3>1 DEF StartSeedAll, At
    <2>2. ASSUME NEW j \in Jobs
          PROVE  /\ Shape(j, job'[j])
                 /\ SameIds(j, job'[j])
                 /\ job[j].pc \in {"upsert", "index"} => job'[j] = job[j]
        <3>1. job[j] \in Job /\ Shape(j, job[j])
            BY DEF TypeOK, ShapeInv
        <3>2. CASE job'[j] = job[j]
            BY <3>1, <3>2 DEF SameIds
        <3>3. CASE /\ j \in Seeds /\ job[j].pc = "idle"
                   /\ job'[j] = [job[j] EXCEPT !.pc = "ready"]
            BY <3>1, <3>3 DEF SameIds, Shape, EarlyPcs, Job
        <3> QED
            BY <2>1, <3>2, <3>3
    <2>3. ShapeInv'
        BY <2>2 DEF ShapeInv, Shape, Held
    <2>4. LocalStep
        BY <2>1, <2>2 DEF LocalStep
    <2> QED
        BY <2>3, <2>4 DEF StepKind
<1>3. ASSUME NEW s \in Seeds, SeedStep(s) PROVE ShapeInv' /\ StepKind
    BY <1>3, SeedKind
<1>4. CASE DeltaStep
    BY <1>4, DeltaKind
<1>5. CASE MetricsStep
    <2>1. CASE StartMetrics
        <3> DEFINE new == [job[MetricsJob] EXCEPT !.pc = "next",
                                !.left = {e \in Ecosystems : state[e] # NoState}]
        <3>1. job[MetricsJob] \in Job /\ Shape(MetricsJob, job[MetricsJob])
            BY JobsFacts DEF TypeOK, ShapeInv
        <3>2. job[MetricsJob].pc = "idle" /\ job[MetricsJob].vid = Nothing
            BY <2>1, <3>1 DEF StartMetrics, At, Shape
        <3>3. Shape(MetricsJob, new) /\ new.vid = Nothing
            BY <3>1, <3>2, JobsFacts DEF Shape, Job, Nothing
        <3> QED
            BY <2>1, <3>2, <3>3, JobsFacts, QuietKind DEF StartMetrics
    <2>2. CASE MetricsNext
        BY <2>2, NextEcoKind DEF MetricsNext
    <2> QED
        BY <1>5, <2>1, <2>2, JobsFacts, MetricsKind DEF MetricsStep
<1>6. CASE Crash
    <2>1. \A j \in Jobs : job'[j] = Finished(j) /\ Finished(j).vid = Nothing
        BY <1>6 DEF Crash, Finished
    <2>2. Broken'
        BY <1>6 DEF Crash, Broken, Fault, TypeOK, FaultKinds
    <2>3. ShapeInv'
        <3> SUFFICES ASSUME NEW j \in Jobs PROVE Shape(j, job'[j])
            BY DEF ShapeInv, Shape, Held
        <3> QED
            BY <2>1, FinishedShape
    <2>4. LocalStep
        BY <1>6, <2>1, <2>2 DEF Crash, LocalStep
    <2> QED
        BY <2>3, <2>4 DEF StepKind
<1>7. CASE UNCHANGED vars
    BY <1>7 DEF vars, StepKind, LocalStep, SameIds, ShapeInv, Shape, Held
<1> QED
    BY <1>1, <1>2, <1>3, <1>4, <1>5, <1>6, <1>7 DEF Next

\* A step has at most one fault, and counts it.
LEMMA OneFault ==
    ASSUME [Next]_vars PROVE UNCHANGED faults \/ \E k \in FaultKinds : Fault(k)
<1>1. ASSUME NEW s \in Jobs, MetricsGet(s) \/ MetricsCount(s) \/ MetricsPut(s)
      PROVE  UNCHANGED faults \/ \E k \in FaultKinds : Fault(k)
    BY <1>1 DEF MetricsGet, MetricsCount, MetricsPut, SaveState, UpdateSyncState, FaultKinds
<1>2. ASSUME NEW s \in Seeds, SeedStep(s)
      PROVE  UNCHANGED faults \/ \E k \in FaultKinds : Fault(k)
    BY <1>1, <1>2, JobsFacts
       DEF SeedStep, SeedBegin, SeedCreate, SeedMark, SeedDownload, SeedUpsert, SeedIndex,
           SeedSave, SeedError, ReadState, CreateState, SaveState, UpdateSyncState, FaultKinds
<1>3. CASE DeltaStep
    BY <1>3
       DEF DeltaStep, DeltaStart, DeltaNext, DeltaGet, DeltaCreate, DeltaFetch, DeltaUpsert,
           DeltaIndex, DeltaSave, NextEco, ReadState, CreateState, SaveState,
           UpdateSyncState, FaultKinds
<1>4. CASE MetricsStep
    BY <1>1, <1>4, JobsFacts DEF MetricsStep, StartMetrics, MetricsNext, NextEco
<1> QED
    BY <1>2, <1>3, <1>4 DEF Next, Publish, StartSeedAll, Crash, FaultKinds, vars

\* No fault is forgotten.
LEMMA FaultsGrow ==
    ASSUME TypeOK, [Next]_vars
    PROVE  \A k \in FaultKinds : faults[k] <= faults'[k]
<1>1. ASSUME NEW k \in FaultKinds, Fault(k)
      PROVE  \A n \in FaultKinds : faults[n] <= faults'[n]
    BY <1>1 DEF Fault, TypeOK
<1>2. CASE UNCHANGED faults
    BY <1>2 DEF TypeOK
<1> QED
    BY <1>1, <1>2, OneFault

-----------------------------------------------------------------------------
(* IndexDescribesRow *)

LEMMA InitIndex == Init => IndexInv
BY JobsFacts
   DEF Init, StoreInit, Absent, Stored, Finished, Nothing, IndexInv, IdsBelowCounter,
       IdsDistinct, IdKnowsContent, IndexDescribesRow

\* Ids that have been handed out once stay so only if no rollback takes any back.
LEMMA UsedOnceBefore ==
    ASSUME TypeOK, \A k \in FaultKinds : faults[k] <= faults'[k], IdsUsedOnce'
    PROVE  IdsUsedOnce
BY DEF IdsUsedOnce, TypeOK, FaultKinds

LEMMA LocalIndex ==
    ASSUME TypeOK, IdsBelowCounter, IdsDistinct, IdKnowsContent, IndexDescribesRow, LocalStep
    PROVE  (IdsBelowCounter /\ IdsDistinct /\ IdKnowsContent /\ IndexDescribesRow)'
<1>1. vulns' = vulns /\ index' = index /\ nextId' = nextId
    BY DEF LocalStep, storeVars
<1>2. \A j \in Jobs : job'[j].vid = Nothing \/ SameIds(j, job'[j])
    BY DEF LocalStep
<1>3. IdsBelowCounter'
    BY <1>1, <1>2 DEF IdsBelowCounter, SameIds, Nothing, TypeOK
<1>4. IdsDistinct' /\ IndexDescribesRow'
    BY <1>1 DEF IdsDistinct, IndexDescribesRow, Stored
<1>5. IdKnowsContent'
    BY <1>1, <1>2 DEF IdKnowsContent, SameIds, Nothing, Stored
<1> QED
    BY <1>3, <1>4, <1>5

\* The ids of an upsert are new: no table, and no job, has them.
LEMMA UpsertIndex ==
    ASSUME TypeOK, IdsBelowCounter, IdsDistinct, IdKnowsContent, IndexDescribesRow,
           NEW j \in Jobs, NEW batch \in SUBSET Osv, NEW ids, NEW new,
           UpsertStep(j, batch, ids, new)
    PROVE  (IdsBelowCounter /\ IdsDistinct /\ IdKnowsContent /\ IndexDescribesRow)'
<1>1. /\ ids \in [batch -> Nat \ {0}]
      /\ \A v \in batch : ids[v] >= nextId /\ ids[v] < nextId'
      /\ \A v, w \in batch : ids[v] = ids[w] => v = w
      /\ nextId \in Nat /\ nextId' \in Nat /\ nextId <= nextId'
    BY FreshIdsType DEF UpsertStep, UpsertBatch, TypeOK
<1>2. \A v \in Osv : vulns'[v] = IF v \in batch THEN [id |-> ids[v], rev |-> job[j].content[v]]
                                                ELSE vulns[v]
    BY DEF UpsertStep, UpsertBatch
<1>3. \A v \in Osv : /\ v \in batch => vulns'[v].id = ids[v] /\ vulns'[v].rev = job[j].content[v]
                     /\ v \notin batch => vulns'[v] = vulns[v]
    <2> SUFFICES ASSUME NEW v \in Osv
                 PROVE  /\ v \in batch => /\ vulns'[v].id = ids[v]
                                          /\ vulns'[v].rev = job[j].content[v]
                        /\ v \notin batch => vulns'[v] = vulns[v]
        OBVIOUS
    <2>1. CASE v \in batch
        <3>1. vulns'[v] = [id |-> ids[v], rev |-> job[j].content[v]]
            BY <1>2, <2>1
        <3> QED
            BY <2>1, <3>1
    <2>2. CASE v \notin batch
        BY <1>2, <2>2
    <2> QED
        BY <2>1, <2>2
<1>4. \A k \in Jobs : job'[k] = IF k = j THEN new ELSE job[k]
    BY DEF UpsertStep, Set, TypeOK
<1>5. /\ new.content = job[j].content
      /\ \A v \in Osv : new.vid[v] = IF v \in batch THEN ids[v] ELSE job[j].vid[v]
    BY DEF UpsertStep, Assign
<1>6. \A k \in Jobs : /\ job'[k].content = job[k].content
                      /\ \A v \in Osv : job'[k].vid[v] = IF k = j /\ v \in batch
                                                         THEN ids[v] ELSE job[k].vid[v]
    BY <1>4, <1>5
<1>7. index' \subseteq index
    BY DEF UpsertStep, UpsertBatch
<1>8. /\ \A v \in Osv : vulns[v].id \in Nat
      /\ \A r \in index : r.vid \in Nat
      /\ \A k \in Jobs, v \in Osv : job[k].vid[v] \in Nat
    BY DEF TypeOK, Row, IndexRow, Job
<1>9. IdsBelowCounter'
    BY <1>1, <1>3, <1>6, <1>7, <1>8 DEF IdsBelowCounter
<1>10. IdsDistinct'
    BY <1>1, <1>3, <1>8 DEF IdsDistinct, IdsBelowCounter, Stored
<1>11. IndexDescribesRow'
    BY <1>1, <1>3, <1>7, <1>8 DEF IndexDescribesRow, IdsBelowCounter, Stored
<1>12. IdKnowsContent'
    <2> SUFFICES ASSUME NEW k \in Jobs, NEW v \in Osv, NEW w \in Osv,
                        vulns'[w].id # 0, job'[k].vid[v] = vulns'[w].id
                 PROVE  w = v /\ vulns'[w].rev = job'[k].content[v]
        BY DEF IdKnowsContent, Stored
    <2>1. CASE w \in batch
        <3>1. k = j /\ v \in batch
            BY <1>1, <1>3, <1>6, <1>8, <2>1 DEF IdsBelowCounter
        <3> QED
            BY <1>1, <1>3, <1>6, <2>1, <3>1
    <2>2. CASE w \notin batch
        <3>1. ~(k = j /\ v \in batch)
            BY <1>1, <1>3, <1>6, <1>8, <2>2 DEF IdsBelowCounter
        <3>2. Stored(w) /\ job[k].vid[v] = vulns[w].id
            BY <1>3, <1>6, <2>2, <3>1 DEF Stored
        <3> QED
            BY <1>3, <1>6, <2>2, <3>2 DEF IdKnowsContent
    <2> QED
        BY <2>1, <2>2
<1> QED
    BY <1>9, <1>10, <1>11, <1>12

\* The ids of a rolled-back insert are in memory only, and used no more.
LEMMA RollBackIndex ==
    ASSUME TypeOK, IdsBelowCounter, IdsDistinct, IdKnowsContent, IndexDescribesRow,
           NEW j \in Jobs, NEW batch \in SUBSET Osv, NEW ids, NEW new,
           RollBackStep(j, batch, ids, new), IdsUsedOnce'
    PROVE  (IdsBelowCounter /\ IdsDistinct /\ IdKnowsContent /\ IndexDescribesRow)'
<1>1. ~RollbackFreesIds
    BY DEF RollBackStep, Fault, IdsUsedOnce, TypeOK, FaultKinds
<1>2. vulns' = vulns /\ index' = index
    BY DEF RollBackStep, RollBackBatch
<1>3. /\ nextId \in Nat \ {0} /\ nextId' \in Nat /\ nextId <= nextId'
      /\ \A v \in batch : ids[v] \in Nat /\ ids[v] < nextId' /\ (ids[v] = 0 \/ ids[v] >= nextId)
    <2>1. nextId \in Nat \ {0} /\ Cardinality(batch) \in Nat
        BY DEF RollBackStep, TypeOK
    <2>2. CASE ids = ZeroIds(batch)
        BY <2>1, <2>2 DEF RollBackStep, RollBackBatch, ZeroIds
    <2>3. CASE ids # ZeroIds(batch)
        <3>1. ids \in FreshIds(batch)
            BY <2>3 DEF RollBackStep
        <3>2. nextId' = nextId + Cardinality(batch)
            BY <1>1, <2>3 DEF RollBackStep, RollBackBatch
        <3> QED
            BY <2>1, <3>1, <3>2, FreshIdsType
    <2> QED
        BY <2>2, <2>3
<1>4. \A k \in Jobs : job'[k] = IF k = j THEN new ELSE job[k]
    BY DEF RollBackStep, Set, TypeOK
<1>5. /\ new.content = job[j].content
      /\ \A v \in Osv : \/ new.vid[v] = job[j].vid[v]
                        \/ v \in batch /\ new.vid[v] = ids[v]
    BY DEF RollBackStep, Assign
<1>6. \A k \in Jobs : /\ job'[k].content = job[k].content
                      /\ \A v \in Osv : \/ job'[k].vid[v] = job[k].vid[v]
                                        \/ v \in batch /\ job'[k].vid[v] = ids[v]
    BY <1>4, <1>5
<1>7. /\ \A v \in Osv : vulns[v].id \in Nat
      /\ \A r \in index : r.vid \in Nat
      /\ \A k \in Jobs, v \in Osv : job[k].vid[v] \in Nat
    BY DEF TypeOK, Row, IndexRow, Job
<1>8. IdsBelowCounter'
    BY <1>2, <1>3, <1>6, <1>7 DEF IdsBelowCounter
<1>9. IdsDistinct' /\ IndexDescribesRow'
    BY <1>2 DEF IdsDistinct, IndexDescribesRow, Stored
<1>10. IdKnowsContent'
    BY <1>2, <1>3, <1>6, <1>7 DEF IdKnowsContent, IdsBelowCounter, Stored
<1> QED
    BY <1>8, <1>9, <1>10

\* A rebuild tags index rows with an id of which the job knows the content.
LEMMA RebuildIndex ==
    ASSUME TypeOK, IdsBelowCounter, IdsDistinct, IdKnowsContent, IndexDescribesRow,
           NEW j \in Jobs, NEW batch \in SUBSET Osv, NEW new, RebuildStep(j, batch, new)
    PROVE  (IdsBelowCounter /\ IdsDistinct /\ IdKnowsContent /\ IndexDescribesRow)'
<1>1. vulns' = vulns /\ nextId' = nextId
    BY DEF RebuildStep, BulkRebuildPackageIndex
<1>2. \A r \in index' : \/ r \in index
                        \/ \E v \in batch : r = [vid |-> job[j].vid[v], osv |-> v,
                                                 rev |-> job[j].content[v]]
    BY DEF RebuildStep, BulkRebuildPackageIndex
<1>3. \A r \in index' : \/ r \in index
                        \/ \E v \in batch : /\ r.vid = job[j].vid[v] /\ r.osv = v
                                            /\ r.rev = job[j].content[v]
    BY <1>2
<1>4. \A k \in Jobs : job'[k].vid = job[k].vid /\ job'[k].content = job[k].content
    BY DEF RebuildStep, SameIds, Set, TypeOK
<1>5. IdsBelowCounter'
    BY <1>1, <1>3, <1>4 DEF IdsBelowCounter
<1>6. IdsDistinct' /\ IdKnowsContent'
    BY <1>1, <1>4 DEF IdsDistinct, IdKnowsContent, Stored
<1>7. IndexDescribesRow'
    BY <1>1, <1>3 DEF IndexDescribesRow, IdKnowsContent, Stored
<1> QED
    BY <1>5, <1>6, <1>7

LEMMA NextIndex ==
    ASSUME TypeOK, ShapeInv, IndexInv, [Next]_vars PROVE IndexInv'
<1> SUFFICES ASSUME IdsUsedOnce'
             PROVE  (IdsBelowCounter /\ IdsDistinct /\ IdKnowsContent /\ IndexDescribesRow)'
    BY DEF IndexInv
<1>1. IdsBelowCounter /\ IdsDistinct /\ IdKnowsContent /\ IndexDescribesRow
    BY FaultsGrow, UsedOnceBefore DEF IndexInv
<1>2. StepKind
    BY NextKind
<1> QED
    BY <1>1, <1>2, LocalIndex, UpsertIndex, RollBackIndex, RebuildIndex DEF StepKind

\* Spec keeps the index invariant, with what each job holds.
LEMMA IndexCorrect == Spec => [](TypeOK /\ ShapeInv /\ IndexInv)
<1>1. Init => ShapeInv /\ IndexInv
    BY InitShape, InitIndex
<1>2. TypeOK /\ ShapeInv /\ IndexInv /\ [Next]_vars => (ShapeInv /\ IndexInv)'
    BY NextKind, NextIndex
<1> QED
    BY <1>1, <1>2, TypeCorrect, PTL DEF Spec

\* Over any records, ecosystems, batches, workers and faults, the index rows
\* with the id of a stored row were built from that row, as long as no id is
\* handed out twice: on PostgreSQL always, on SQLite until a transaction of
\* BulkUpsertVulnerabilities is rolled back.
THEOREM IndexRowsDescribeTheirRow == Spec => [](IdsUsedOnce => IndexDescribesRow)
<1>1. IndexInv => (IdsUsedOnce => IndexDescribesRow)
    BY DEF IndexInv
<1> QED
    BY <1>1, IndexCorrect, PTL

-----------------------------------------------------------------------------
(* RowsIndexed *)

RowFound(v) == Indexed(v) \/ \E j \in Jobs : WillIndex(j, v)

LEMMA BrokenBefore ==
    ASSUME TypeOK, \A k \in FaultKinds : faults[k] <= faults'[k], faults' \in [FaultKinds -> Nat],
           ~Broken'
    PROVE  ~Broken /\ IdsUsedOnce
BY DEF Broken, IdsUsedOnce, TypeOK, FaultKinds

LEMMA LocalFound ==
    ASSUME TypeOK, LocalStep, ~Broken', NEW v \in Osv, Stored(v), RowFound(v)
    PROVE  RowFound(v)'
<1>1. vulns' = vulns /\ index' = index
    BY DEF LocalStep, storeVars
<1>2. \A j \in Jobs : job[j].pc \in {"upsert", "index"} => job'[j] = job[j]
    BY DEF LocalStep
<1> QED
    BY <1>1, <1>2 DEF RowFound, Indexed, WillIndex, At

\* An upsert drops the index rows of its own records only, which it will index.
LEMMA UpsertFound ==
    ASSUME TypeOK, ShapeInv, IdsDistinct, NEW j \in Jobs, NEW batch \in SUBSET Osv, NEW ids,
           NEW new, UpsertStep(j, batch, ids, new), NEW v \in Osv, Stored(v)', 
           Stored(v) => RowFound(v)
    PROVE  RowFound(v)'
<1>1. \A k \in Jobs : job'[k] = IF k = j THEN new ELSE job[k]
    BY DEF UpsertStep, Set, TypeOK
<1>2. /\ new.content = job[j].content /\ Held(new) = Held(job[j])
      /\ \A w \in Osv : new.vid[w] = IF w \in batch THEN ids[w] ELSE job[j].vid[w]
    BY DEF UpsertStep, Assign, Held
<1>3. \/ new.pc = "upsert"
      \/ new.pc = "index" /\ (j = DeltaJob \/ new.rest = Held(new))
    BY DEF UpsertStep
<1>4. ASSUME v \in Held(new), new.vid[v] = vulns'[v].id PROVE RowFound(v)'
    BY <1>1, <1>3, <1>4 DEF RowFound, WillIndex, At
<1>5. CASE v \in batch
    <2>1. vulns'[v] = [id |-> ids[v], rev |-> job[j].content[v]]
        BY <1>5 DEF UpsertStep, UpsertBatch
    <2>2. vulns'[v].id = ids[v]
        BY <2>1
    <2>3. v \in Held(new)
        BY <1>2, <1>5 DEF UpsertStep
    <2> QED
        BY <1>2, <1>4, <1>5, <2>2, <2>3
<1>6. CASE v \notin batch
    <2>1. vulns'[v] = vulns[v] /\ Stored(v) /\ RowFound(v)
        BY <1>6 DEF UpsertStep, UpsertBatch, Stored
    <2>2. CASE Indexed(v)
        <3>1. PICK r \in index : r.vid = vulns[v].id
            BY <2>2 DEF Indexed
        <3>2. r \in index'
            BY <1>6, <2>1, <3>1 DEF UpsertStep, UpsertBatch, IdsDistinct
        <3> QED
            BY <2>1, <3>1, <3>2 DEF RowFound, Indexed
    <2>3. ASSUME NEW k \in Jobs, WillIndex(k, v) PROVE RowFound(v)'
        <3>1. CASE k = j
            <4>1. new.vid[v] = vulns'[v].id /\ job[j].vid[v] # 0
                BY <1>2, <1>6, <2>1, <2>3, <3>1 DEF WillIndex, Stored
            <4>2. v \in Held(new)
                BY <1>2, <4>1 DEF ShapeInv, Shape, Held
            <4> QED
                BY <1>4, <4>1, <4>2
        <3>2. CASE k # j
            BY <1>1, <2>1, <2>3, <3>2 DEF RowFound, WillIndex, At
        <3> QED
            BY <3>1, <3>2
    <2> QED
        BY <2>1, <2>2, <2>3 DEF RowFound
<1> QED
    BY <1>5, <1>6

\* A rebuild writes a row for every id of which it deletes rows.
LEMMA RebuildFound ==
    ASSUME TypeOK, ShapeInv, NEW j \in Jobs, NEW batch \in SUBSET Osv, NEW new,
           RebuildStep(j, batch, new), NEW v \in Osv, Stored(v), RowFound(v)
    PROVE  RowFound(v)'
<1>1. \A k \in Jobs : job'[k] = IF k = j THEN new ELSE job[k]
    BY DEF RebuildStep, Set, TypeOK
<1>2. vulns' = vulns
    BY DEF RebuildStep, BulkRebuildPackageIndex
<1>3. ASSUME NEW w \in batch, job[j].vid[w] = vulns[v].id PROVE RowFound(v)'
    <2> DEFINE r == [vid |-> job[j].vid[w], osv |-> w, rev |-> job[j].content[w]]
    <2>1. r \in index' /\ r.vid = job[j].vid[w]
        BY DEF RebuildStep, BulkRebuildPackageIndex
    <2> QED
        BY <1>2, <1>3, <2>1 DEF RowFound, Indexed
<1>4. CASE Indexed(v)
    <2>1. PICK r \in index : r.vid = vulns[v].id
        BY <1>4 DEF Indexed
    <2>2. CASE r \in index'
        BY <1>2, <2>1, <2>2 DEF RowFound, Indexed
    <2>3. CASE r \notin index'
        <3>1. \E w \in batch : r.vid = job[j].vid[w]
            BY <2>3 DEF RebuildStep, BulkRebuildPackageIndex
        <3> QED
            BY <1>3, <2>1, <3>1
    <2> QED
        BY <2>2, <2>3
<1>5. ASSUME NEW k \in Jobs, k # j, WillIndex(k, v) PROVE RowFound(v)'
    BY <1>1, <1>2, <1>5 DEF RowFound, WillIndex, At
<1>6. CASE WillIndex(j, v)
    <2>1. job[j].vid[v] = vulns[v].id /\ v \in Held(job[j])
        BY <1>6 DEF WillIndex, Stored, ShapeInv, Shape, Held
    <2>2. At(j, "index") /\ (j = DeltaJob \/ v \in job[j].rest)
        BY <1>6 DEF WillIndex, RebuildStep, At
    <2>3. CASE v \in batch
        BY <1>3, <2>1, <2>3
    <2>4. CASE v \notin batch
        <3>1. new.pc = "index" /\ new.rest = job[j].rest \ batch
            BY <2>1, <2>2, <2>4 DEF RebuildStep
        <3>2. new.vid[v] = vulns'[v].id
            BY <1>2, <2>1 DEF RebuildStep, SameIds
        <3> QED
            BY <1>1, <2>2, <2>4, <3>1, <3>2 DEF RowFound, WillIndex, At
    <2> QED
        BY <2>3, <2>4
<1> QED
    BY <1>4, <1>5, <1>6 DEF RowFound

LEMMA InitRows == Init => RowsIndexed
BY DEF Init, StoreInit, Absent, Stored, RowsIndexed

LEMMA NextRows ==
    ASSUME TypeOK, TypeOK', ShapeInv, IndexInv, RowsIndexed, [Next]_vars
    PROVE  RowsIndexed'
<1> SUFFICES ASSUME ~Broken', NEW v \in Osv, Stored(v)'
             PROVE  RowFound(v)'
    BY DEF RowsIndexed, Broken, RowFound
<1>1. ~Broken /\ IdsUsedOnce
    BY FaultsGrow, BrokenBefore DEF TypeOK
<1>2. IdsDistinct /\ (Stored(v) => RowFound(v))
    BY <1>1 DEF IndexInv, RowsIndexed, Broken, RowFound
<1>3. StepKind
    BY NextKind
<1>4. CASE LocalStep
    <2>1. Stored(v)
        BY <1>4 DEF LocalStep, storeVars, Stored
    <2> QED
        BY <1>2, <1>4, <2>1, LocalFound
<1>5. ASSUME NEW j \in Jobs, NEW batch \in SUBSET Osv, NEW ids, NEW new,
             UpsertStep(j, batch, ids, new)
      PROVE  RowFound(v)'
    BY <1>2, <1>5, UpsertFound
<1>6. ASSUME NEW j \in Jobs, NEW batch \in SUBSET Osv, NEW ids, NEW new,
             RollBackStep(j, batch, ids, new)
      PROVE  FALSE
    BY <1>6 DEF RollBackStep, Fault, Broken, TypeOK, FaultKinds
<1>7. ASSUME NEW j \in Jobs, NEW batch \in SUBSET Osv, NEW new, RebuildStep(j, batch, new)
      PROVE  RowFound(v)'
    <2>1. Stored(v)
        BY <1>7 DEF RebuildStep, BulkRebuildPackageIndex, Stored
    <2> QED
        BY <1>2, <1>7, <2>1, RebuildFound
<1> QED
    BY <1>3, <1>4, <1>5, <1>6, <1>7 DEF StepKind

\* Over any records, ecosystems, batches and workers, and any interleaving of
\* the seeds, the delta loop and the metrics loop: until a transaction fails or
\* the process is restarted, a stored row is in the index or some job is still
\* going to put it there.
THEOREM StoredRowsGetIndexed == Spec => []RowsIndexed
<1>1. Init => RowsIndexed
    BY InitRows
<1>2. /\ TypeOK /\ ShapeInv /\ IndexInv /\ RowsIndexed
      /\ (TypeOK /\ ShapeInv /\ IndexInv)' /\ [Next]_vars
      => RowsIndexed'
    BY NextRows
<1> QED
    BY <1>1, <1>2, IndexCorrect, PTL DEF Spec
=============================================================================
