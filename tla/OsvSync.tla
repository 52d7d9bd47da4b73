------------------------------- MODULE OsvSync -------------------------------
(***************************************************************************)
(* The OSV mirror: internal/vulndb/sync/syncer.go and scheduler.go, started *)
(* by cmd/guardian/main.go, over the store of VulnStore.  Its jobs are      *)
(*   <<run, eco>>   SeedEcosystem(eco) of one run of SeedAll, the run being *)
(*                  the one main.go starts or one of the scheduler's loop;  *)
(*   DeltaJob       the scheduler's delta loop (DeltaSync);                 *)
(*   MetricsJob     the scheduler's metrics loop (UpdateAllMetrics).        *)
(* All of them run concurrently.  A step is one database statement or       *)
(* transaction, or one download; between two steps of a job the others run. *)
(***************************************************************************)
EXTENDS VulnStore

CONSTANTS
    Ecosystems,     \* the target ecosystems (GetTargetEcosystems)
    Dir,            \* Dir[e]: the records osv.dev lists under ecosystem e
    Home,           \* Home[v]: the record's SourceEcosystem column
    Workers,        \* cfg.Workers, the worker pool of one SeedAll
    SeedBatch,      \* cfg.BatchSize, records per seed transaction
    DeltaBatch,     \* the 100 records per delta transaction
    DeltaEnabled,   \* cfg.DeltaSyncInterval > 0
    MaxClock,       \* bound: date of the last publication
    MaxRuns,        \* bound: MaxRuns[r] runs of the loop r
    MaxFaults,      \* bound: MaxFaults[k] faults of kind k
    MaxKinds        \* bound: faults of so many kinds in one behaviour

SeedRuns == {"startup", "full"}
Seeds == SeedRuns \X Ecosystems
DeltaJob == <<"delta", "all">>
MetricsJob == <<"metrics", "all">>
Jobs == Seeds \cup {DeltaJob, MetricsJob}
FaultKinds == {"download", "parse", "fetch", "upsert", "rebuild", "save", "crash"}

ASSUME EcosystemAssumption ==
    /\ IsFiniteSet(Ecosystems) /\ Ecosystems # {}
    /\ Dir \in [Ecosystems -> SUBSET Osv]
    /\ Home \in [Osv -> Ecosystems]
ASSUME BatchAssumption ==
    /\ SeedBatch \in Nat \ {0}
    /\ DeltaBatch \in Nat \ {0}
    /\ Workers \in Nat \ {0}
ASSUME BoundAssumption ==
    /\ DeltaEnabled \in BOOLEAN
    /\ MaxClock \in Nat
    /\ MaxRuns \in [SeedRuns \cup {"metrics"} -> Nat]
    /\ MaxFaults \in [FaultKinds -> Nat]
    /\ MaxKinds \in Nat

VARIABLES
    published,  \* osv.dev: publication date of each record's content
    clock,      \* osv.dev: date of the last publication
    state,      \* table ecosystem_sync_states
    job,        \* what each job holds in memory
    runs,       \* how many runs each loop has begun
    faults      \* how many faults of each kind there have been

jobVars == <<job, runs>>
vars == <<storeVars, published, clock, state, job, runs, faults>>

Statuses == {"none", "pending", "syncing", "synced", "error"}
SyncState == [status : Statuses, full : BOOLEAN, cursor : Nat, total : Nat]

\* No row yet; the row GetOrCreateSyncState creates.
NoState == [status |-> "none", full |-> FALSE, cursor |-> 0, total |-> 0]
NewState == [NoState EXCEPT !.status = "pending"]

Nothing == [v \in Osv |-> 0]

(***************************************************************************)
(* A job's memory: where it is; its ecosystem and those it has yet to      *)
(* visit (left); the dates of modified_id.csv (csv) and the latest one it  *)
(* has fetched; its copy of the state row (mem); the content of the records *)
(* it has, 0 for the others, with their ids; and the records its present   *)
(* step has yet to process (rest).                                         *)
(***************************************************************************)
Pcs == {"idle", "ready", "next", "get", "create", "mark", "download", "fetch",
        "upsert", "index", "save", "error", "mget", "count", "put"}

Job == [pc : Pcs, eco : Ecosystems, left : SUBSET Ecosystems,
        csv : [Osv -> Nat], latest : Nat, mem : SyncState,
        content : [Osv -> Nat], vid : [Osv -> Nat], rest : SUBSET Osv]

Finished(j) == [pc |-> "idle", left |-> {}, csv |-> Nothing, latest |-> 0,
                eco |-> IF j \in Seeds THEN j[2] ELSE CHOOSE e \in Ecosystems : TRUE,
                mem |-> NoState, content |-> Nothing, vid |-> Nothing, rest |-> {}]

Init ==
    /\ StoreInit
    /\ published = [v \in Osv |-> 1]
    /\ clock = 1
    /\ state = [e \in Ecosystems |-> NoState]
    /\ job = [j \in Jobs |-> Finished(j)]
    /\ runs = [r \in DOMAIN MaxRuns |-> 0]
    /\ faults = [k \in FaultKinds |-> 0]

At(j, pc) == job[j].pc = pc
Set(j, new) == job' = [job EXCEPT ![j] = new]
Held(new) == {v \in Osv : new.content[v] # 0}

Fault(k) ==
    /\ faults[k] < MaxFaults[k]
    /\ Cardinality({k} \cup {i \in FaultKinds : faults[i] > 0}) <= MaxKinds
    /\ faults' = [faults EXCEPT ![k] = @ + 1]

\* UpdateSyncState saves the whole row, or fails.  The syncer ignores its error.
UpdateSyncState(e, row) ==
    \/ state' = [state EXCEPT ![e] = row] /\ UNCHANGED faults
    \/ Fault("save") /\ UNCHANGED state

\* The batches j may take next: size of the rest, or all of it.
Batches(j, size) ==
    LET n == Cardinality(job[j].rest)
    IN  kSubset(IF n < size THEN n ELSE size, job[j].rest)

\* A job that has handled the records done goes on to pc with rest when none is left.
Advance(new, done, pc, rest) ==
    IF new.rest \subseteq done
    THEN [new EXCEPT !.pc = pc, !.rest = rest]
    ELSE [new EXCEPT !.rest = @ \ done]

-----------------------------------------------------------------------------
(* osv.dev *)

\* The content of a record changes, or is withdrawn and published again.
Publish(v) ==
    /\ clock < MaxClock
    /\ clock' = clock + 1
    /\ published' = [published EXCEPT ![v] = clock']
    /\ UNCHANGED <<storeVars, state, jobVars, faults>>

-----------------------------------------------------------------------------
(* The state row: GetOrCreateSyncState is a read, then an insert when there *)
(* was no row.  The insert fails when another job has inserted it since.    *)

ReadState(j, found) ==
    /\ IF state[job[j].eco] = NoState
       THEN Set(j, [job[j] EXCEPT !.pc = "create"])
       ELSE Set(j, found)
    /\ UNCHANGED <<storeVars, published, clock, state, runs, faults>>

CreateState(j, created, failed) ==
    /\ At(j, "create")
    /\ IF state[job[j].eco] = NoState
       THEN /\ state' = [state EXCEPT ![job[j].eco] = NewState]
            /\ Set(j, created)
       ELSE /\ Set(j, failed)
            /\ UNCHANGED state
    /\ UNCHANGED <<storeVars, published, clock, runs, faults>>

\* Save the row as the job last saw it, with its own changes.
SaveState(j, row, new) ==
    /\ UpdateSyncState(job[j].eco, row)
    /\ Set(j, new)
    /\ UNCHANGED <<storeVars, published, clock, runs>>

-----------------------------------------------------------------------------
(* SeedAll and SeedEcosystem *)

Running(r) == {e \in Ecosystems : job[<<r, e>>].pc \notin {"idle", "ready"}}

\* SeedAll begins: once each time the process starts, or when the ticker of the
\* full-sync loop fires, which waits for the previous run.
StartSeedAll(r) ==
    /\ runs[r] < MaxRuns[r]
    /\ r = "startup" => runs[r] <= faults["crash"]
    /\ \A e \in Ecosystems : At(<<r, e>>, "idle")
    /\ runs' = [runs EXCEPT ![r] = @ + 1]
    /\ job' = [j \in Jobs |-> IF j \in Seeds /\ j[1] = r
                              THEN [job[j] EXCEPT !.pc = "ready"] ELSE job[j]]
    /\ UNCHANGED <<storeVars, published, clock, state, faults>>

\* Mutant of SeedBegin: the pool has one slot less.
SeedBeginShortPool(s) ==
    /\ At(s, "ready")
    /\ Cardinality(Running(s[1])) < Workers - 1
    /\ ReadState(s, [job[s] EXCEPT !.pc = "mark", !.mem = state[s[2]]])

\* A free worker of the pool begins the ecosystem and reads its state row.
SeedBegin(s) ==
    /\ At(s, "ready")
    /\ Cardinality(Running(s[1])) < Workers
    /\ ReadState(s, [job[s] EXCEPT !.pc = "mark", !.mem = state[s[2]]])

SeedCreate(s) ==
    CreateState(s, [job[s] EXCEPT !.pc = "mark", !.mem = NewState], Finished(s))

SeedMark(s) ==
    LET row == [job[s].mem EXCEPT !.status = "syncing"]
    IN  At(s, "mark") /\ SaveState(s, row, [job[s] EXCEPT !.pc = "download", !.mem = row])

\* all.zip holds the current content of every record; entries that do not
\* parse are skipped, and a failed download or an unreadable zip is recorded.
SeedDownload(s) ==
    /\ At(s, "download")
    /\ \/ \E bad \in SUBSET Dir[s[2]] :
            LET new == [job[s] EXCEPT !.content =
                            [v \in Osv |-> IF v \in Dir[s[2]] \ bad THEN published[v] ELSE 0]]
            IN  /\ IF bad = {} THEN UNCHANGED faults ELSE Fault("parse")
                /\ Set(s, [new EXCEPT !.pc = IF Held(new) = {} THEN "save" ELSE "upsert",
                                      !.rest = Held(new)])
       \/ /\ Fault("download")
          /\ Set(s, [job[s] EXCEPT !.pc = "error"])
    /\ UNCHANGED <<storeVars, published, clock, state, runs>>

\* Mutant of SeedUpsert: an error ends the upsert and the sync goes on.
SeedUpsertIgnoringError(s) ==
    /\ At(s, "upsert")
    /\ \E batch \in Batches(s, SeedBatch) :
        \/ /\ \E ids \in FreshIds(batch) :
                LET new == [job[s] EXCEPT !.vid = Assign(@, batch, ids)]
                IN  /\ UpsertBatch(batch, job[s].content, ids)
                    /\ Set(s, Advance(new, batch, "index", Held(new)))
           /\ UNCHANGED faults
        \/ /\ RollBackBatch(batch, ZeroIds(batch))
           /\ Fault("upsert")
           /\ Set(s, [job[s] EXCEPT !.pc = "index", !.rest = Held(job[s])])
    /\ UNCHANGED <<published, clock, state, runs>>

SeedUpsert(s) ==
    /\ At(s, "upsert")
    /\ \E batch \in Batches(s, SeedBatch) :
        \/ /\ \E ids \in FreshIds(batch) :
                LET new == [job[s] EXCEPT !.vid = Assign(@, batch, ids)]
                IN  /\ UpsertBatch(batch, job[s].content, ids)
                    /\ Set(s, Advance(new, batch, "index", Held(new)))
           /\ UNCHANGED faults
        \/ /\ \E ids \in FreshIds(batch) \cup {ZeroIds(batch)} : RollBackBatch(batch, ids)
           /\ Fault("upsert")
           /\ Set(s, [job[s] EXCEPT !.pc = "error"])
    /\ UNCHANGED <<published, clock, state, runs>>

\* Mutant of SeedIndex: the loop stops before the last batch.
SeedIndexShort(s) ==
    /\ At(s, "index")
    /\ \E batch \in Batches(s, SeedBatch) :
        /\ IF job[s].rest = batch
           THEN UNCHANGED storeVars
           ELSE BulkRebuildPackageIndex(batch, job[s].content, job[s].vid)
        /\ Set(s, Advance(job[s], batch, "save", {}))
    /\ UNCHANGED <<published, clock, state, runs, faults>>

\* The index of a batch is rebuilt; when that fails the loop goes on.
SeedIndex(s) ==
    /\ At(s, "index")
    /\ \E batch \in Batches(s, SeedBatch) :
        /\ \/ /\ BulkRebuildPackageIndex(batch, job[s].content, job[s].vid)
              /\ UNCHANGED faults
           \/ Fault("rebuild") /\ UNCHANGED storeVars
        /\ Set(s, Advance(job[s], batch, "save", {}))
    /\ UNCHANGED <<published, clock, state, runs>>

\* Mutant of SeedSave: the status of a sync log in the state row.
SeedSaveLogStatus(s) ==
    LET row == [job[s].mem EXCEPT !.status = "completed", !.full = TRUE]
    IN  At(s, "save") /\ SaveState(s, row, [job[s] EXCEPT !.pc = "mget"])

SeedSave(s) ==
    LET row == [job[s].mem EXCEPT !.status = "synced", !.full = TRUE]
    IN  At(s, "save") /\ SaveState(s, row, [job[s] EXCEPT !.pc = "mget"])

\* recordSyncError
SeedError(s) ==
    LET row == [job[s].mem EXCEPT !.status = "error"]
    IN  At(s, "error") /\ SaveState(s, row, Finished(s))

-----------------------------------------------------------------------------
(* DeltaSync and applyDeltaForEcosystem *)

\* The ticker of the delta loop fires: modified_id.csv is downloaded and its
\* entries grouped by ecosystem.  When that fails DeltaSync just returns.
DeltaStart ==
    /\ DeltaEnabled
    /\ At(DeltaJob, "idle")
    /\ \/ /\ Set(DeltaJob, [job[DeltaJob] EXCEPT !.pc = "next", !.csv = published,
                                !.left = {e \in Ecosystems : Dir[e] # {}}])
          /\ UNCHANGED faults
       \/ Fault("download") /\ UNCHANGED job
    /\ UNCHANGED <<storeVars, published, clock, state, runs>>

\* The next ecosystem, in the order of a map iteration.
NextEco(j, pc) ==
    /\ At(j, "next")
    /\ \/ \E e \in job[j].left :
            Set(j, [job[j] EXCEPT !.pc = pc, !.eco = e, !.left = @ \ {e}])
       \/ job[j].left = {} /\ Set(j, Finished(j))
    /\ UNCHANGED <<storeVars, published, clock, state, runs, faults>>

DeltaNext == NextEco(DeltaJob, "get")

\* An error or the end of one ecosystem: DeltaSync goes on to the next one.
DeltaRest == [Finished(DeltaJob) EXCEPT !.pc = "next", !.csv = job[DeltaJob].csv,
                                        !.left = job[DeltaJob].left]

\* Mutant of DeltaFilter: an entry dated right after the cursor is not new.
DeltaFilterLate(row) ==
    LET new == {v \in Dir[job[DeltaJob].eco] : job[DeltaJob].csv[v] > row.cursor + 1
                                                \/ row.cursor = 0}
    IN  IF new = {} THEN DeltaRest
        ELSE [job[DeltaJob] EXCEPT !.pc = "fetch", !.mem = row, !.rest = new]

\* The entries newer than the cursor of the row ("" is 0); none ends the ecosystem.
DeltaFilter(row) ==
    LET new == {v \in Dir[job[DeltaJob].eco] : job[DeltaJob].csv[v] > row.cursor}
    IN  IF new = {} THEN DeltaRest
        ELSE [job[DeltaJob] EXCEPT !.pc = "fetch", !.mem = row, !.rest = new]

DeltaGet ==
    /\ At(DeltaJob, "get")
    /\ ReadState(DeltaJob, DeltaFilter(state[job[DeltaJob].eco]))

DeltaCreate == CreateState(DeltaJob, DeltaFilter(NewState), DeltaRest)

\* After the last record, those fetched are upserted; with none the row is saved.
Fetched(new, v) ==
    IF Held(new) = {} THEN Advance(new, {v}, "save", {})
                      ELSE Advance(new, {v}, "upsert", Held(new))

\* Mutant of DeltaFetch: the date kept is the time of the fetch.
DeltaFetchNow ==
    LET d == job[DeltaJob]
    IN  /\ At(DeltaJob, "fetch")
        /\ \E v \in d.rest :
                Set(DeltaJob, Fetched([d EXCEPT !.content[v] = published[v],
                                                !.latest = clock], v))
        /\ UNCHANGED <<storeVars, published, clock, state, runs, faults>>

\* One record is fetched at its current content, or skipped.  The date kept is
\* the one of its entry in the csv.
DeltaFetch ==
    LET d == job[DeltaJob]
    IN  /\ At(DeltaJob, "fetch")
        /\ \E v \in d.rest :
            \/ /\ Set(DeltaJob, Fetched([d EXCEPT !.content[v] = published[v],
                        !.latest = IF d.csv[v] > @ THEN d.csv[v] ELSE @], v))
               /\ UNCHANGED faults
            \/ Fault("fetch") /\ Set(DeltaJob, Fetched(d, v))
        /\ UNCHANGED <<storeVars, published, clock, state, runs>>

\* A failed batch ends the upsert, is logged, and the index is rebuilt anyway.
DeltaUpsert ==
    LET d == job[DeltaJob]
    IN  /\ At(DeltaJob, "upsert")
        /\ \E batch \in Batches(DeltaJob, DeltaBatch) :
            \/ /\ \E ids \in FreshIds(batch) :
                    /\ UpsertBatch(batch, d.content, ids)
                    /\ Set(DeltaJob, Advance([d EXCEPT !.vid = Assign(@, batch, ids)],
                                             batch, "index", {}))
               /\ UNCHANGED faults
            \/ /\ \E ids \in FreshIds(batch) \cup {ZeroIds(batch)} :
                    /\ RollBackBatch(batch, ids)
                    /\ Set(DeltaJob, [d EXCEPT !.vid = Assign(@, batch, ids),
                                               !.pc = "index", !.rest = {}])
               /\ Fault("upsert")
        /\ UNCHANGED <<published, clock, state, runs>>

DeltaIndex ==
    LET d == job[DeltaJob]
    IN  /\ At(DeltaJob, "index")
        /\ \/ BulkRebuildPackageIndex(Held(d), d.content, d.vid) /\ UNCHANGED faults
           \/ Fault("rebuild") /\ UNCHANGED storeVars
        /\ Set(DeltaJob, [d EXCEPT !.pc = "save"])
        /\ UNCHANGED <<published, clock, state, runs>>

\* The cursor moves to the latest date fetched, if any.
DeltaSave ==
    LET d == job[DeltaJob]
        row == IF d.latest = 0 THEN d.mem ELSE [d.mem EXCEPT !.cursor = d.latest]
    IN  At(DeltaJob, "save") /\ SaveState(DeltaJob, row, DeltaRest)

-----------------------------------------------------------------------------
(* UpdateEcosystemMetrics, called by SeedEcosystem and by UpdateAllMetrics *)

\* The ticker of the metrics loop fires: the ecosystems that have a row.
StartMetrics ==
    /\ At(MetricsJob, "idle")
    /\ runs["metrics"] < MaxRuns["metrics"]
    /\ runs' = [runs EXCEPT !["metrics"] = @ + 1]
    /\ Set(MetricsJob, [job[MetricsJob] EXCEPT !.pc = "next",
                            !.left = {e \in Ecosystems : state[e] # NoState}])
    /\ UNCHANGED <<storeVars, published, clock, state, faults>>

MetricsNext == NextEco(MetricsJob, "mget")

\* GetOrCreateSyncState finds the row here: a job gets to this step only for an
\* ecosystem that has one, and rows are never deleted.
MetricsGet(j) ==
    /\ At(j, "mget")
    /\ Set(j, [job[j] EXCEPT !.pc = "count", !.mem = state[job[j].eco]])
    /\ UNCHANGED <<storeVars, published, clock, state, runs, faults>>

MetricsCount(j) ==
    /\ At(j, "count")
    /\ Set(j, [job[j] EXCEPT !.pc = "put", !.mem.total =
                  Cardinality({v \in Osv : Stored(v) /\ Home[v] = job[j].eco})])
    /\ UNCHANGED <<storeVars, published, clock, state, runs, faults>>

\* A failed save ends UpdateAllMetrics; SeedEcosystem ignores it.
MetricsPut(j) ==
    /\ At(j, "put")
    /\ \/ /\ j = MetricsJob
          /\ SaveState(j, job[j].mem, [job[j] EXCEPT !.pc = "next", !.mem = NoState])
          /\ UNCHANGED faults
       \/ /\ SaveState(j, job[j].mem, Finished(j))
          /\ j = MetricsJob => faults' # faults

-----------------------------------------------------------------------------
\* The process stops, cleanly or not, and starts again: memory is lost, the
\* tables stay.  main.go seeds again and the scheduler starts new loops.
Crash ==
    /\ Fault("crash")
    /\ job' = [j \in Jobs |-> Finished(j)]
    /\ UNCHANGED <<storeVars, published, clock, state, runs>>

SeedStep(s) ==
    \/ SeedBegin(s) \/ SeedCreate(s) \/ SeedMark(s) \/ SeedDownload(s)
    \/ SeedUpsert(s) \/ SeedIndex(s) \/ SeedSave(s) \/ SeedError(s)
    \/ MetricsGet(s) \/ MetricsCount(s) \/ MetricsPut(s)

DeltaStep ==
    \/ DeltaStart \/ DeltaNext \/ DeltaGet \/ DeltaCreate \/ DeltaFetch
    \/ DeltaUpsert \/ DeltaIndex \/ DeltaSave

MetricsStep ==
    \/ StartMetrics \/ MetricsNext
    \/ MetricsGet(MetricsJob) \/ MetricsCount(MetricsJob) \/ MetricsPut(MetricsJob)

Next ==
    \/ \E v \in Osv : Publish(v)
    \/ \E r \in SeedRuns : StartSeedAll(r)
    \/ \E s \in Seeds : SeedStep(s)
    \/ DeltaStep
    \/ MetricsStep
    \/ Crash

Spec == Init /\ [][Next]_vars

\* The scheduler's tickers fire for ever and a goroutine that can run does.
Fairness ==
    /\ \A r \in SeedRuns : WF_vars(StartSeedAll(r))
    /\ \A s \in Seeds : WF_vars(SeedStep(s))
    /\ WF_vars(DeltaStep)
    /\ WF_vars(MetricsStep)

FairSpec == Spec /\ Fairness

-----------------------------------------------------------------------------
(* Properties *)

TypeOK ==
    /\ vulns \in [Osv -> Row]
    /\ index \subseteq IndexRow
    /\ nextId \in Nat \ {0}
    /\ published \in [Osv -> Nat]
    /\ clock \in Nat
    /\ state \in [Ecosystems -> SyncState]
    /\ job \in [Jobs -> Job]
    /\ runs \in [DOMAIN MaxRuns -> Nat]
    /\ faults \in [FaultKinds -> Nat]

\* Whatever the jobs do to the same record at the same time, the index rows
\* that carry the id of a stored row were built from that very row: they name
\* its record and its revision.  (UpsertBatch and BulkRebuildPackageIndex are
\* separate transactions, and the second one trusts an id kept in memory.)
IndexDescribesRow ==
    \A r \in index, v \in Osv :
        Stored(v) /\ r.vid = vulns[v].id => r.osv = v /\ r.rev = vulns[v].rev

\* Job j holds the id of the stored row of v and has yet to rebuild its index.
WillIndex(j, v) ==
    /\ job[j].vid[v] = vulns[v].id
    /\ \/ At(j, "upsert")
       \/ At(j, "index") /\ (j = DeltaJob \/ v \in job[j].rest)

Indexed(v) == \E r \in index : r.vid = vulns[v].id

\* Between the upsert of a record and the rebuild of its index a lookup does
\* not find it.  As long as no transaction fails and the process lives, that
\* window always belongs to a job that is going to close it, even when another
\* job replaces the row, or rebuilds the index of a row it has lost.
RowsIndexed ==
    faults["upsert"] + faults["rebuild"] + faults["crash"] = 0 =>
        \A v \in Osv : Stored(v) => Indexed(v) \/ \E j \in Jobs : WillIndex(j, v)

\* "synced" and LastFullSync are claims about the tables, and every job writes
\* the whole row from an old copy: still, as long as every entry of the zip
\* parses, an ecosystem with either has a row for each of its records.
SyncedMeansStored ==
    faults["parse"] = 0 =>
        \A e \in Ecosystems : state[e].status = "synced" \/ state[e].full =>
            state[e].full /\ \A v \in Dir[e] : Stored(v)

\* The records of e that the delta loop will not fetch again: the cursor has passed
\* their date and they are not stored.
PassedOver(e) ==
    {v \in Dir[e] : published[v] <= state[e].cursor /\ vulns[v].rev # published[v]}

\* The cursor is the date of the last processed delta (models.go:235): while no seed
\* runs and no upsert fails, what was published up to that date has been stored,
\* except for one record at most for each fetch that failed (syncer.go:349), also
\* when the metrics save an old cursor or a delta is cut short and begins again.
CursorApplied ==
    faults["upsert"] = 0 /\ (\A r \in SeedRuns : runs[r] = 0) =>
        \A e \in Ecosystems : Cardinality(PassedOver(e)) <= faults["fetch"]

\* LastFullSync, once set, is the last time a full sync was completed
\* (models.go:233): no later save of the row takes it back.
FullSyncKept == [][\A e \in Ecosystems : state[e].full => state'[e].full]_vars

\* A seed that has begun ends, whatever fails and whatever the others do.
SeedsEnd == \A s \in Seeds : ~At(s, "idle") ~> At(s, "idle")

Fresh(v) == vulns[v].rev = published[v] /\ Indexed(v)

\* With the delta loop alone, through crashes and failed downloads, the mirror ends
\* up with the current content of every record, and finds it, except for one record
\* at most for each fetch that failed.
MirrorConverges == <>[](Cardinality({v \in Osv : ~Fresh(v)}) <= faults["fetch"])

\* What had been published when an ecosystem's seed was scheduled is stored, or
\* something failed.
SeedStores ==
    \A s \in Seeds : \A v \in Dir[s[2]], d \in 1..MaxClock :
        At(s, "ready") /\ published[v] >= d
            ~> vulns[v].rev >= d \/ \E k \in FaultKinds : faults[k] > 0

\* What the delta loop promises, as an abstract specification.
Feed == INSTANCE FeedMirror WITH
            stored <- [v \in Osv |-> vulns[v].rev],
            Feeds <- Ecosystems,
            given <- [e \in Ecosystems |-> PassedOver(e)],
            MaxGiven <- MaxFaults["fetch"]
FeedSpec == Feed!FairSpec
=============================================================================
