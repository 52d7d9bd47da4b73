-------------------------- MODULE OsvStatus_proof --------------------------
(***************************************************************************)
(* What the state row of an ecosystem claims, its status and its cursor:    *)
(* proofs of SyncedMeansStored and CursorApplied, and that the delta loop   *)
(* implements FeedMirror.                                                   *)
(***************************************************************************)
EXTENDS OsvIndex_proof

ParseOnceMore == faults'["parse"] = 0 => faults["parse"] = 0

LEMMA TrueRowGrows ==
    ASSUME NEW row, NEW e, NEW old, NEW new, old \subseteq new, TrueRow(row, e, old)
    PROVE  TrueRow(row, e, new)
BY DEF TrueRow

LEMMA HonestGrows ==
    ASSUME NEW j, NEW r, NEW old, NEW new, old \subseteq new, Honest(j, r, old)
    PROVE  Honest(j, r, new)
BY TrueRowGrows DEF Honest

\* A row without claims, and a job that holds one.
LEMMA NoClaim == \A e, stored : TrueRow(NoState, e, stored) /\ TrueRow(NewState, e, stored)
BY DEF TrueRow, NoState, NewState

LEMMA FinishedHonest == \A j \in Jobs : \A stored : Honest(j, Finished(j), stored)
BY NoClaim DEF Honest, Finished

-----------------------------------------------------------------------------
(* Steps *)

LEMMA SetHonest ==
    ASSUME TypeOK, SyncInv, ParseOnceMore, StoredSet \subseteq StoredSet',
           NEW j \in Jobs, NEW new, Set(j, new), UNCHANGED published,
           faults["parse"] = 0 => /\ \A e \in Ecosystems : TrueRow(state'[e], e, StoredSet')
                                  /\ Honest(j, new, StoredSet')
    PROVE  SyncInv'
<1>1. ASSUME faults'["parse"] = 0, NEW k \in Jobs PROVE Honest(k, job'[k], StoredSet')
    <2>1. CASE k = j
        BY <1>1, <2>1 DEF Set, TypeOK, ParseOnceMore
    <2>2. CASE k # j
        <3>1. job'[k] = job[k]
            BY <2>2 DEF Set, TypeOK
        <3> QED
            BY <1>1, <3>1, HonestGrows DEF SyncInv, ParseOnceMore
    <2> QED
        BY <2>1, <2>2
<1> QED
    BY <1>1 DEF SyncInv, ParseOnceMore

\* A step of job j that leaves the tables alone.
LEMMA LocalHonest ==
    ASSUME TypeOK, SyncInv, ParseOnceMore, NEW j \in Jobs, NEW new, Set(j, new),
           UNCHANGED <<vulns, published, state>>,
           faults["parse"] = 0 /\ Honest(j, job[j], StoredSet) => Honest(j, new, StoredSet)
    PROVE  SyncInv'
<1>1. StoredSet' = StoredSet /\ state' = state
    BY DEF StoredSet, Stored
<1>2. faults["parse"] = 0 => /\ \A e \in Ecosystems : TrueRow(state[e], e, StoredSet)
                             /\ Honest(j, new, StoredSet)
    BY DEF SyncInv
<1> QED
    BY <1>1, <1>2, SetHonest

LEMMA SaveHonest ==
    ASSUME TypeOK, SyncInv, ParseOnceMore, NEW j \in Jobs, NEW row, NEW new,
           SaveState(j, row, new),
           Honest(j, job[j], StoredSet)
               => TrueRow(row, job[j].eco, StoredSet) /\ Honest(j, new, StoredSet)
    PROVE  SyncInv'
<1>1. StoredSet' = StoredSet
    BY DEF StoredSet, Stored, storeVars, SaveState
<1>2. \A e \in Ecosystems : state'[e] = state[e] \/ (e = job[j].eco /\ state'[e] = row)
    BY DEF SaveState, UpdateSyncState, TypeOK
<1>3. faults["parse"] = 0 => /\ \A e \in Ecosystems : TrueRow(state'[e], e, StoredSet)
                             /\ Honest(j, new, StoredSet)
    BY <1>2 DEF SyncInv
<1> QED
    BY <1>1, <1>3, SetHonest DEF SaveState

LEMMA ReadHonest ==
    ASSUME TypeOK, SyncInv, ParseOnceMore, NEW j \in Jobs, NEW found, ReadState(j, found),
           faults["parse"] = 0 /\ Honest(j, job[j], StoredSet) => Honest(j, found, StoredSet)
    PROVE  SyncInv'
<1> DEFINE new == [job[j] EXCEPT !.pc = "create"]
<1>1. CASE Set(j, found)
    BY <1>1, LocalHonest DEF ReadState, storeVars
<1>2. CASE Set(j, new)
    <2>1. new.pc = "create" /\ new.mem = job[j].mem /\ new.eco = job[j].eco
        BY DEF TypeOK, Job
    <2>2. Honest(j, job[j], StoredSet) => Honest(j, new, StoredSet)
        BY <2>1 DEF Honest
    <2> HIDE DEF new
    <2> QED
        BY <1>2, <2>2, LocalHonest DEF ReadState, storeVars
<1> QED
    BY <1>1, <1>2 DEF ReadState

LEMMA CreateHonest ==
    ASSUME TypeOK, SyncInv, ParseOnceMore, NEW j \in Jobs, NEW created, NEW failed,
           CreateState(j, created, failed),
           Honest(j, job[j], StoredSet)
               => Honest(j, created, StoredSet) /\ Honest(j, failed, StoredSet)
    PROVE  SyncInv'
<1>1. StoredSet' = StoredSet
    BY DEF StoredSet, Stored, storeVars, CreateState
<1>2. \A e \in Ecosystems : state'[e] = state[e] \/ state'[e] = NewState
    BY DEF CreateState, TypeOK
<1>3. faults["parse"] = 0 => \A e \in Ecosystems : TrueRow(state'[e], e, StoredSet)
    BY <1>2, NoClaim DEF SyncInv
<1>4. faults["parse"] = 0 => Honest(j, created, StoredSet) /\ Honest(j, failed, StoredSet)
    BY DEF SyncInv
<1>5. PICK new \in {created, failed} : Set(j, new)
    BY DEF CreateState
<1> QED
    BY <1>1, <1>3, <1>4, <1>5, SetHonest DEF CreateState

LEMMA UpsertHonest ==
    ASSUME TypeOK, SyncInv, ParseOnceMore, NEW j \in Jobs, NEW batch \in SUBSET Osv,
           Cardinality(batch) \in Nat, NEW ids \in FreshIds(batch), NEW new,
           UpsertBatch(batch, job[j].content, ids), Set(j, new),
           UNCHANGED <<published, state, faults>>, At(j, "upsert"),
           new.mem = job[j].mem, new.eco = job[j].eco,
           \/ new.pc = "upsert" /\ new.rest = job[j].rest \ batch
           \/ new.pc = "index" /\ job[j].rest \subseteq batch
    PROVE  SyncInv'
<1>1. StoredSet \cup batch \subseteq StoredSet'
    <2>1. \A v \in batch : ids[v] # 0
        BY FreshIdsType
    <2>2. ASSUME NEW v \in batch PROVE vulns'[v].id # 0
        <3>1. vulns'[v] = [id |-> ids[v], rev |-> job[j].content[v]]
            BY DEF UpsertBatch
        <3> QED
            BY <2>1, <3>1
    <2>3. \A v \in Osv : v \notin batch => vulns'[v] = vulns[v]
        BY DEF UpsertBatch
    <2> QED
        BY <2>2, <2>3 DEF StoredSet, Stored
<1>2. ASSUME faults["parse"] = 0
      PROVE  (\A e \in Ecosystems : TrueRow(state[e], e, StoredSet'))
             /\ Honest(j, new, StoredSet')
    <2>1. (\A e \in Ecosystems : TrueRow(state[e], e, StoredSet))
          /\ Honest(j, job[j], StoredSet)
        BY <1>2 DEF SyncInv
    <2>2. TrueRow(new.mem, new.eco, StoredSet')
        BY <1>1, <2>1, TrueRowGrows DEF Honest
    <2> QED
        BY <1>1, <2>1, <2>2, TrueRowGrows DEF Honest, At
<1> QED
    BY <1>1, <1>2, SetHonest

-----------------------------------------------------------------------------
(* The actions *)

\* A job that is not between its download and its save only has its copy.
LEMMA QuietHonest ==
    ASSUME NEW j, NEW new, NEW stored, TrueRow(new.mem, new.eco, stored),
           new.pc \notin {"upsert", "index", "save"} \/ j \notin Seeds
    PROVE  Honest(j, new, stored)
BY DEF Honest

\* Once an entry has failed to parse, nothing is claimed.
LEMMA ParseFault ==
    ASSUME TypeOK, SyncInv, Fault("parse"), UNCHANGED published PROVE SyncInv'
<1>1. faults'["parse"] # 0
    BY DEF Fault, TypeOK, FaultKinds
<1> QED
    BY <1>1 DEF SyncInv

LEMMA MetricsHonest ==
    ASSUME TypeOK, SyncInv, ParseOnceMore, NEW j \in Jobs,
           MetricsGet(j) \/ MetricsCount(j) \/ MetricsPut(j)
    PROVE  SyncInv'
<1>j. job[j] \in Job /\ job[j].eco \in Ecosystems
    BY DEF TypeOK, Job
<1>1. CASE MetricsGet(j)
    <2> DEFINE new == [job[j] EXCEPT !.pc = "count", !.mem = state[job[j].eco]]
    <2>1. new.pc = "count" /\ new.mem = state[job[j].eco] /\ new.eco = job[j].eco
        BY <1>j DEF Job
    <2>2. Set(j, new) /\ UNCHANGED <<vulns, published, state>>
        BY <1>1 DEF MetricsGet, storeVars
    <2> HIDE DEF new
    <2>3. faults["parse"] = 0 => Honest(j, new, StoredSet)
        BY <1>j, <2>1, QuietHonest DEF SyncInv
    <2> QED
        BY <2>2, <2>3, LocalHonest
<1>2. CASE MetricsCount(j)
    <2> DEFINE n == Cardinality({v \in Osv : Stored(v) /\ Home[v] = job[j].eco})
               new == [job[j] EXCEPT !.pc = "put", !.mem.total = n]
    <2>1. /\ new.pc = "put" /\ new.eco = job[j].eco
          /\ new.mem.status = job[j].mem.status /\ new.mem.full = job[j].mem.full
        <3> HIDE DEF n
        <3> QED BY <1>j DEF Job, SyncState
    <2>2. Set(j, new) /\ UNCHANGED <<vulns, published, state>>
        BY <1>2 DEF MetricsCount, storeVars
    <2> HIDE DEF new
    <2>3. Honest(j, job[j], StoredSet) => Honest(j, new, StoredSet)
        BY <2>1 DEF Honest, TrueRow
    <2> QED
        BY <2>2, <2>3, LocalHonest
<1>3. CASE MetricsPut(j)
    <2>0. Honest(j, job[j], StoredSet) => TrueRow(job[j].mem, job[j].eco, StoredSet)
        BY DEF Honest
    <2> DEFINE new == [job[j] EXCEPT !.pc = "next", !.mem = NoState]
    <2>1. CASE SaveState(j, job[j].mem, new)
        <3>1. new.pc = "next" /\ new.mem = NoState
            BY <1>j DEF Job
        <3> HIDE DEF new
        <3>2. Honest(j, new, StoredSet)
            BY <3>1, NoClaim, QuietHonest
        <3> QED
            BY <2>0, <2>1, <3>2, SaveHonest
    <2>2. CASE SaveState(j, job[j].mem, Finished(j))
        BY <2>0, <2>2, FinishedHonest, SaveHonest
    <2> QED
        BY <1>3, <2>1, <2>2 DEF MetricsPut
<1> QED
    BY <1>1, <1>2, <1>3

LEMMA NextEcoHonest ==
    ASSUME TypeOK, ShapeInv, SyncInv, ParseOnceMore, NEW j \in {DeltaJob, MetricsJob},
           NEW pc \in {"get", "mget"}, NextEco(j, pc)
    PROVE  SyncInv'
<1>j. j \in Jobs /\ j \notin Seeds /\ job[j] \in Job /\ job[j].mem = NoState
    BY JobsFacts DEF TypeOK, ShapeInv, Shape, NextEco, At
<1>0. UNCHANGED <<vulns, published, state>>
    BY DEF NextEco, storeVars
<1>1. ASSUME NEW e \in job[j].left,
             Set(j, [job[j] EXCEPT !.pc = pc, !.eco = e, !.left = @ \ {e}])
      PROVE  SyncInv'
    <2> DEFINE new == [job[j] EXCEPT !.pc = pc, !.eco = e, !.left = @ \ {e}]
    <2>1. new.mem = NoState
        BY <1>j DEF Job
    <2>2. Set(j, new)
        BY <1>1
    <2> HIDE DEF new
    <2>3. Honest(j, new, StoredSet)
        BY <1>j, <2>1, NoClaim, QuietHonest
    <2> QED
        BY <1>j, <1>0, <2>2, <2>3, LocalHonest
<1>2. CASE Set(j, Finished(j))
    BY <1>j, <1>0, <1>2, FinishedHonest, LocalHonest
<1> QED
    BY <1>1, <1>2 DEF NextEco

\* Where an upsert takes a job.
LEMMA AdvancedUpsert ==
    ASSUME NEW got \in Job, got.pc = "upsert", NEW batch, NEW rest \in SUBSET Osv
    PROVE  LET new == Advance(got, batch, "index", rest)
           IN  /\ new.mem = got.mem /\ new.eco = got.eco
               /\ \/ new.pc = "upsert" /\ new.rest = got.rest \ batch
                  \/ new.pc = "index" /\ got.rest \subseteq batch
BY DEF Advance, Job, Pcs

LEMMA SeedHonest ==
    ASSUME TypeOK, ShapeInv, SyncInv, ParseOnceMore, NEW s \in Seeds, SeedStep(s)
    PROVE  SyncInv'
<1>s. s \in Jobs /\ s[2] \in Ecosystems /\ s # MetricsJob
    BY JobsFacts
<1>j. job[s] \in Job /\ job[s].eco = s[2]
    BY <1>s DEF TypeOK, ShapeInv, Shape
<1>m. Honest(s, job[s], StoredSet) => TrueRow(job[s].mem, s[2], StoredSet)
    BY <1>j DEF Honest
<1>1. CASE SeedBegin(s)
    <2> DEFINE new == [job[s] EXCEPT !.pc = "mark", !.mem = state[s[2]]]
    <2>1. new.pc = "mark" /\ new.mem = state[s[2]] /\ new.eco = s[2]
        BY <1>j DEF Job
    <2>2. ReadState(s, new)
        BY <1>1 DEF SeedBegin
    <2> HIDE DEF new
    <2>3. faults["parse"] = 0 => Honest(s, new, StoredSet)
        BY <1>s, <2>1, QuietHonest DEF SyncInv
    <2> QED
        BY <1>s, <2>2, <2>3, ReadHonest
<1>2. CASE SeedCreate(s)
    <2> DEFINE new == [job[s] EXCEPT !.pc = "mark", !.mem = NewState]
    <2>1. new.pc = "mark" /\ new.mem = NewState
        BY <1>j DEF Job
    <2>2. CreateState(s, new, Finished(s))
        BY <1>2 DEF SeedCreate
    <2> HIDE DEF new
    <2>3. Honest(s, new, StoredSet)
        BY <2>1, NoClaim, QuietHonest
    <2> QED
        BY <1>s, <2>2, <2>3, FinishedHonest, CreateHonest
<1>3. CASE SeedMark(s)
    <2> DEFINE row == [job[s].mem EXCEPT !.status = "syncing"]
               new == [job[s] EXCEPT !.pc = "download", !.mem = row]
    <2>1. row.status = "syncing" /\ row.full = job[s].mem.full
        BY <1>j DEF Job, SyncState
    <2>2. new.pc = "download" /\ new.mem = row /\ new.eco = s[2]
        <3> HIDE DEF row
        <3> QED BY <1>j DEF Job
    <2>3. SaveState(s, row, new)
        BY <1>3 DEF SeedMark
    <2> HIDE DEF row, new
    <2>4. TrueRow(job[s].mem, s[2], StoredSet) => TrueRow(row, s[2], StoredSet)
        BY <2>1 DEF TrueRow
    <2>5. TrueRow(row, s[2], StoredSet) => Honest(s, new, StoredSet)
        BY <2>2, QuietHonest
    <2> QED
        BY <1>s, <1>j, <1>m, <2>3, <2>4, <2>5, SaveHonest
<1>4. CASE SeedDownload(s)
    <2>0. UNCHANGED <<vulns, published, state>>
        BY <1>4 DEF SeedDownload, storeVars
    <2> DEFINE zip(bad) == [job[s] EXCEPT !.content =
                    [v \in Osv |-> IF v \in Dir[s[2]] \ bad THEN published[v] ELSE 0]]
               got(bad) == [zip(bad) EXCEPT
                    !.pc = IF Held(zip(bad)) = {} THEN "save" ELSE "upsert",
                    !.rest = Held(zip(bad))]
    <2>1. CASE Set(s, got({}))
        <3> DEFINE new == got({})
        <3>1. Dir[s[2]] \subseteq Held(zip({}))
            BY <1>s, <1>j, EcosystemAssumption DEF SyncInv, Held, Job
        <3>2. /\ new.mem = job[s].mem /\ new.eco = s[2]
              /\ \/ new.pc = "save" /\ Held(zip({})) = {}
                 \/ new.pc = "upsert" /\ new.rest = Held(zip({}))
            BY <1>j DEF Job
        <3>3. Set(s, new)
            BY <2>1
        <3> HIDE DEF new, zip
        <3>4. Honest(s, job[s], StoredSet) => Honest(s, new, StoredSet)
            BY <1>m, <3>1, <3>2 DEF Honest
        <3> QED
            BY <1>s, <2>0, <3>3, <3>4, LocalHonest
    <2>2. CASE Fault("parse")
        BY <2>0, <2>2, ParseFault
    <2>3. CASE Set(s, [job[s] EXCEPT !.pc = "error"])
        <3> DEFINE new == [job[s] EXCEPT !.pc = "error"]
        <3>1. new.mem = job[s].mem /\ new.eco = s[2] /\ new.pc = "error"
            BY <1>j DEF Job
        <3>2. Set(s, new)
            BY <2>3
        <3> HIDE DEF new
        <3>3. Honest(s, job[s], StoredSet) => Honest(s, new, StoredSet)
            BY <1>m, <3>1, QuietHonest
        <3> QED
            BY <1>s, <2>0, <3>2, <3>3, LocalHonest
    <2> QED
        BY <1>4, <2>1, <2>2, <2>3 DEF SeedDownload
<1>5. CASE SeedUpsert(s)
    <2>0. At(s, "upsert")
        BY <1>5 DEF SeedUpsert
    <2>1. ASSUME NEW batch \in Batches(s, SeedBatch), NEW ids \in FreshIds(batch), NEW rest,
                 UpsertBatch(batch, job[s].content, ids), UNCHANGED faults,
                 rest \in SUBSET Osv,
                 Set(s, Advance([job[s] EXCEPT !.vid = Assign(@, batch, ids)],
                                batch, "index", rest))
          PROVE  SyncInv'
        <3> DEFINE got == [job[s] EXCEPT !.vid = Assign(@, batch, ids)]
                   new == Advance(got, batch, "index", rest)
        <3>1. batch \in SUBSET Osv /\ Cardinality(batch) \in Nat
            BY <1>s, <1>j, BatchType
        <3>2. ids \in [batch -> Nat]
            BY <3>1, FreshIdsType
        <3>3. /\ got \in Job /\ got.mem = job[s].mem /\ got.eco = job[s].eco
              /\ got.pc = "upsert" /\ got.rest = job[s].rest
            <4>1. Assign(job[s].vid, batch, ids) \in [Osv -> Nat]
                BY <1>s, <1>j, <3>2, AssignType DEF Job
            <4> QED
                BY <1>s, <1>j, <2>0, <4>1 DEF Job, At
        <3>4. Set(s, new) /\ UNCHANGED <<published, state, faults>>
            BY <1>5, <2>1 DEF SeedUpsert
        <3> HIDE DEF got
        <3>5. /\ new.mem = got.mem /\ new.eco = got.eco
              /\ \/ new.pc = "upsert" /\ new.rest = got.rest \ batch
                 \/ new.pc = "index" /\ got.rest \subseteq batch
            BY <2>1, <3>3, AdvancedUpsert
        <3> HIDE DEF new
        <3> QED
            BY <1>s, <1>j, <2>0, <2>1, <3>1, <3>3, <3>4, <3>5, UpsertHonest
    <2>2. CASE /\ vulns' = vulns
               /\ Set(s, [job[s] EXCEPT !.pc = "error"])
        <3> DEFINE new == [job[s] EXCEPT !.pc = "error"]
        <3>1. new.mem = job[s].mem /\ new.eco = s[2] /\ new.pc = "error"
            BY <1>j DEF Job
        <3>2. Set(s, new) /\ UNCHANGED <<vulns, published, state>>
            BY <1>5, <2>2 DEF SeedUpsert
        <3> HIDE DEF new
        <3>3. Honest(s, job[s], StoredSet) => Honest(s, new, StoredSet)
            BY <1>m, <3>1, QuietHonest
        <3> QED
            BY <1>s, <3>2, <3>3, LocalHonest
    <2> QED
        BY <1>5, <2>1, <2>2, HeldType DEF SeedUpsert, RollBackBatch
<1>6. CASE SeedIndex(s)
    <2>1. PICK batch \in Batches(s, SeedBatch) : Set(s, Advance(job[s], batch, "save", {}))
        BY <1>6 DEF SeedIndex
    <2> DEFINE new == Advance(job[s], batch, "save", {})
    <2>2. job[s].pc = "index" /\ UNCHANGED <<vulns, published, state>>
        BY <1>6 DEF SeedIndex, At, BulkRebuildPackageIndex, storeVars
    <2>3. new.mem = job[s].mem /\ new.eco = s[2] /\ new.pc \in {"index", "save"}
        BY <1>j, <2>2 DEF Advance, Job
    <2> HIDE DEF new
    <2>4. Honest(s, job[s], StoredSet) => Honest(s, new, StoredSet)
        BY <1>m, <2>2, <2>3 DEF Honest
    <2> QED
        BY <1>s, <2>1, <2>2, <2>4, LocalHonest DEF new
<1>7. CASE SeedSave(s)
    <2> DEFINE row == [job[s].mem EXCEPT !.status = "synced", !.full = TRUE]
               new == [job[s] EXCEPT !.pc = "mget"]
    <2>1. row.full
        BY <1>j DEF Job, SyncState
    <2>2. new.mem = job[s].mem /\ new.eco = s[2] /\ new.pc = "mget"
        BY <1>j DEF Job
    <2>3. SaveState(s, row, new) /\ job[s].pc = "save"
        BY <1>7 DEF SeedSave, At
    <2> HIDE DEF row, new
    <2>4. Honest(s, job[s], StoredSet)
            => TrueRow(row, s[2], StoredSet) /\ Honest(s, new, StoredSet)
        BY <1>m, <2>1, <2>2, <2>3, QuietHonest DEF Honest, TrueRow
    <2> QED
        BY <1>s, <1>j, <2>3, <2>4, SaveHonest
<1>8. CASE SeedError(s)
    <2> DEFINE row == [job[s].mem EXCEPT !.status = "error"]
    <2>1. row.status = "error" /\ row.full = job[s].mem.full
        BY <1>j DEF Job, SyncState
    <2>2. SaveState(s, row, Finished(s))
        BY <1>8 DEF SeedError
    <2> HIDE DEF row
    <2>3. TrueRow(job[s].mem, s[2], StoredSet) => TrueRow(row, s[2], StoredSet)
        BY <2>1 DEF TrueRow
    <2> QED
        BY <1>s, <1>j, <1>m, <2>2, <2>3, FinishedHonest, SaveHonest
<1> QED
    BY <1>1, <1>2, <1>3, <1>4, <1>5, <1>6, <1>7, <1>8, <1>s, MetricsHonest DEF SeedStep

\* The delta loop copies a row and saves it with another cursor.
LEMMA DeltaHonest ==
    ASSUME TypeOK, ShapeInv, SyncInv, ParseOnceMore, DeltaStep
    PROVE  SyncInv'
<1> DEFINE d == job[DeltaJob]
<1>d. d \in Job /\ d.eco \in Ecosystems /\ DeltaJob \in Jobs /\ DeltaJob \notin Seeds
    BY JobsFacts DEF TypeOK, Job
<1>r. DeltaRest.mem = NoState /\ Honest(DeltaJob, DeltaRest, StoredSet)
    BY <1>d, NoClaim, QuietHonest DEF DeltaRest, Finished
<1>f. ASSUME NEW row, TrueRow(row, d.eco, StoredSet)
      PROVE  Honest(DeltaJob, DeltaFilter(row), StoredSet)
    <2> DEFINE new(left) == [d EXCEPT !.pc = "fetch", !.mem = row, !.rest = left]
    <2>1. ASSUME NEW left PROVE Honest(DeltaJob, new(left), StoredSet)
        <3>1. new(left).mem = row /\ new(left).eco = d.eco
            BY <1>d DEF Job
        <3> HIDE DEF new
        <3> QED
            BY <1>d, <1>f, <3>1, QuietHonest
    <2> HIDE DEF new
    <2>2. DeltaFilter(row) = DeltaRest \/ \E left : DeltaFilter(row) = new(left)
        BY DEF DeltaFilter, new
    <2> QED
        BY <1>r, <2>1, <2>2
<1>l. ASSUME NEW new, Set(DeltaJob, new), UNCHANGED <<vulns, published, state>>,
             new.mem = d.mem, new.eco = d.eco
      PROVE  SyncInv'
    <2>1. Honest(DeltaJob, d, StoredSet) => Honest(DeltaJob, new, StoredSet)
        BY <1>d, <1>l DEF Honest
    <2> QED
        BY <1>d, <1>l, <2>1, LocalHonest
<1>a. ASSUME NEW new \in Job, NEW done, NEW pc \in {"save", "upsert", "index"},
             NEW rest \in SUBSET Osv
      PROVE  /\ Advance(new, done, pc, rest).mem = new.mem
             /\ Advance(new, done, pc, rest).eco = new.eco
    BY DEF Advance, Job
<1>1. CASE DeltaStart
    <2> DEFINE start == [d EXCEPT !.pc = "next", !.csv = published,
                                  !.left = {e \in Ecosystems : Dir[e] # {}}]
    <2>0. UNCHANGED <<vulns, published, state>>
        BY <1>1 DEF DeltaStart, storeVars
    <2>1. start.mem = d.mem /\ start.eco = d.eco /\ d.mem = d.mem
        BY <1>d DEF Job
    <2>2. Set(DeltaJob, start) \/ Set(DeltaJob, d)
        BY <1>1 DEF DeltaStart, Set, TypeOK
    <2> HIDE DEF start, d
    <2> QED
        BY <1>l, <2>0, <2>1, <2>2
<1>2. CASE DeltaNext
    BY <1>2, NextEcoHonest DEF DeltaNext
<1>3. CASE DeltaGet
    <2>1. ReadState(DeltaJob, DeltaFilter(state[d.eco]))
        BY <1>3 DEF DeltaGet
    <2>2. faults["parse"] = 0 => Honest(DeltaJob, DeltaFilter(state[d.eco]), StoredSet)
        BY <1>d, <1>f DEF SyncInv
    <2> QED
        BY <1>d, <2>1, <2>2, ReadHonest
<1>4. CASE DeltaCreate
    BY <1>4, <1>d, <1>f, <1>r, NoClaim, CreateHonest DEF DeltaCreate
<1>5. CASE DeltaFetch
    <2> DEFINE got(v) == [d EXCEPT !.content[v] = published[v],
                                   !.latest = IF d.csv[v] > @ THEN d.csv[v] ELSE @]
    <2>1. PICK v \in d.rest : Set(DeltaJob, Fetched(got(v), v)) \/ Set(DeltaJob, Fetched(d, v))
        BY <1>5 DEF DeltaFetch
    <2>2. v \in Osv
        BY <1>d DEF Job
    <2>3. got(v) \in Job /\ got(v).mem = d.mem /\ got(v).eco = d.eco
        BY <1>d, <2>2 DEF Job, TypeOK
    <2> HIDE DEF got
    <2>4. ASSUME NEW r \in Job
          PROVE  Fetched(r, v).mem = r.mem /\ Fetched(r, v).eco = r.eco
        BY <1>a, HeldType DEF Fetched
    <2>5. PICK new : Set(DeltaJob, new) /\ new.mem = d.mem /\ new.eco = d.eco
        BY <1>d, <2>1, <2>3, <2>4
    <2> QED
        BY <1>5, <1>l, <2>5 DEF DeltaFetch, storeVars
<1>6. CASE DeltaUpsert
    <2>0. At(DeltaJob, "upsert")
        BY <1>6 DEF DeltaUpsert
    <2>1. ASSUME NEW batch \in Batches(DeltaJob, DeltaBatch), NEW ids \in FreshIds(batch),
                 UpsertBatch(batch, d.content, ids), UNCHANGED faults,
                 Set(DeltaJob, Advance([d EXCEPT !.vid = Assign(@, batch, ids)],
                                       batch, "index", {}))
          PROVE  SyncInv'
        <3> DEFINE got == [d EXCEPT !.vid = Assign(@, batch, ids)]
                   new == Advance(got, batch, "index", {})
        <3>1. batch \in SUBSET Osv /\ Cardinality(batch) \in Nat
            BY <1>d, BatchType
        <3>2. ids \in [batch -> Nat]
            BY <3>1, FreshIdsType
        <3>3. /\ got \in Job /\ got.mem = d.mem /\ got.eco = d.eco
              /\ got.pc = "upsert" /\ got.rest = d.rest
            <4>1. Assign(d.vid, batch, ids) \in [Osv -> Nat]
                BY <1>d, <3>2, AssignType DEF Job
            <4> QED
                BY <1>d, <2>0, <4>1 DEF Job, At
        <3>4. Set(DeltaJob, new) /\ UNCHANGED <<published, state, faults>>
            BY <1>6, <2>1 DEF DeltaUpsert
        <3> HIDE DEF got
        <3>5. /\ new.mem = got.mem /\ new.eco = got.eco
              /\ \/ new.pc = "upsert" /\ new.rest = got.rest \ batch
                 \/ new.pc = "index" /\ got.rest \subseteq batch
            BY <2>1, <3>3, AdvancedUpsert
        <3> HIDE DEF new
        <3> QED
            BY <1>d, <2>0, <2>1, <3>1, <3>3, <3>4, <3>5, UpsertHonest
    <2>2. ASSUME NEW batch, NEW ids, vulns' = vulns,
                 Set(DeltaJob, [d EXCEPT !.vid = Assign(@, batch, ids),
                                         !.pc = "index", !.rest = {}])
          PROVE  SyncInv'
        <3> DEFINE new == [d EXCEPT !.vid = Assign(@, batch, ids), !.pc = "index", !.rest = {}]
        <3>1. new.mem = d.mem /\ new.eco = d.eco
            BY <1>d DEF Job
        <3>2. Set(DeltaJob, new)
            BY <2>2
        <3> HIDE DEF new
        <3> QED
            BY <1>6, <1>l, <2>2, <3>1, <3>2 DEF DeltaUpsert
    <2> QED
        BY <1>6, <2>1, <2>2 DEF DeltaUpsert, RollBackBatch
<1>7. CASE DeltaIndex
    <2> DEFINE new == [d EXCEPT !.pc = "save"]
    <2>1. new.mem = d.mem /\ new.eco = d.eco
        BY <1>d DEF Job
    <2>2. Set(DeltaJob, new) /\ UNCHANGED <<vulns, published, state>>
        BY <1>7 DEF DeltaIndex, BulkRebuildPackageIndex, storeVars
    <2> HIDE DEF new
    <2> QED
        BY <1>l, <2>1, <2>2
<1>8. CASE DeltaSave
    <2> DEFINE row == IF d.latest = 0 THEN d.mem ELSE [d.mem EXCEPT !.cursor = d.latest]
    <2>1. row.status = d.mem.status /\ row.full = d.mem.full
        BY <1>d DEF Job, SyncState
    <2>2. SaveState(DeltaJob, row, DeltaRest)
        BY <1>8 DEF DeltaSave
    <2> HIDE DEF row
    <2>3. Honest(DeltaJob, d, StoredSet) => TrueRow(row, d.eco, StoredSet)
        BY <2>1 DEF Honest, TrueRow
    <2> QED
        BY <1>d, <1>r, <2>2, <2>3, SaveHonest
<1> QED
    BY <1>1, <1>2, <1>3, <1>4, <1>5, <1>6, <1>7, <1>8 DEF DeltaStep

LEMMA InitHonest == Init => SyncInv
<1> SUFFICES ASSUME Init PROVE SyncInv
    OBVIOUS
<1>1. \A j \in Jobs : Honest(j, job[j], StoredSet)
    BY FinishedHonest DEF Init
<1>2. \A e \in Ecosystems : TrueRow(state[e], e, StoredSet)
    BY NoClaim DEF Init
<1> QED
    BY <1>1, <1>2 DEF Init, SyncInv

LEMMA NextHonest ==
    ASSUME TypeOK, TypeOK', ShapeInv, SyncInv, [Next]_vars PROVE SyncInv'
<1>p. ParseOnceMore
    BY FaultsGrow DEF ParseOnceMore, TypeOK, FaultKinds
<1>1. ASSUME NEW v \in Osv, Publish(v) PROVE SyncInv'
    <2>1. \A w \in Osv : published'[w] # 0
        BY <1>1 DEF Publish, SyncInv, TypeOK
    <2>2. StoredSet' = StoredSet /\ UNCHANGED <<state, job, faults>>
        BY <1>1 DEF Publish, StoredSet, Stored, storeVars, jobVars
    <2> QED
        BY <2>1, <2>2 DEF SyncInv
<1>2. ASSUME NEW r \in SeedRuns, StartSeedAll(r) PROVE SyncInv'
    <2>1. StoredSet' = StoredSet /\ UNCHANGED <<published, state, faults>>
        BY <1>2 DEF StartSeedAll, StoredSet, Stored, storeVars
    <2>2. ASSUME NEW j \in Jobs, Honest(j, job[j], StoredSet)
          PROVE  Honest(j, job'[j], StoredSet)
        <3>1. CASE job'[j] = job[j]
            BY <2>2, <3>1
        <3>2. CASE job'[j] = [job[j] EXCEPT !.pc = "ready"]
            <4> DEFINE new == [job[j] EXCEPT !.pc = "ready"]
            <4>1. new.mem = job[j].mem /\ new.eco = job[j].eco /\ new.pc = "ready"
                BY DEF TypeOK, Job
            <4> HIDE DEF new
            <4>2. Honest(j, new, StoredSet)
                BY <2>2, <4>1 DEF Honest
            <4> QED
                BY <3>2, <4>2 DEF new
        <3> QED
            BY <1>2, <3>1, <3>2 DEF StartSeedAll
    <2> QED
        BY <2>1, <2>2 DEF SyncInv
<1>3. ASSUME NEW s \in Seeds, SeedStep(s) PROVE SyncInv'
    BY <1>3, <1>p, SeedHonest
<1>4. CASE DeltaStep
    BY <1>4, <1>p, DeltaHonest
<1>5. CASE MetricsStep
    <2>1. CASE StartMetrics
        <3> DEFINE new == [job[MetricsJob] EXCEPT !.pc = "next",
                                !.left = {e \in Ecosystems : state[e] # NoState}]
        <3>1. new.mem = job[MetricsJob].mem /\ new.eco = job[MetricsJob].eco
            BY JobsFacts DEF TypeOK, Job
        <3>2. Set(MetricsJob, new) /\ UNCHANGED <<vulns, published, state>>
            BY <2>1 DEF StartMetrics, storeVars
        <3> HIDE DEF new
        <3>3. Honest(MetricsJob, job[MetricsJob], StoredSet) => Honest(MetricsJob, new, StoredSet)
            BY <3>1, JobsFacts DEF Honest
        <3> QED
            BY <1>p, <3>2, <3>3, JobsFacts, LocalHonest
    <2>2. CASE MetricsNext
        BY <1>p, <2>2, NextEcoHonest DEF MetricsNext
    <2> QED
        BY <1>5, <1>p, <2>1, <2>2, JobsFacts, MetricsHonest DEF MetricsStep
<1>6. CASE Crash
    <2>1. StoredSet' = StoredSet /\ UNCHANGED <<published, state>>
        BY <1>6 DEF Crash, StoredSet, Stored, storeVars
    <2>2. \A j \in Jobs : Honest(j, job'[j], StoredSet)
        BY <1>6, FinishedHonest DEF Crash
    <2> QED
        BY <1>p, <2>1, <2>2 DEF SyncInv, ParseOnceMore
<1>7. CASE UNCHANGED vars
    <2>1. StoredSet' = StoredSet /\ UNCHANGED <<published, state, job, faults>>
        BY <1>7 DEF vars, jobVars, storeVars, StoredSet, Stored
    <2> QED
        BY <2>1 DEF SyncInv
<1> QED
    BY <1>1, <1>2, <1>3, <1>4, <1>5, <1>6, <1>7 DEF Next

\* Over any records, ecosystems, batches, workers and faults but an entry that
\* does not parse: an ecosystem marked "synced", or with a LastFullSync, has a
\* row for each of its records, though every job saves the whole state row from
\* a copy it made earlier.
THEOREM SyncedEcosystemsAreStored == Spec => []SyncedMeansStored
<1>1. Init => SyncInv
    BY InitHonest
<1>2. /\ TypeOK /\ ShapeInv /\ IndexInv /\ SyncInv
      /\ (TypeOK /\ ShapeInv /\ IndexInv)' /\ [Next]_vars
      => SyncInv'
    BY NextHonest
<1>3. SyncInv => SyncedMeansStored
    BY EcosystemAssumption DEF SyncInv, SyncedMeansStored, TrueRow, StoredSet
<1> QED
    BY <1>1, <1>2, <1>3, IndexCorrect, PTL DEF Spec

-----------------------------------------------------------------------------
(* The cursor.  No step but a failed fetch adds to the records that are, or  *)
(* may come to be, passed over.                                             *)

Kept(X) == DateInv' /\ \A e \in Ecosystems : Missed(e)' \subseteq Missed(e) \cup X

\* A step of job j that leaves the records alone, and after which nothing but X is
\* past that was not.
LEMMA LocalKept ==
    ASSUME TypeOK, DateInv, NEW j \in {DeltaJob, MetricsJob}, NEW new, NEW X, Set(j, new),
           UNCHANGED <<vulns, published, clock>>, new.mem.cursor <= clock,
           j = DeltaJob => DeltaDates(new),
           \A e \in Ecosystems : state'[e].cursor <= clock,
           \A e \in Ecosystems : \A v \in Dir[e] \ X :
              /\ published[v] <= state'[e].cursor => Past(e, v)
              /\ PassedBy(new, e, v) => Past(e, v)
              /\ j = DeltaJob => (LeftOut(new, e, v) => Past(e, v))
    PROVE  Kept(X)
<1>1. /\ j \in Jobs /\ job'[j] = new /\ j \notin Seeds
      /\ \A k \in Jobs : k # j => job'[k] = job[k]
    BY JobsFacts DEF Set, TypeOK
<1>2. DeltaDates(job'[DeltaJob])
    BY <1>1, JobsFacts DEF DateInv
<1>3. DateInv'
    <2>1. DeltaDates(job[DeltaJob])'
        BY <1>2 DEF DeltaDates
    <2>2. \A s \in Seeds : job'[s] = job[s]
        BY <1>1, JobsFacts
    <2> QED
        BY <1>1, <2>1, <2>2 DEF DateInv, At
<1>4. ASSUME NEW e \in Ecosystems, NEW v \in Dir[e] \ X, Past(e, v)' PROVE Past(e, v)
    <2>0. /\ published[v] <= state'[e].cursor => Past(e, v)
          /\ PassedBy(new, e, v) => Past(e, v)
          /\ j = DeltaJob => (LeftOut(new, e, v) => Past(e, v))
        OBVIOUS
    <2>1. CASE published[v] <= state'[e].cursor
        BY <2>0, <2>1
    <2>2. ASSUME NEW k \in Jobs, PassedBy(job'[k], e, v) PROVE Past(e, v)
        <3>1. CASE k = j
            <4>1. job'[k] = new
                BY <1>1, <3>1
            <4> QED
                BY <2>0, <2>2, <4>1
        <3>2. CASE k # j
            BY <1>1, <2>2, <3>2 DEF Past
        <3> QED
            BY <3>1, <3>2
    <2>3. CASE LeftOut(job'[DeltaJob], e, v)
        <3>1. CASE j = DeltaJob
            <4>1. job'[DeltaJob] = new
                BY <1>1, <3>1
            <4> QED
                BY <2>0, <2>3, <3>1, <4>1
        <3>2. CASE j # DeltaJob
            BY <1>1, <2>3, <3>2, JobsFacts DEF Past
        <3> QED
            BY <3>1, <3>2
    <2>4. /\ PassedBy(job[DeltaJob], e, v)' <=> PassedBy(job'[DeltaJob], e, v)
          /\ LeftOut(job[DeltaJob], e, v)' <=> LeftOut(job'[DeltaJob], e, v)
          /\ \A k \in Jobs : PassedBy(job[k], e, v)' <=> PassedBy(job'[k], e, v)
        BY DEF PassedBy, LeftOut
    <2> QED
        BY <1>4, <2>1, <2>2, <2>3, <2>4 DEF Past
<1> QED
    BY <1>3, <1>4 DEF Kept, Missed

\* What the delta knows before it has fetched a record of the ecosystem.
LEMMA EarlyDates ==
    ASSUME TypeOK, DateInv, NEW new, new.csv \in {job[DeltaJob].csv, Nothing, published},
           new.content = Nothing, new.latest = 0, new.pc \notin {"index", "save"}
    PROVE  DeltaDates(new)
<1>1. \A v \in Osv : new.content[v] = 0
    BY DEF Nothing
<1>2. /\ clock \in Nat /\ \A v \in Osv : published[v] \in Nat /\ 1 <= published[v]
    BY DEF TypeOK, DateInv
<1>3. \A v, w \in Osv : /\ new.csv[v] <= published[v]
                        /\ published[v] <= new.csv[w] => new.csv[v] = published[v]
    <2>1. CASE new.csv = job[DeltaJob].csv
        BY <2>1 DEF DateInv, DeltaDates
    <2>2. CASE new.csv = Nothing
        BY <1>2, <2>2 DEF Nothing
    <2>3. CASE new.csv = published
        BY <1>2, <2>3
    <2> QED
        BY <2>1, <2>2, <2>3
<1> QED
    BY <1>1, <1>2, <1>3 DEF DeltaDates

\* A cursor of 0 is past nothing, and only a delta with records leaves any out.
LEMMA NothingPast ==
    ASSUME TypeOK, DateInv, NEW e, NEW v \in Osv
    PROVE  /\ ~(published[v] <= 0)
           /\ \A new : new.mem.cursor = 0 => ~PassedBy(new, e, v)
           /\ \A new : new.pc \notin {"fetch", "upsert", "index", "save"}
                            => ~LeftOut(new, e, v)
<1>1. ~(published[v] <= 0)
    BY DEF TypeOK, DateInv
<1> QED
    BY <1>1 DEF PassedBy, LeftOut

LEMMA QuietKept ==
    ASSUME TypeOK, DateInv, NEW j \in {DeltaJob, MetricsJob}, NEW new, Set(j, new),
           UNCHANGED <<vulns, published, clock, state>>,
           j = DeltaJob => /\ new.csv \in {job[DeltaJob].csv, Nothing, published}
                           /\ new.content = Nothing /\ new.latest = 0,
           new.pc \notin {"fetch", "upsert", "index", "save"},
           new.mem.cursor = 0
               \/ (new.mem.cursor = job[j].mem.cursor /\ new.eco = job[j].eco)
    PROVE  Kept({})
<1>1. j = DeltaJob => DeltaDates(new)
    BY EarlyDates
<1>2. j \in Jobs /\ clock \in Nat
    BY JobsFacts DEF TypeOK
<1>3. new.mem.cursor <= clock
    BY <1>2 DEF DateInv
<1>4. ASSUME NEW e \in Ecosystems, NEW v \in Dir[e]
      PROVE  /\ published[v] <= state'[e].cursor => Past(e, v)
             /\ PassedBy(new, e, v) => Past(e, v)
             /\ LeftOut(new, e, v) => Past(e, v)
    <2>1. v \in Osv
        BY EcosystemAssumption
    <2>2. ~LeftOut(new, e, v)
        BY <2>1, NothingPast
    <2>3. PassedBy(new, e, v) => PassedBy(job[j], e, v)
        BY <2>1, NothingPast DEF PassedBy
    <2> QED
        BY <1>2, <2>2, <2>3 DEF Past
<1>5. \A e \in Ecosystems : state'[e].cursor <= clock
    BY DEF DateInv
<1> HIDE DEF Kept
<1> QED
    BY <1>1, <1>3, <1>4, <1>5, LocalKept

LEMMA FinishedQuiet ==
    \A j \in Jobs : /\ Finished(j).pc = "idle" /\ Finished(j).mem.cursor = 0
                    /\ Finished(j).csv = Nothing /\ Finished(j).content = Nothing
                    /\ Finished(j).latest = 0
BY DEF Finished, NoState

\* A job that saves its row goes on without it.
LEMMA SaveKept ==
    ASSUME TypeOK, DateInv, NEW j \in {DeltaJob, MetricsJob}, NEW row \in SyncState, NEW new,
           SaveState(j, row, new), row.cursor <= clock,
           \A v \in Dir[job[j].eco] : published[v] <= row.cursor => Past(job[j].eco, v),
           j = DeltaJob => /\ new.csv \in {job[DeltaJob].csv, Nothing, published}
                           /\ new.content = Nothing /\ new.latest = 0,
           new.pc \notin {"fetch", "upsert", "index", "save"}, new.mem.cursor = 0
    PROVE  Kept({})
<1>1. j = DeltaJob => DeltaDates(new)
    BY EarlyDates
<1>2. /\ clock \in Nat /\ Set(j, new) /\ UNCHANGED <<vulns, published, clock>>
      /\ \A e \in Ecosystems : state'[e] = state[e] \/ (e = job[j].eco /\ state'[e] = row)
    BY DEF SaveState, UpdateSyncState, TypeOK, storeVars
<1>3. \A e \in Ecosystems : state'[e].cursor <= clock
    BY <1>2 DEF DateInv
<1>4. ASSUME NEW e \in Ecosystems, NEW v \in Dir[e]
      PROVE  /\ published[v] <= state'[e].cursor => Past(e, v)
             /\ ~PassedBy(new, e, v)
             /\ ~LeftOut(new, e, v)
    <2>1. v \in Osv
        BY EcosystemAssumption
    <2>2. published[v] <= state'[e].cursor => Past(e, v)
        <3>1. CASE state'[e] = state[e]
            BY <3>1 DEF Past
        <3>2. CASE e = job[j].eco /\ state'[e] = row
            BY <3>2
        <3> QED
            BY <1>2, <3>1, <3>2
    <2> QED
        BY <2>1, <2>2, NothingPast
<1> HIDE DEF Kept
<1> QED
    BY <1>1, <1>2, <1>3, <1>4, LocalKept

LEMMA NextEcoKept ==
    ASSUME TypeOK, ShapeInv, DateInv, NEW j \in {DeltaJob, MetricsJob},
           NEW pc \in {"get", "mget"}, NextEco(j, pc)
    PROVE  Kept({})
<1>1. j \in Jobs /\ job[j] \in Job /\ Shape(j, job[j]) /\ job[j].pc = "next"
    BY JobsFacts, Zenon DEF TypeOK, ShapeInv, NextEco, At
<1>2. job[j].mem.cursor = 0
    BY <1>1 DEF Shape, NoState
<1>3. j = DeltaJob => job[j].content = Nothing /\ job[j].latest = 0
    BY <1>1 DEF DateInv, DeltaDates
<1>4. UNCHANGED <<vulns, published, clock, state>>
    BY Zenon DEF NextEco, storeVars
<1>5. ASSUME NEW e \in job[j].left,
             Set(j, [job[j] EXCEPT !.pc = pc, !.eco = e, !.left = @ \ {e}])
      PROVE  Kept({})
    <2> DEFINE new == [job[j] EXCEPT !.pc = pc, !.eco = e, !.left = @ \ {e}]
    <2>1. /\ new.pc = pc /\ new.mem = job[j].mem /\ new.csv = job[j].csv
          /\ new.content = job[j].content /\ new.latest = job[j].latest
        BY <1>1 DEF Job
    <2>2. Set(j, new)
        BY <1>5
    <2> HIDE DEF new, Kept
    <2> QED
        BY <1>2, <1>3, <1>4, <2>1, <2>2, QuietKept
<1>6. CASE Set(j, Finished(j))
    <2> HIDE DEF Kept
    <2> QED
        BY <1>1, <1>4, <1>6, FinishedQuiet, QuietKept
<1> QED
    BY <1>5, <1>6, Zenon DEF NextEco

LEMMA MetricsKept ==
    ASSUME TypeOK, ShapeInv, DateInv, MetricsStep PROVE Kept({})
<1> DEFINE j == MetricsJob
<1>1. /\ j \in Jobs /\ j # DeltaJob /\ job[j] \in Job /\ Shape(j, job[j])
      /\ job[j].mem \in SyncState /\ job[j].eco \in Ecosystems /\ clock \in Nat
    BY JobsFacts DEF TypeOK, ShapeInv, Job
<1> HIDE DEF j, Kept
<1>2. CASE StartMetrics
    <2> DEFINE left == {e \in Ecosystems : state[e] # NoState}
               new == [job[j] EXCEPT !.pc = "next", !.left = left]
    <2>1. new.pc = "next" /\ new.mem = job[j].mem
        <3> HIDE DEF left
        <3> QED BY <1>1 DEF Job
    <2>2. job[j].mem.cursor = 0
        BY <1>1, <1>2 DEF StartMetrics, At, Shape, NoState, j
    <2>3. Set(j, new) /\ UNCHANGED <<vulns, published, clock, state>>
        BY <1>2 DEF StartMetrics, storeVars, j
    <2> HIDE DEF new
    <2> QED
        BY <1>1, <2>1, <2>2, <2>3, QuietKept DEF j
<1>3. CASE MetricsNext
    BY <1>3, NextEcoKept DEF MetricsNext
<1>4. CASE MetricsGet(j)
    <2> DEFINE new == [job[j] EXCEPT !.pc = "count", !.mem = state[job[j].eco]]
    <2>1. new.pc = "count" /\ new.mem = state[job[j].eco] /\ new.eco = job[j].eco
        BY <1>1 DEF Job
    <2>2. Set(j, new) /\ UNCHANGED <<vulns, published, clock, state>>
        BY <1>4 DEF MetricsGet, storeVars
    <2> HIDE DEF new
    <2>3. \A e \in Ecosystems : state'[e].cursor <= clock
        BY <2>2 DEF DateInv
    <2>4. ASSUME NEW e \in Ecosystems, NEW v \in Dir[e]
          PROVE  /\ published[v] <= state'[e].cursor => Past(e, v)
                 /\ PassedBy(new, e, v) => Past(e, v)
        BY <2>1, <2>2 DEF Past, PassedBy
    <2>5. new.mem.cursor <= clock
        BY <1>1, <2>1 DEF DateInv
    <2> QED
        BY <1>1, <2>2, <2>3, <2>4, <2>5, LocalKept DEF j
<1>5. CASE MetricsCount(j)
    <2> DEFINE n == Cardinality({v \in Osv : Stored(v) /\ Home[v] = job[j].eco})
               new == [job[j] EXCEPT !.pc = "put", !.mem.total = n]
    <2>1. new.pc = "put" /\ new.eco = job[j].eco /\ new.mem.cursor = job[j].mem.cursor
        <3> HIDE DEF n
        <3> QED BY <1>1 DEF Job, SyncState
    <2>2. Set(j, new) /\ UNCHANGED <<vulns, published, clock, state>>
        BY <1>5 DEF MetricsCount, storeVars
    <2> HIDE DEF new
    <2> QED
        BY <1>1, <2>1, <2>2, QuietKept DEF j
<1>6. CASE MetricsPut(j)
    <2> DEFINE next == [job[j] EXCEPT !.pc = "next", !.mem = NoState]
    <2>1. next.pc = "next" /\ next.mem.cursor = 0 /\ NoState.cursor = 0
        BY <1>1 DEF Job, NoState
    <2>2. PICK new \in {next, Finished(j)} : SaveState(j, job[j].mem, new)
        BY <1>6 DEF MetricsPut, j
    <2>3. new.pc \in {"next", "idle"} /\ new.mem.cursor = 0
        BY <1>1, <2>1, <2>2, FinishedQuiet
    <2>4. SaveState(j, job[j].mem, new)
        BY <2>2
    <2> HIDE DEF next
    <2>5. job[j].mem.cursor <= clock
        BY <1>1 DEF DateInv
    <2>6. \A v \in Dir[job[j].eco] : published[v] <= job[j].mem.cursor => Past(job[j].eco, v)
        BY <1>1 DEF Past, PassedBy
    <2> QED
        BY <1>1, <2>3, <2>4, <2>5, <2>6, SaveKept DEF j
<1> QED
    BY <1>2, <1>3, <1>4, <1>5, <1>6 DEF MetricsStep, j

\* The state row found, or the new one: what is not newer than its cursor is past.
LEMMA FilterKept ==
    ASSUME TypeOK, DateInv, job[DeltaJob].content = Nothing, job[DeltaJob].latest = 0,
           NEW row \in SyncState, row.cursor <= clock,
           \A v \in Dir[job[DeltaJob].eco] :
              published[v] <= row.cursor => Past(job[DeltaJob].eco, v),
           Set(DeltaJob, DeltaFilter(row)), UNCHANGED <<vulns, published, clock>>,
           \A e \in Ecosystems : state'[e] = state[e] \/ state'[e].cursor = 0
    PROVE  Kept({})
<1> DEFINE d == job[DeltaJob]
           newer == {v \in Dir[d.eco] : d.csv[v] > row.cursor}
           start == [d EXCEPT !.pc = "fetch", !.mem = row, !.rest = newer]
<1>1. d \in Job /\ d.eco \in Ecosystems /\ d.csv \in [Osv -> Nat] /\ DeltaJob \in Jobs
      /\ clock \in Nat /\ row.cursor \in Nat
    BY JobsFacts DEF TypeOK, Job, SyncState
<1>2. \A e \in Ecosystems : state'[e].cursor <= clock
    BY <1>1 DEF DateInv
<1>3. ASSUME NEW e \in Ecosystems, NEW v \in Dir[e]
      PROVE  v \in Osv /\ (published[v] <= state'[e].cursor => Past(e, v))
    <2>1. v \in Osv
        BY EcosystemAssumption
    <2>2. state'[e].cursor = 0 => ~(published[v] <= state'[e].cursor)
        BY <2>1, NothingPast
    <2>3. state'[e] = state[e] => (published[v] <= state'[e].cursor => Past(e, v))
        BY DEF Past
    <2> QED
        BY <2>1, <2>2, <2>3
<1>4. CASE newer = {}
    <2>1. /\ DeltaRest.pc = "next" /\ DeltaRest.mem.cursor = 0 /\ DeltaRest.csv = d.csv
          /\ DeltaRest.content = Nothing /\ DeltaRest.latest = 0
        BY <1>1 DEF DeltaRest, Finished, NoState
    <2>2. Set(DeltaJob, DeltaRest)
        BY <1>4 DEF DeltaFilter
    <2>3. DeltaDates(DeltaRest) /\ DeltaRest.mem.cursor <= clock
        BY <1>1, <2>1, EarlyDates
    <2>4. \A e \in Ecosystems : \A v \in Dir[e] :
              ~PassedBy(DeltaRest, e, v) /\ ~LeftOut(DeltaRest, e, v)
        BY <1>3, <2>1, NothingPast
    <2> HIDE DEF Kept, newer
    <2> QED
        BY <1>2, <1>3, <2>2, <2>3, <2>4, LocalKept
<1>5. CASE newer # {}
    <2>1. Set(DeltaJob, start)
        BY <1>5 DEF DeltaFilter
    <2>2. /\ start.pc = "fetch" /\ start.mem = row /\ start.rest = newer /\ start.eco = d.eco
          /\ start.csv = d.csv /\ start.content = Nothing /\ start.latest = 0
        <3> HIDE DEF newer
        <3> QED BY <1>1 DEF Job
    <2> HIDE DEF start
    <2>3. DeltaDates(start)
        BY <2>2, EarlyDates
    <2>4. ASSUME NEW e \in Ecosystems, NEW v \in Dir[e]
          PROVE  (PassedBy(start, e, v) => Past(e, v)) /\ ~LeftOut(start, e, v)
        <3>1. PassedBy(start, e, v) => Past(e, v)
            BY <2>2 DEF PassedBy
        <3>2. ~LeftOut(start, e, v)
            BY <2>2 DEF LeftOut
        <3> QED
            BY <3>1, <3>2
    <2> HIDE DEF Kept, newer
    <2> QED
        BY <1>2, <1>3, <2>1, <2>2, <2>3, <2>4, LocalKept
<1> QED
    BY <1>4, <1>5

LEMMA DeltaBeginKept ==
    ASSUME TypeOK, ShapeInv, DateInv, DeltaStart \/ DeltaNext \/ DeltaGet \/ DeltaCreate
    PROVE  Kept({})
<1> DEFINE d == job[DeltaJob]
<1>1. /\ d \in Job /\ Shape(DeltaJob, d) /\ DeltaJob \in Jobs /\ d.eco \in Ecosystems
      /\ d.mem \in SyncState /\ clock \in Nat
    BY JobsFacts DEF TypeOK, Job, ShapeInv
<1>2. d.pc \in {"idle", "next", "get", "create"} => d.content = Nothing /\ d.latest = 0
    BY DEF DateInv, DeltaDates
<1>3. CASE DeltaStart
    <2> DEFINE left == {e \in Ecosystems : Dir[e] # {}}
               start == [d EXCEPT !.pc = "next", !.csv = published, !.left = left]
    <2>1. /\ start.pc = "next" /\ start.csv = published /\ start.mem = d.mem
          /\ start.content = d.content /\ start.latest = d.latest
        <3> HIDE DEF left
        <3> QED BY <1>1 DEF Job
    <2>2. d.pc = "idle" /\ d.mem.cursor = 0
        BY <1>1, <1>3 DEF DeltaStart, At, Shape, NoState
    <2>3. UNCHANGED <<vulns, published, clock, state>>
        BY <1>3 DEF DeltaStart, storeVars
    <2>4. CASE Set(DeltaJob, start)
        <3> HIDE DEF start, Kept
        <3> QED
            BY <1>2, <2>1, <2>2, <2>3, <2>4, QuietKept
    <2>5. CASE UNCHANGED job
        <3>1. Set(DeltaJob, d)
            BY <1>1, <2>5 DEF Set, TypeOK
        <3> HIDE DEF Kept
        <3> QED
            BY <1>2, <2>2, <2>3, <3>1, QuietKept
    <2> QED
        BY <1>3, <2>4, <2>5 DEF DeltaStart
<1>4. CASE DeltaNext
    <2> HIDE DEF Kept
    <2> QED
        BY <1>4, NextEcoKept DEF DeltaNext
<1>5. CASE DeltaGet
    <2> DEFINE row == state[d.eco]
               new == [d EXCEPT !.pc = "create"]
    <2>1. d.pc = "get" /\ UNCHANGED <<vulns, published, clock, state>>
        BY <1>5 DEF DeltaGet, ReadState, At, storeVars
    <2>2. new.pc = "create" /\ new.mem = d.mem /\ new.eco = d.eco /\ new.csv = d.csv
          /\ new.content = d.content /\ new.latest = d.latest
        BY <1>1 DEF Job
    <2>3. CASE Set(DeltaJob, new)
        <3> HIDE DEF new, Kept
        <3> QED
            BY <1>2, <2>1, <2>2, <2>3, QuietKept
    <2>4. CASE Set(DeltaJob, DeltaFilter(row))
        <3>1. row \in SyncState /\ row.cursor <= clock
            BY <1>1 DEF TypeOK, DateInv
        <3>2. \A v \in Dir[d.eco] : published[v] <= row.cursor => Past(d.eco, v)
            BY DEF Past
        <3> HIDE DEF Kept
        <3> QED
            BY <1>2, <2>1, <2>4, <3>1, <3>2, FilterKept
    <2> QED
        BY <1>5, <2>3, <2>4 DEF DeltaGet, ReadState
<1>6. CASE DeltaCreate
    <2>1. d.pc = "create" /\ UNCHANGED <<vulns, published, clock>>
        BY <1>6 DEF DeltaCreate, CreateState, At, storeVars
    <2>2. NewState \in SyncState /\ NewState.cursor = 0
        BY NewStateType DEF NewState, NoState
    <2>3. \A e \in Ecosystems : state'[e] = state[e] \/ state'[e].cursor = 0
        BY <1>6, <2>2 DEF DeltaCreate, CreateState, TypeOK
    <2>4. CASE Set(DeltaJob, DeltaFilter(NewState))
        <3>1. \A v \in Dir[d.eco] : ~(published[v] <= 0)
            BY <1>1, NothingPast, EcosystemAssumption
        <3>2. 0 <= clock
            BY <1>1
        <3> HIDE DEF Kept
        <3> QED
            BY <1>2, <2>1, <2>2, <2>3, <2>4, <3>1, <3>2, FilterKept
    <2>5. CASE Set(DeltaJob, DeltaRest) /\ UNCHANGED state
        <3>1. /\ DeltaRest.pc = "next" /\ DeltaRest.mem.cursor = 0 /\ DeltaRest.csv = d.csv
              /\ DeltaRest.content = Nothing /\ DeltaRest.latest = 0
            BY <1>1 DEF DeltaRest, Finished, NoState
        <3> HIDE DEF Kept
        <3> QED
            BY <2>1, <2>5, <3>1, QuietKept
    <2> QED
        BY <1>6, <2>4, <2>5 DEF DeltaCreate, CreateState
<1> QED
    BY <1>3, <1>4, <1>5, <1>6

\* What the delta holds after the record v, and how it goes on.
LEMMA FetchedFields ==
    ASSUME NEW new \in Job, new.pc = "fetch", NEW v
    PROVE  LET r == Fetched(new, v)
           IN  /\ r.eco = new.eco /\ r.mem = new.mem /\ r.csv = new.csv
               /\ r.content = new.content /\ r.latest = new.latest
               /\ \/ r.pc = "fetch" /\ r.rest = new.rest \ {v}
                  \/ /\ new.rest \subseteq {v}
                     /\ \/ r.pc = "upsert" /\ r.rest = Held(new)
                        \/ r.pc = "save" /\ r.rest = {} /\ Held(new) = {}
<1> DEFINE end(pc, rest) == [new EXCEPT !.pc = pc, !.rest = rest]
           more == [new EXCEPT !.rest = @ \ {v}]
<1>1. /\ more.eco = new.eco /\ more.mem = new.mem /\ more.csv = new.csv
      /\ more.content = new.content /\ more.latest = new.latest
      /\ more.pc = "fetch" /\ more.rest = new.rest \ {v}
    BY DEF Job
<1>2. ASSUME NEW pc, NEW rest
      PROVE  /\ end(pc, rest).eco = new.eco /\ end(pc, rest).mem = new.mem
             /\ end(pc, rest).csv = new.csv /\ end(pc, rest).content = new.content
             /\ end(pc, rest).latest = new.latest
             /\ end(pc, rest).pc = pc /\ end(pc, rest).rest = rest
    BY DEF Job
<1>3. \/ Fetched(new, v) = more
      \/ new.rest \subseteq {v} /\ Fetched(new, v) = end("upsert", Held(new))
      \/ new.rest \subseteq {v} /\ Fetched(new, v) = end("save", {}) /\ Held(new) = {}
    BY DEF Fetched, Advance
<1> HIDE DEF more, end
<1> QED
    BY <1>1, <1>2, <1>3

\* The delta has fetched v, or has not: d becomes new before it goes on.
LEMMA FetchKept ==
    ASSUME TypeOK, DateInv, At(DeltaJob, "fetch"), NEW v \in Osv, v \in job[DeltaJob].rest,
           NEW new \in Job, NEW X,
           Set(DeltaJob, Fetched(new, v)), UNCHANGED <<vulns, published, clock, state>>,
           new.pc = "fetch", new.eco = job[DeltaJob].eco, new.mem = job[DeltaJob].mem,
           new.csv = job[DeltaJob].csv, new.rest = job[DeltaJob].rest,
           \A w \in Osv : w # v => new.content[w] = job[DeltaJob].content[w],
           \/ /\ new.content[v] = published[v]
              /\ new.latest \in {job[DeltaJob].latest, new.csv[v]}
           \/ /\ new.content[v] = job[DeltaJob].content[v]
              /\ new.latest = job[DeltaJob].latest /\ v \in X
    PROVE  Kept(X)
<1> DEFINE d == job[DeltaJob]
           r == Fetched(new, v)
<1>1. /\ d \in Job /\ d.pc = "fetch" /\ d.mem.cursor <= clock /\ DeltaDates(d)
      /\ DeltaJob \in Jobs /\ clock \in Nat
      /\ \A w \in Osv : /\ published[w] \in Nat /\ 1 <= published[w] /\ published[w] <= clock
                        /\ vulns[w].rev \in Nat /\ vulns[w].rev <= published[w]
                        /\ new.csv[w] \in Nat /\ new.content[w] \in Nat
                        /\ d.csv[w] \in Nat /\ d.content[w] \in Nat
      /\ d.latest \in Nat /\ new.latest \in Nat
    BY JobsFacts DEF TypeOK, Job, DateInv, At, Row
<1>2. /\ r.eco = d.eco /\ r.mem = d.mem /\ r.csv = d.csv
      /\ r.content = new.content /\ r.latest = new.latest
      /\ \/ r.pc = "fetch" /\ r.rest = d.rest \ {v}
         \/ /\ d.rest \subseteq {v}
            /\ \/ r.pc = "upsert" /\ r.rest = Held(new)
               \/ r.pc = "save" /\ r.rest = {} /\ Held(new) = {}
    BY FetchedFields
<1>3. Set(DeltaJob, r)
    OBVIOUS
<1> HIDE DEF r
<1>4. DeltaDates(r)
    <2>1. r.latest <= clock
        BY <1>1, <1>2 DEF DeltaDates
    <2>2. ASSUME NEW w \in Osv
          PROVE  /\ r.csv[w] <= published[w] /\ r.content[w] <= published[w]
                 /\ \A u \in Osv : published[w] <= r.csv[u] => r.csv[w] = published[w]
        BY <1>1, <1>2 DEF DeltaDates
    <2>3. ASSUME NEW w \in Osv, published[w] <= r.latest PROVE r.csv[w] = published[w]
        BY <1>1, <1>2, <2>3 DEF DeltaDates
    <2>4. ASSUME NEW w \in Osv, r.content[w] # 0
          PROVE  r.csv[w] <= r.content[w] /\ vulns[w].rev <= r.content[w]
        <3>1. CASE w = v /\ new.content[v] = published[v]
            BY <1>1, <1>2, <3>1 DEF DeltaDates
        <3>2. CASE new.content[w] = d.content[w]
            BY <1>1, <1>2, <2>4, <3>2 DEF DeltaDates
        <3> QED
            BY <3>1, <3>2
    <2>5. r.pc \in {"fetch", "upsert", "save"} /\ (r.pc = "save" => r.rest = {})
        BY <1>2
    <2> QED
        BY <2>1, <2>2, <2>3, <2>4, <2>5 DEF DeltaDates
<1>5. ASSUME NEW e \in Ecosystems, NEW w \in Dir[e] \ X
      PROVE  /\ published[w] <= state'[e].cursor => Past(e, w)
             /\ PassedBy(r, e, w) => Past(e, w)
             /\ LeftOut(r, e, w) => Past(e, w)
    <2>1. w \in Osv
        BY EcosystemAssumption
    <2>2. PassedBy(r, e, w) => PassedBy(d, e, w)
        BY <1>2 DEF PassedBy
    <2>3. ASSUME LeftOut(r, e, w) PROVE LeftOut(d, e, w)
        <3>1. new.content[w] = 0
            BY <1>2, <2>1, <2>3 DEF LeftOut, Held
        <3>2. w # v
            BY <1>1, <2>1, <3>1
        <3>3. w \notin d.rest /\ d.content[w] = 0
            BY <1>2, <2>1, <2>3, <3>1, <3>2 DEF LeftOut
        <3> QED
            BY <1>1, <1>2, <2>3, <3>3 DEF LeftOut
    <2> QED
        BY <1>1, <2>2, <2>3 DEF Past
<1>6. \A e \in Ecosystems : state'[e].cursor <= clock
    BY DEF DateInv
<1>7. r.mem.cursor <= clock
    BY <1>1, <1>2
<1> HIDE DEF Kept
<1> QED
    BY <1>3, <1>4, <1>5, <1>6, <1>7, LocalKept

LEMMA DeltaFetchKept ==
    ASSUME TypeOK, DateInv, DeltaFetch
    PROVE  Kept({}) \/ (Fault("fetch") /\ \E v \in Osv : Kept({v}))
<1> DEFINE d == job[DeltaJob]
           got(v) == [d EXCEPT !.content[v] = published[v],
                               !.latest = IF d.csv[v] > @ THEN d.csv[v] ELSE @]
<1>1. d \in Job /\ d.rest \subseteq Osv /\ At(DeltaJob, "fetch") /\ d.pc = "fetch"
    BY JobsFacts DEF TypeOK, Job, DeltaFetch, At
<1>2. UNCHANGED <<vulns, published, clock, state>>
    BY DEF DeltaFetch, storeVars
<1>3. ASSUME NEW v \in d.rest, Set(DeltaJob, Fetched(got(v), v)) PROVE Kept({})
    <2>1. /\ got(v).pc = "fetch" /\ got(v).eco = d.eco /\ got(v).mem = d.mem
          /\ got(v).csv = d.csv /\ got(v).rest = d.rest
        BY <1>1 DEF Job
    <2>2. /\ \A w \in Osv : w # v => got(v).content[w] = d.content[w]
          /\ got(v).content[v] = published[v]
          /\ got(v).latest \in {d.latest, d.csv[v]}
        BY <1>1 DEF Job
    <2>3. got(v) \in Job
        BY <1>1 DEF Job, TypeOK
    <2> HIDE DEF got, Kept
    <2> QED
        BY <1>1, <1>2, <1>3, <2>1, <2>2, <2>3, FetchKept
<1>4. ASSUME NEW v \in d.rest, Set(DeltaJob, Fetched(d, v)) PROVE Kept({v})
    <2> HIDE DEF Kept
    <2> QED
        BY <1>1, <1>2, <1>4, FetchKept
<1>5. \E v \in d.rest : \/ Set(DeltaJob, Fetched(got(v), v))
                        \/ Fault("fetch") /\ Set(DeltaJob, Fetched(d, v))
    BY DEF DeltaFetch
<1> HIDE DEF got, Kept
<1> QED
    BY <1>1, <1>3, <1>4, <1>5

\* While no upsert fails, a batch of what the delta has yet to store is stored.
LEMMA DeltaUpserts ==
    ASSUME TypeOK, DeltaUpsert, faults'["upsert"] = 0
    PROVE  \E batch \in SUBSET job[DeltaJob].rest : \E r :
              /\ Set(DeltaJob, r) /\ UNCHANGED <<published, clock, state>>
              /\ r.eco = job[DeltaJob].eco /\ r.mem = job[DeltaJob].mem
              /\ r.csv = job[DeltaJob].csv /\ r.content = job[DeltaJob].content
              /\ r.latest = job[DeltaJob].latest
              /\ \/ r.pc = "upsert" /\ r.rest = job[DeltaJob].rest \ batch
                 \/ r.pc = "index" /\ r.rest = {} /\ job[DeltaJob].rest \subseteq batch
              /\ \A w \in Osv : /\ w \notin batch => vulns'[w] = vulns[w]
                                /\ w \in batch => vulns'[w].rev = job[DeltaJob].content[w]
<1> DEFINE d == job[DeltaJob]
<1>1. d \in Job /\ DeltaJob \in Jobs /\ d.pc = "upsert"
    BY JobsFacts DEF TypeOK, DeltaUpsert, At
<1>2. PICK batch \in Batches(DeltaJob, DeltaBatch) : \E ids \in FreshIds(batch) :
          /\ UpsertBatch(batch, d.content, ids)
          /\ Set(DeltaJob, Advance([d EXCEPT !.vid = Assign(@, batch, ids)], batch, "index", {}))
    <2>1. ~Fault("upsert")
        BY DEF Fault, TypeOK, FaultKinds
    <2> QED
        BY <2>1 DEF DeltaUpsert
<1>3. PICK ids \in FreshIds(batch) :
          /\ UpsertBatch(batch, d.content, ids)
          /\ Set(DeltaJob, Advance([d EXCEPT !.vid = Assign(@, batch, ids)], batch, "index", {}))
    BY <1>2
<1>4. batch \subseteq d.rest
    BY <1>1, BatchType
<1>5. Assign(d.vid, batch, ids) \in [Osv -> Nat]
    <2>1. d.vid \in [Osv -> Nat] /\ Cardinality(batch) \in Nat
        BY <1>1, BatchType DEF Job
    <2>2. ids \in [batch -> Nat]
        BY <2>1, FreshIdsType
    <2> QED
        BY <2>1, <2>2, AssignType
<1> DEFINE next == [d EXCEPT !.vid = Assign(@, batch, ids)]
           r == Advance(next, batch, "index", {})
<1>6. /\ r.eco = d.eco /\ r.mem = d.mem /\ r.csv = d.csv
      /\ r.content = d.content /\ r.latest = d.latest
      /\ \/ r.pc = "upsert" /\ r.rest = d.rest \ batch
         \/ r.pc = "index" /\ r.rest = {} /\ d.rest \subseteq batch
    <2>1. /\ next.eco = d.eco /\ next.mem = d.mem /\ next.csv = d.csv /\ next.pc = d.pc
          /\ next.content = d.content /\ next.latest = d.latest /\ next.rest = d.rest
          /\ next \in Job
        BY <1>1, <1>5 DEF Job
    <2> HIDE DEF next
    <2> QED
        BY <1>1, <2>1 DEF Advance, Job
<1>7. Set(DeltaJob, r)
    BY <1>3
<1>8. \A w \in Osv : /\ w \notin batch => vulns'[w] = vulns[w]
                     /\ w \in batch => vulns'[w].rev = d.content[w]
    BY <1>3 DEF UpsertBatch
<1>9. UNCHANGED <<published, clock, state>>
    BY DEF DeltaUpsert
<1> HIDE DEF r
<1> QED
    BY <1>4, <1>6, <1>7, <1>8, <1>9

\* A batch is stored: what it brings is what is published, or missed before.
LEMMA DeltaUpsertKept ==
    ASSUME TypeOK, ShapeInv, DateInv, DeltaUpsert, faults'["upsert"] = 0
    PROVE  Kept({})
<1> DEFINE d == job[DeltaJob]
<1>1. /\ d \in Job /\ DeltaJob \in Jobs /\ DeltaJob \notin Seeds /\ d.pc = "upsert"
      /\ d.rest \subseteq Held(d) /\ clock \in Nat /\ DeltaDates(d)
      /\ \A w \in Osv : /\ published[w] \in Nat /\ vulns[w].rev \in Nat
                        /\ d.csv[w] \in Nat /\ d.content[w] \in Nat
    BY JobsFacts DEF TypeOK, Job, DeltaUpsert, At, ShapeInv, Shape, DateInv, Row
<1>2. PICK batch \in SUBSET d.rest : \E r :
          /\ Set(DeltaJob, r) /\ UNCHANGED <<published, clock, state>>
          /\ r.eco = d.eco /\ r.mem = d.mem /\ r.csv = d.csv
          /\ r.content = d.content /\ r.latest = d.latest
          /\ \/ r.pc = "upsert" /\ r.rest = d.rest \ batch
             \/ r.pc = "index" /\ r.rest = {} /\ d.rest \subseteq batch
          /\ \A w \in Osv : /\ w \notin batch => vulns'[w] = vulns[w]
                            /\ w \in batch => vulns'[w].rev = d.content[w]
    BY DeltaUpserts
<1>r. PICK r :
          /\ Set(DeltaJob, r) /\ UNCHANGED <<published, clock, state>>
          /\ r.eco = d.eco /\ r.mem = d.mem /\ r.csv = d.csv
          /\ r.content = d.content /\ r.latest = d.latest
          /\ \/ r.pc = "upsert" /\ r.rest = d.rest \ batch
             \/ r.pc = "index" /\ r.rest = {} /\ d.rest \subseteq batch
          /\ \A w \in Osv : /\ w \notin batch => vulns'[w] = vulns[w]
                            /\ w \in batch => vulns'[w].rev = d.content[w]
    BY <1>2
<1>3. batch \subseteq d.rest /\ batch \subseteq Osv
    BY <1>1 DEF Job
<1>4. UNCHANGED <<published, clock, state>>
    BY <1>r
<1>5. /\ r.eco = d.eco /\ r.mem = d.mem /\ r.csv = d.csv
      /\ r.content = d.content /\ r.latest = d.latest
      /\ \/ r.pc = "upsert" /\ r.rest = d.rest \ batch
         \/ r.pc = "index" /\ r.rest = {} /\ d.rest \subseteq batch
    BY <1>r
<1>6. Set(DeltaJob, r)
    BY <1>r
<1>7. job'[DeltaJob] = r /\ \A k \in Jobs : k # DeltaJob => job'[k] = job[k]
    BY <1>1, <1>6 DEF Set, TypeOK
<1>8. \A w \in Osv : /\ w \notin batch => vulns'[w] = vulns[w]
                     /\ w \in batch => vulns'[w].rev = d.content[w]
    BY <1>r
<1>9. DateInv'
    <2>1. \A w \in Osv : vulns'[w].rev <= published[w]
        BY <1>1, <1>8 DEF DateInv, DeltaDates
    <2>2. \A w \in Osv : r.content[w] # 0 /\ (r.pc = "fetch" \/ w \in r.rest)
                            => vulns'[w].rev <= r.content[w]
        BY <1>1, <1>3, <1>5, <1>8 DEF DeltaDates
    <2>3. DeltaDates(job[DeltaJob])'
        BY <1>1, <1>4, <1>5, <1>7, <2>2 DEF DeltaDates
    <2>4. \A k \in Jobs : job'[k].mem.cursor <= clock
        BY <1>1, <1>5, <1>7 DEF DateInv
    <2>5. \A s \in Seeds : At(s, "idle")'
        BY <1>1, <1>7, JobsFacts DEF DateInv, At
    <2> QED
        BY <1>4, <2>1, <2>3, <2>4, <2>5 DEF DateInv
<1>10. ASSUME NEW e \in Ecosystems, NEW v \in Dir[e], vulns'[v].rev # published[v], Past(e, v)'
       PROVE  vulns[v].rev # published[v] /\ Past(e, v)
    <2>1. v \in Osv
        BY EcosystemAssumption
    <2>2. v \notin batch => vulns[v].rev # published[v]
        BY <1>8, <1>10, <2>1
    <2>3. v \in batch => vulns[v].rev # published[v] /\ d.csv[v] # published[v]
        BY <1>1, <1>3, <1>8, <1>10, <2>1 DEF DeltaDates, Held
    <2>4. LeftOut(r, e, v) => LeftOut(d, e, v)
        BY <1>1, <1>5, <2>3 DEF LeftOut
    <2>5. \A k \in Jobs : PassedBy(job'[k], e, v) => PassedBy(job[k], e, v)
        BY <1>1, <1>5, <1>7 DEF PassedBy
    <2>6. \/ published[v] <= state[e].cursor
          \/ \E k \in Jobs : PassedBy(job'[k], e, v)
          \/ LeftOut(r, e, v)
        BY <1>4, <1>7, <1>10 DEF Past, PassedBy, LeftOut
    <2> QED
        BY <2>2, <2>3, <2>4, <2>5, <2>6 DEF Past
<1> QED
    BY <1>4, <1>9, <1>10 DEF Kept, Missed

LEMMA DeltaEndKept ==
    ASSUME TypeOK, ShapeInv, DateInv, DeltaIndex \/ DeltaSave
    PROVE  Kept({})
<1> DEFINE d == job[DeltaJob]
<1>1. /\ d \in Job /\ DeltaJob \in Jobs /\ d.eco \in Ecosystems /\ d.mem \in SyncState
      /\ clock \in Nat /\ d.latest \in Nat /\ DeltaDates(d) /\ d.mem.cursor <= clock
      /\ d.mem.cursor \in Nat
      /\ \A w \in Osv : published[w] \in Nat /\ d.csv[w] \in Nat
    BY JobsFacts DEF TypeOK, Job, DateInv, SyncState
<1>2. CASE DeltaIndex
    <2> DEFINE new == [d EXCEPT !.pc = "save"]
    <2>1. d.pc = "index" /\ Set(DeltaJob, new)
        BY <1>2 DEF DeltaIndex, At
    <2>2. /\ new.pc = "save" /\ new.eco = d.eco /\ new.mem = d.mem /\ new.csv = d.csv
          /\ new.content = d.content /\ new.latest = d.latest /\ new.rest = d.rest
        BY <1>1 DEF Job
    <2>3. UNCHANGED <<vulns, published, clock, state>>
        BY <1>2 DEF DeltaIndex, BulkRebuildPackageIndex, storeVars
    <2> HIDE DEF new
    <2>4. DeltaDates(new)
        BY <1>1, <2>1, <2>2 DEF DeltaDates
    <2>5. ASSUME NEW e \in Ecosystems, NEW v \in Dir[e]
          PROVE  /\ published[v] <= state'[e].cursor => Past(e, v)
                 /\ PassedBy(new, e, v) => Past(e, v)
                 /\ LeftOut(new, e, v) => Past(e, v)
        <3>1. PassedBy(new, e, v) => PassedBy(d, e, v)
            BY <2>2 DEF PassedBy
        <3>2. LeftOut(new, e, v) => LeftOut(d, e, v)
            BY <2>1, <2>2 DEF LeftOut
        <3> QED
            BY <1>1, <2>3, <3>1, <3>2 DEF Past
    <2>6. \A e \in Ecosystems : state'[e].cursor <= clock
        BY <2>3 DEF DateInv
    <2>7. new.mem.cursor <= clock
        BY <1>1, <2>2
    <2> HIDE DEF Kept
    <2> QED
        BY <2>1, <2>3, <2>4, <2>5, <2>6, <2>7, LocalKept
<1>3. CASE DeltaSave
    <2> DEFINE row == IF d.latest = 0 THEN d.mem ELSE [d.mem EXCEPT !.cursor = d.latest]
    <2>1. d.pc = "save" /\ SaveState(DeltaJob, row, DeltaRest)
        BY <1>3 DEF DeltaSave, At
    <2>2. row \in SyncState
        BY <1>1 DEF SyncState
    <2>3. row.cursor = IF d.latest = 0 THEN d.mem.cursor ELSE d.latest
        BY <1>1 DEF SyncState
    <2> HIDE DEF row
    <2>4. row.cursor <= clock
        BY <1>1, <2>3 DEF DeltaDates
    <2>5. ASSUME NEW v \in Dir[d.eco], published[v] <= row.cursor PROVE Past(d.eco, v)
        <3>1. v \in Osv
            BY <1>1, EcosystemAssumption
        <3>2. CASE published[v] <= d.mem.cursor
            BY <1>1, <3>2 DEF Past, PassedBy
        <3>3. CASE ~(published[v] <= d.mem.cursor)
            <4>1. published[v] <= d.latest /\ d.csv[v] = published[v] /\ d.rest = {}
                BY <1>1, <2>1, <2>3, <2>5, <3>1, <3>3 DEF DeltaDates
            <4>2. LeftOut(d, d.eco, v)
                BY <1>1, <2>1, <3>1, <3>3, <4>1 DEF LeftOut
            <4> QED
                BY <4>2 DEF Past
        <3> QED
            BY <3>2, <3>3
    <2>6. /\ DeltaRest.pc = "next" /\ DeltaRest.mem.cursor = 0 /\ DeltaRest.csv = d.csv
          /\ DeltaRest.content = Nothing /\ DeltaRest.latest = 0
        BY <1>1 DEF DeltaRest, Finished, NoState
    <2> HIDE DEF Kept
    <2> QED
        BY <2>1, <2>2, <2>4, <2>5, <2>6, SaveKept
<1> QED
    BY <1>2, <1>3

LEMMA PublishKept ==
    ASSUME TypeOK, DateInv, NEW v \in Osv, Publish(v) PROVE Kept({})
<1>1. /\ clock \in Nat /\ clock' = clock + 1
      /\ UNCHANGED <<vulns, state, job>>
      /\ \A w \in Osv : published'[w] = IF w = v THEN clock + 1 ELSE published[w]
    BY DEF Publish, TypeOK, storeVars, jobVars
<1> DEFINE d == job[DeltaJob]
<1>2. /\ DeltaDates(d) /\ d.latest \in Nat
      /\ \A w \in Osv : /\ published[w] \in Nat /\ 1 <= published[w] /\ published[w] <= clock
                        /\ vulns[w].rev \in Nat /\ d.csv[w] \in Nat /\ d.content[w] \in Nat
      /\ \A e \in Ecosystems : state[e].cursor \in Nat
      /\ \A j \in Jobs : job[j].mem.cursor \in Nat
    BY JobsFacts DEF TypeOK, DateInv, Job, Row, SyncState
<1>3. \A w \in Osv : d.csv[w] <= clock
    <2>1. ASSUME NEW w \in Osv PROVE d.csv[w] <= published[w]
        BY <1>2 DEF DeltaDates
    <2> QED
        BY <1>1, <1>2, <2>1
<1>4. DeltaDates(d)'
    BY <1>1, <1>2, <1>3 DEF DeltaDates
<1>5. DateInv'
    BY <1>1, <1>2, <1>4 DEF DateInv, At
<1>6. ASSUME NEW e \in Ecosystems, NEW w \in Dir[e], Past(e, w)'
      PROVE  Past(e, w) /\ published'[w] = published[w]
    <2>1. w \in Osv
        BY EcosystemAssumption
    <2>2. CASE w = v
        <3>1. published'[w] = clock + 1
            BY <1>1, <2>1, <2>2
        <3>2. ~(published'[w] <= state[e].cursor)
            BY <1>1, <1>2, <3>1 DEF DateInv
        <3>3. \A j \in Jobs : ~PassedBy(job[j], e, w)'
            BY <1>1, <1>2, <3>1 DEF DateInv, PassedBy
        <3>4. ~LeftOut(job[DeltaJob], e, w)'
            BY <1>1, <1>2, <1>3, <2>1, <3>1 DEF LeftOut
        <3> QED
            BY <1>1, <1>6, <3>2, <3>3, <3>4 DEF Past
    <2>3. CASE w # v
        <3>1. published'[w] = published[w]
            BY <1>1, <2>1, <2>3
        <3> QED
            BY <1>1, <1>6, <3>1 DEF Past, PassedBy, LeftOut
    <2> QED
        BY <2>2, <2>3
<1> QED
    BY <1>1, <1>5, <1>6 DEF Kept, Missed

LEMMA CrashKept ==
    ASSUME TypeOK, DateInv, Crash PROVE Kept({})
<1>1. /\ UNCHANGED <<vulns, published, clock, state>> /\ clock \in Nat
      /\ \A j \in Jobs : job'[j] = Finished(j)
    BY DEF Crash, storeVars, TypeOK
<1>2. DeltaDates(Finished(DeltaJob))
    BY JobsFacts, FinishedQuiet, EarlyDates
<1>3. DateInv'
    <2>1. DeltaDates(job[DeltaJob])'
        BY <1>1, <1>2, JobsFacts DEF DeltaDates
    <2> QED
        BY <1>1, <2>1, JobsFacts, FinishedQuiet DEF DateInv, At
<1>4. ASSUME NEW e \in Ecosystems, NEW v \in Dir[e], Past(e, v)' PROVE Past(e, v)
    <2>1. v \in Osv
        BY EcosystemAssumption
    <2>2. \A j \in Jobs : ~PassedBy(Finished(j), e, v) /\ ~LeftOut(Finished(j), e, v)
        BY <2>1, FinishedQuiet, NothingPast
    <2> QED
        BY <1>1, <1>4, <2>2, JobsFacts DEF Past, PassedBy, LeftOut
<1> QED
    BY <1>1, <1>3, <1>4 DEF Kept, Missed

\* While nothing has been disturbed no seed takes a step.
LEMMA SeedsRest ==
    ASSUME TypeOK, DateInv, Undisturbed'
    PROVE  /\ \A r \in SeedRuns : ~StartSeedAll(r)
           /\ \A s \in Seeds : ~SeedStep(s)
<1>1. ASSUME NEW r \in SeedRuns, StartSeedAll(r) PROVE FALSE
    BY <1>1, RunNames DEF StartSeedAll, TypeOK, Undisturbed
<1>2. ASSUME NEW s \in Seeds, SeedStep(s) PROVE FALSE
    <2>1. job[s].pc = "idle"
        BY DEF DateInv, At
    <2>3. CASE SeedBegin(s) \/ SeedCreate(s) \/ SeedMark(s) \/ SeedDownload(s)
        BY <2>1, <2>3, Zenon DEF SeedBegin, SeedCreate, SeedMark, SeedDownload, CreateState, At
    <2>4. CASE SeedUpsert(s) \/ SeedIndex(s) \/ SeedSave(s) \/ SeedError(s)
        BY <2>1, <2>4, Zenon DEF SeedUpsert, SeedIndex, SeedSave, SeedError, At
    <2>5. CASE MetricsGet(s) \/ MetricsCount(s) \/ MetricsPut(s)
        BY <2>1, <2>5, Zenon DEF MetricsGet, MetricsCount, MetricsPut, At
    <2> QED
        BY <1>2, <2>3, <2>4, <2>5 DEF SeedStep
<1> QED
    BY <1>1, <1>2

LEMMA NextKept ==
    ASSUME TypeOK, ShapeInv, DateInv, Undisturbed', [Next]_vars
    PROVE  Kept({}) \/ (Fault("fetch") /\ \E v \in Osv : Kept({v}))
<1> HIDE DEF Kept
<1>u. faults'["upsert"] = 0 /\ \A r \in SeedRuns : runs'[r] = 0
    BY DEF Undisturbed
<1>1. ASSUME NEW v \in Osv, Publish(v) PROVE Kept({})
    BY <1>1, PublishKept
<1>2. /\ \A r \in SeedRuns : ~StartSeedAll(r)
      /\ \A s \in Seeds : ~SeedStep(s)
    BY SeedsRest
<1>4. CASE DeltaStep
    BY <1>4, <1>u, DeltaBeginKept, DeltaFetchKept, DeltaUpsertKept, DeltaEndKept DEF DeltaStep
<1>5. CASE MetricsStep
    BY <1>5, MetricsKept
<1>6. CASE Crash
    BY <1>6, CrashKept
<1>7. CASE UNCHANGED vars
    <2>1. UNCHANGED <<vulns, published, clock, state, job>>
        BY <1>7 DEF vars, storeVars, jobVars
    <2>2. DateInv' /\ \A e \in Ecosystems : Missed(e)' = Missed(e)
        BY <2>1 DEF DateInv, DeltaDates, At, Missed, Past, PassedBy, LeftOut
    <2> QED
        BY <2>2 DEF Kept
<1> QED
    BY <1>1, <1>2, <1>4, <1>5, <1>6, <1>7 DEF Next

\* A step begins at most one run of the loops, within its bound.
LEMMA OneRun ==
    ASSUME [Next]_vars
    PROVE  \/ UNCHANGED runs
           \/ \E r \in DOMAIN MaxRuns : /\ runs[r] < MaxRuns[r]
                                        /\ runs' = [runs EXCEPT ![r] = @ + 1]
<1>1. ASSUME NEW j \in Jobs, MetricsGet(j) \/ MetricsCount(j) \/ MetricsPut(j)
      PROVE  UNCHANGED runs
    BY <1>1 DEF MetricsGet, MetricsCount, MetricsPut, SaveState
<1>2. ASSUME NEW s \in Seeds, SeedStep(s) PROVE UNCHANGED runs
    BY <1>1, <1>2, JobsFacts
       DEF SeedStep, SeedBegin, SeedCreate, SeedMark, SeedDownload, SeedUpsert, SeedIndex,
           SeedSave, SeedError, ReadState, CreateState, SaveState
<1>3. CASE DeltaStep
    BY <1>3
       DEF DeltaStep, DeltaStart, DeltaNext, DeltaGet, DeltaCreate, DeltaFetch, DeltaUpsert,
           DeltaIndex, DeltaSave, NextEco, ReadState, CreateState, SaveState
<1>4. CASE MetricsStep
    BY <1>1, <1>4, JobsFacts, RunNames DEF MetricsStep, StartMetrics, MetricsNext, NextEco
<1> QED
    BY <1>2, <1>3, <1>4, RunNames DEF Next, Publish, StartSeedAll, Crash, vars, jobVars

\* No seed run is forgotten.
LEMMA UndisturbedBefore ==
    ASSUME TypeOK, [Next]_vars, Undisturbed' PROVE Undisturbed
<1>1. \A r \in SeedRuns : runs[r] <= runs'[r] /\ runs[r] \in Nat
    BY OneRun, RunNames DEF TypeOK
<1>2. faults["upsert"] <= faults'["upsert"] /\ faults["upsert"] \in Nat
    BY FaultsGrow DEF TypeOK, FaultKinds
<1> QED
    BY <1>1, <1>2 DEF Undisturbed

LEMMA MissedFinite ==
    \A e \in Ecosystems : IsFiniteSet(Missed(e)) /\ Cardinality(Missed(e)) \in Nat
<1> SUFFICES ASSUME NEW e \in Ecosystems
             PROVE  IsFiniteSet(Missed(e)) /\ Cardinality(Missed(e)) \in Nat
    OBVIOUS
<1>1. Missed(e) \subseteq Osv
    BY EcosystemAssumption DEF Missed
<1> HIDE DEF Missed
<1> QED
    BY <1>1, OsvAssumption, FS_Subset, FS_CardinalityType

LEMMA InitCursor == Init => CursorInv
<1> SUFFICES ASSUME Init PROVE CursorInv
    OBVIOUS
<1>1. /\ clock = 1 /\ \A v \in Osv : published[v] = 1 /\ vulns[v].rev = 0
      /\ \A e \in Ecosystems : state[e].cursor = 0
      /\ \A j \in Jobs : job[j] = Finished(j)
      /\ faults["fetch"] = 0
    BY DEF Init, StoreInit, Absent, NoState, FaultKinds
<1>2. DeltaDates(job[DeltaJob])
    BY <1>1, JobsFacts, FinishedQuiet DEF DeltaDates, Nothing
<1>3. DateInv
    BY <1>1, <1>2, JobsFacts, FinishedQuiet DEF DateInv, At
<1>4. ASSUME NEW e \in Ecosystems PROVE Missed(e) = {}
    <2>1. ASSUME NEW v \in Dir[e] PROVE ~Past(e, v)
        <3>1. v \in Osv
            BY EcosystemAssumption
        <3>2. \A j \in Jobs : ~PassedBy(job[j], e, v)
            BY <1>1, <3>1, FinishedQuiet DEF PassedBy
        <3>3. ~LeftOut(job[DeltaJob], e, v)
            BY <1>1, JobsFacts, FinishedQuiet DEF LeftOut
        <3> QED
            BY <1>1, <3>1, <3>2, <3>3 DEF Past
    <2> QED
        BY <2>1 DEF Missed
<1>5. \A e \in Ecosystems : Cardinality(Missed(e)) <= faults["fetch"]
    BY <1>1, <1>4, FS_EmptySet
<1> QED
    BY <1>3, <1>5 DEF CursorInv

LEMMA NextCursor ==
    ASSUME TypeOK, ShapeInv, CursorInv, [Next]_vars PROVE CursorInv'
<1> SUFFICES ASSUME Undisturbed'
             PROVE  /\ DateInv'
                    /\ \A e \in Ecosystems : Cardinality(Missed(e)') <= faults'["fetch"]
    BY DEF CursorInv
<1>1. Undisturbed /\ DateInv
    BY UndisturbedBefore DEF CursorInv
<1>2. \A e \in Ecosystems : Cardinality(Missed(e)) <= faults["fetch"]
    BY <1>1 DEF CursorInv
<1>3. Kept({}) \/ (Fault("fetch") /\ \E v \in Osv : Kept({v}))
    BY <1>1, NextKept
<1>4. faults["fetch"] \in Nat /\ faults'["fetch"] \in Nat /\ faults["fetch"] <= faults'["fetch"]
    BY NextType, FaultsGrow DEF TypeOK, FaultKinds
<1>5. CASE Kept({})
    <2>1. DateInv' /\ \A e \in Ecosystems : Missed(e)' \subseteq Missed(e)
        BY <1>5 DEF Kept
    <2>2. ASSUME NEW e \in Ecosystems PROVE Cardinality(Missed(e)') <= faults'["fetch"]
        <3> DEFINE old == Missed(e)
                   new == Missed(e)'
        <3>1. IsFiniteSet(old) /\ Cardinality(old) \in Nat /\ new \subseteq old
            BY <2>1, MissedFinite
        <3>2. Cardinality(old) <= faults["fetch"]
            BY <1>2
        <3> HIDE DEF old, new
        <3>3. IsFiniteSet(new) /\ Cardinality(new) <= Cardinality(old)
            BY <3>1, FS_Subset
        <3>4. Cardinality(new) \in Nat
            BY <3>3, FS_CardinalityType
        <3>5. Cardinality(new) <= faults'["fetch"]
            BY <1>4, <3>1, <3>2, <3>3, <3>4
        <3> QED
            BY <3>5 DEF new
    <2> QED
        BY <2>1, <2>2
<1>6. ASSUME Fault("fetch"), NEW v \in Osv, Kept({v})
      PROVE  /\ DateInv'
             /\ \A e \in Ecosystems : Cardinality(Missed(e)') <= faults'["fetch"]
    <2>1. DateInv' /\ \A e \in Ecosystems : Missed(e)' \subseteq Missed(e) \cup {v}
        BY <1>6 DEF Kept
    <2>2. faults'["fetch"] = faults["fetch"] + 1
        BY <1>6 DEF Fault, TypeOK, FaultKinds
    <2>3. ASSUME NEW e \in Ecosystems PROVE Cardinality(Missed(e)') <= faults'["fetch"]
        <3> DEFINE old == Missed(e)
                   new == Missed(e)'
        <3>1. IsFiniteSet(old) /\ Cardinality(old) \in Nat /\ new \subseteq old \cup {v}
            BY <2>1, MissedFinite
        <3>2. Cardinality(old) <= faults["fetch"]
            BY <1>2
        <3> HIDE DEF old, new
        <3>3. /\ IsFiniteSet(old \cup {v})
              /\ \/ Cardinality(old \cup {v}) = Cardinality(old)
                 \/ Cardinality(old \cup {v}) = Cardinality(old) + 1
            BY <3>1, FS_AddElement
        <3>4. IsFiniteSet(new) /\ Cardinality(new) <= Cardinality(old \cup {v})
            BY <3>1, <3>3, FS_Subset
        <3>5. Cardinality(new) \in Nat
            BY <3>4, FS_CardinalityType
        <3>6. Cardinality(new) <= faults'["fetch"]
            BY <1>4, <2>2, <3>1, <3>2, <3>3, <3>4, <3>5
        <3> QED
            BY <3>6 DEF new
    <2> QED
        BY <2>1, <2>3
<1> QED
    BY <1>3, <1>5, <1>6

\* Over any records, ecosystems, batches and bounds, through crashes, failed
\* downloads, rebuilds and saves: while no seed has begun and no upsert has failed,
\* the records the cursor of an ecosystem has passed without their being stored are
\* at most as many as the fetches that failed.
THEOREM CursorPassesNoMore == Spec => []CursorApplied
<1>1. Init => CursorInv
    BY InitCursor
<1>2. TypeOK /\ ShapeInv /\ IndexInv /\ CursorInv /\ [Next]_vars => CursorInv'
    BY NextCursor
<1>3. TypeOK /\ CursorInv => CursorApplied
    <2> SUFFICES ASSUME TypeOK, CursorInv, Undisturbed, NEW e \in Ecosystems
                 PROVE  Cardinality(PassedOver(e)) <= faults["fetch"]
        BY DEF CursorApplied, Undisturbed
    <2>1. Cardinality(Missed(e)) <= faults["fetch"] /\ faults["fetch"] \in Nat
        BY DEF CursorInv, TypeOK, FaultKinds
    <2>2. PassedOver(e) \subseteq Missed(e)
        BY DEF PassedOver, Missed, Past
    <2>3. IsFiniteSet(Missed(e)) /\ Cardinality(Missed(e)) \in Nat
        BY MissedFinite
    <2> HIDE DEF PassedOver, Missed
    <2>4. IsFiniteSet(PassedOver(e)) /\ Cardinality(PassedOver(e)) <= Cardinality(Missed(e))
        BY <2>2, <2>3, FS_Subset
    <2>5. Cardinality(PassedOver(e)) \in Nat
        BY <2>4, FS_CardinalityType
    <2> QED
        BY <2>1, <2>3, <2>4, <2>5
<1> QED
    BY <1>1, <1>2, <1>3, IndexCorrect, PTL DEF Spec

-----------------------------------------------------------------------------
(* The delta loop implements FeedMirror.                                    *)

Bounds == Cursors \cup {0, job[DeltaJob].latest}

\* No cursor is new, but 0 and the latest date fetched, and the csv stays what it was
\* until the delta ends or begins again.
NewsKept ==
    /\ Cursors' \subseteq Bounds
    /\ \/ job'[DeltaJob].pc = "idle" \/ job'[DeltaJob].csv = published
       \/ job[DeltaJob].pc # "idle" /\ job'[DeltaJob].csv = job[DeltaJob].csv

\* A step that writes at most the row of one ecosystem.
RowStep ==
    /\ UNCHANGED <<vulns, published, clock>>
    /\ \E e \in Ecosystems : \A f \in Ecosystems \ {e} : state'[f] = state[f]

LEMMA JobNews ==
    ASSUME TypeOK, NEW j \in {DeltaJob, MetricsJob}, NEW new, Set(j, new),
           \A e \in Ecosystems : state'[e] = state[e] \/ state'[e].cursor \in Bounds,
           new.mem.cursor \in Bounds,
           j = DeltaJob => \/ new.pc = "idle" \/ new.csv = published
                           \/ job[DeltaJob].pc # "idle" /\ new.csv = job[DeltaJob].csv
    PROVE  NewsKept
<1>1. /\ j \in Jobs /\ job'[j] = new
      /\ \A k \in Jobs : k # j => job'[k] = job[k]
    BY JobsFacts DEF Set, TypeOK
<1>2. \A e \in Ecosystems : state'[e].cursor \in Bounds
    BY DEF Bounds, Cursors
<1>3. \A k \in Jobs : job'[k].mem.cursor \in Bounds
    BY <1>1 DEF Bounds, Cursors
<1>4. Cursors' \subseteq Bounds
    BY <1>2, <1>3 DEF Cursors
<1>5. CASE j = DeltaJob
    BY <1>1, <1>4, <1>5 DEF NewsKept
<1>6. CASE j = MetricsJob
    BY <1>1, <1>4, <1>6, JobsFacts DEF NewsKept
<1> QED
    BY <1>5, <1>6

LEMMA SameNews ==
    ASSUME UNCHANGED <<job, state>> PROVE NewsKept
BY DEF NewsKept, Bounds, Cursors

LEMMA HeldCursor ==
    /\ \A j \in Jobs : job[j].mem.cursor \in Bounds
    /\ \A e \in Ecosystems : state[e].cursor \in Bounds
    /\ 0 \in Bounds /\ job[DeltaJob].latest \in Bounds
BY DEF Bounds, Cursors

LEMMA NewsStay ==
    ASSUME TypeOK, DateInv, NewsAhead, NewsKept, UNCHANGED published
    PROVE  NewsAhead'
<1> DEFINE d == job[DeltaJob]
<1>1. DeltaDates(d) /\ d.latest \in Nat /\ DeltaJob \in Jobs
      /\ \A v \in Osv : published[v] \in Nat /\ 1 <= published[v]
    BY JobsFacts DEF TypeOK, DateInv, Job
<1>2. ASSUME job'[DeltaJob].pc # "idle", NEW v \in Osv, NEW c \in Cursors',
             job'[DeltaJob].csv[v] # published[v]
      PROVE  c < published[v]
    <2>1. d.pc # "idle" /\ d.csv[v] # published[v]
        BY <1>2 DEF NewsKept
    <2>2. c \in Cursors \/ c = 0 \/ c = d.latest
        BY <1>2 DEF NewsKept, Bounds
    <2>3. CASE c \in Cursors
        <3>1. \A w \in Osv, b \in Cursors : d.csv[w] = published[w] \/ b < published[w]
            BY <2>1 DEF NewsAhead, At
        <3> QED
            BY <2>1, <2>3, <3>1
    <2>4. CASE c = 0
        BY <1>1, <2>4
    <2>5. CASE c = d.latest
        BY <1>1, <2>1, <2>5 DEF DeltaDates
    <2> QED
        BY <2>2, <2>3, <2>4, <2>5
<1> QED
    <2>1. UNCHANGED published
        OBVIOUS
    <2>2. \A v \in Osv, c \in Cursors' : job'[DeltaJob].pc # "idle" =>
              job'[DeltaJob].csv[v] = published'[v] \/ c < published'[v]
        BY <1>2, <2>1
    <2> QED
        BY <2>2 DEF NewsAhead, At

LEMMA PublishNews ==
    ASSUME TypeOK, DateInv, NewsAhead, NEW v \in Osv, Publish(v)
    PROVE  NewsAhead'
<1>1. /\ UNCHANGED <<state, job>> /\ clock \in Nat
      /\ \A w \in Osv : published'[w] = IF w = v THEN clock + 1 ELSE published[w]
    BY DEF Publish, TypeOK, storeVars, jobVars
<1>2. Cursors' = Cursors
    BY <1>1 DEF Cursors
<1>3. \A c \in Cursors : c \in Nat /\ c <= clock
    <2>1. \A e \in Ecosystems : state[e].cursor \in Nat /\ state[e].cursor <= clock
        BY DEF TypeOK, SyncState, DateInv
    <2>2. \A j \in Jobs : job[j].mem.cursor \in Nat /\ job[j].mem.cursor <= clock
        BY DEF TypeOK, Job, SyncState, DateInv
    <2> QED
        BY <2>1, <2>2 DEF Cursors
<1>4. ASSUME ~At(DeltaJob, "idle"), NEW w \in Osv, NEW c \in Cursors,
             job[DeltaJob].csv[w] # published'[w]
      PROVE  c < published'[w]
    <2>1. CASE w = v
        BY <1>1, <1>3, <2>1
    <2>2. CASE w # v
        BY <1>1, <1>4, <2>2 DEF NewsAhead
    <2> QED
        BY <2>1, <2>2
<1> QED
    BY <1>1, <1>2, <1>4 DEF NewsAhead, At

LEMMA NextEcoNews ==
    ASSUME TypeOK, NEW j \in {DeltaJob, MetricsJob}, NEW pc, NextEco(j, pc)
    PROVE  NewsKept /\ RowStep
<1>1. j \in Jobs /\ job[j] \in Job /\ job[j].pc = "next"
    BY JobsFacts, Zenon DEF TypeOK, NextEco, At
<1>2. UNCHANGED <<vulns, published, clock, state>>
    BY Zenon DEF NextEco, storeVars
<1>3. ASSUME NEW e \in job[j].left,
             Set(j, [job[j] EXCEPT !.pc = pc, !.eco = e, !.left = @ \ {e}])
      PROVE  NewsKept
    <2> DEFINE new == [job[j] EXCEPT !.pc = pc, !.eco = e, !.left = @ \ {e}]
    <2>1. new.mem = job[j].mem /\ new.csv = job[j].csv /\ Set(j, new)
        BY <1>1, <1>3 DEF Job
    <2>2. new.mem.cursor \in Bounds
        BY <1>1, <2>1, HeldCursor
    <2> HIDE DEF new
    <2> QED
        BY <1>1, <1>2, <2>1, <2>2, JobNews
<1>4. ASSUME Set(j, Finished(j)) PROVE NewsKept
    <2>1. Finished(j).pc = "idle" /\ Finished(j).mem.cursor \in Bounds
        BY <1>1, FinishedQuiet, HeldCursor
    <2> QED
        BY <1>2, <1>4, <2>1, JobNews
<1>5. \/ \E e \in job[j].left :
             Set(j, [job[j] EXCEPT !.pc = pc, !.eco = e, !.left = @ \ {e}])
      \/ Set(j, Finished(j))
    BY Zenon DEF NextEco
<1>6. NewsKept
    BY <1>3, <1>4, <1>5, Zenon
<1>7. RowStep
    BY <1>2, EcosystemAssumption DEF RowStep
<1> QED
    BY <1>6, <1>7

\* Saving a row leaves the rows of the other ecosystems alone.
LEMMA SaveNews ==
    ASSUME TypeOK, NEW j \in {DeltaJob, MetricsJob}, NEW row, NEW new, SaveState(j, row, new),
           row.cursor \in Bounds, new.mem.cursor \in Bounds,
           j = DeltaJob => job[DeltaJob].pc # "idle" /\ new.csv = job[DeltaJob].csv
    PROVE  NewsKept /\ RowStep
<1>1. j \in Jobs /\ job[j].eco \in Ecosystems
    BY JobsFacts DEF TypeOK, Job
<1>2. /\ Set(j, new) /\ UNCHANGED <<vulns, published, clock>>
      /\ \A e \in Ecosystems : state'[e] = state[e] \/ (e = job[j].eco /\ state'[e] = row)
    BY DEF SaveState, UpdateSyncState, TypeOK, storeVars
<1>3. NewsKept
    BY <1>2, JobNews
<1> QED
    BY <1>1, <1>2, <1>3 DEF RowStep

\* A step of a job that leaves the tables alone, but may create a row.
LEMMA SetNews ==
    ASSUME TypeOK, NEW j \in {DeltaJob, MetricsJob}, NEW new, Set(j, new),
           UNCHANGED <<vulns, published, clock, state>>, new.mem.cursor \in Bounds,
           j = DeltaJob => \/ new.pc = "idle" \/ new.csv = published
                           \/ job[DeltaJob].pc # "idle" /\ new.csv = job[DeltaJob].csv
    PROVE  NewsKept /\ RowStep
<1>1. NewsKept
    BY JobNews
<1>2. RowStep
    BY EcosystemAssumption DEF RowStep
<1> QED
    BY <1>1, <1>2

LEMMA MetricsNews ==
    ASSUME TypeOK, MetricsStep PROVE NewsKept /\ RowStep
<1> DEFINE j == MetricsJob
<1>1. /\ j \in Jobs /\ j # DeltaJob /\ job[j] \in Job
      /\ job[j].mem \in SyncState /\ job[j].eco \in Ecosystems
    BY JobsFacts DEF TypeOK, Job
<1> HIDE DEF j, NewsKept, RowStep
<1>2. CASE StartMetrics
    <2> DEFINE left == {e \in Ecosystems : state[e] # NoState}
               new == [job[j] EXCEPT !.pc = "next", !.left = left]
    <2>1. new.mem = job[j].mem
        <3> HIDE DEF left
        <3> QED BY <1>1 DEF Job
    <2>2. Set(j, new) /\ UNCHANGED <<vulns, published, clock, state>>
        BY <1>2 DEF StartMetrics, storeVars, j
    <2> HIDE DEF new
    <2> QED
        BY <1>1, <2>1, <2>2, HeldCursor, SetNews DEF j
<1>3. CASE MetricsNext
    BY <1>3, NextEcoNews DEF MetricsNext
<1>4. CASE MetricsGet(j)
    <2> DEFINE new == [job[j] EXCEPT !.pc = "count", !.mem = state[job[j].eco]]
    <2>1. new.mem = state[job[j].eco]
        BY <1>1 DEF Job
    <2>2. Set(j, new) /\ UNCHANGED <<vulns, published, clock, state>>
        BY <1>4 DEF MetricsGet, storeVars
    <2> HIDE DEF new
    <2> QED
        BY <1>1, <2>1, <2>2, HeldCursor, SetNews DEF j
<1>5. CASE MetricsCount(j)
    <2> DEFINE n == Cardinality({v \in Osv : Stored(v) /\ Home[v] = job[j].eco})
               new == [job[j] EXCEPT !.pc = "put", !.mem.total = n]
    <2>1. new.mem.cursor = job[j].mem.cursor
        <3> HIDE DEF n
        <3> QED BY <1>1 DEF Job, SyncState
    <2>2. Set(j, new) /\ UNCHANGED <<vulns, published, clock, state>>
        BY <1>5 DEF MetricsCount, storeVars
    <2> HIDE DEF new
    <2> QED
        BY <1>1, <2>1, <2>2, HeldCursor, SetNews DEF j
<1>6. CASE MetricsPut(j)
    <2> DEFINE next == [job[j] EXCEPT !.pc = "next", !.mem = NoState]
    <2>1. next.mem.cursor = 0
        BY <1>1 DEF Job, NoState
    <2>2. PICK new \in {next, Finished(j)} : SaveState(j, job[j].mem, new)
        BY <1>6 DEF MetricsPut, j
    <2>3. new.mem.cursor \in Bounds
        BY <1>1, <2>1, <2>2, FinishedQuiet, HeldCursor
    <2>4. SaveState(j, job[j].mem, new)
        BY <2>2
    <2> HIDE DEF next
    <2> QED
        BY <1>1, <2>3, <2>4, HeldCursor, SaveNews DEF j
<1> QED
    BY <1>2, <1>3, <1>4, <1>5, <1>6 DEF MetricsStep, j

\* The row found, or the new one, is taken up: its cursor is one of those known.
LEMMA FilterNews ==
    ASSUME TypeOK, NEW row, row.cursor \in Bounds, Set(DeltaJob, DeltaFilter(row)),
           job[DeltaJob].pc # "idle",
           \A e \in Ecosystems : state'[e] = state[e] \/ state'[e].cursor \in Bounds
    PROVE  NewsKept
<1> DEFINE d == job[DeltaJob]
           newer == {v \in Dir[d.eco] : d.csv[v] > row.cursor}
           start == [d EXCEPT !.pc = "fetch", !.mem = row, !.rest = newer]
<1>1. d \in Job
    BY JobsFacts DEF TypeOK
<1>2. DeltaRest.csv = d.csv /\ DeltaRest.mem.cursor = 0
    BY <1>1 DEF DeltaRest, Finished, NoState
<1>3. start.csv = d.csv /\ start.mem = row
    <2> HIDE DEF newer
    <2> QED BY <1>1 DEF Job
<1>4. Set(DeltaJob, DeltaRest) \/ Set(DeltaJob, start)
    BY DEF DeltaFilter
<1> HIDE DEF start, newer, NewsKept
<1> QED
    BY <1>2, <1>3, <1>4, HeldCursor, JobNews

LEMMA DeltaBeginNews ==
    ASSUME TypeOK, DeltaStart \/ DeltaNext \/ DeltaGet \/ DeltaCreate
    PROVE  NewsKept /\ RowStep
<1> DEFINE d == job[DeltaJob]
<1>1. d \in Job /\ DeltaJob \in Jobs /\ d.eco \in Ecosystems
    BY JobsFacts DEF TypeOK, Job
<1> HIDE DEF NewsKept, RowStep
<1>2. CASE DeltaStart
    <2> DEFINE left == {e \in Ecosystems : Dir[e] # {}}
               start == [d EXCEPT !.pc = "next", !.csv = published, !.left = left]
    <2>1. start.csv = published /\ start.mem = d.mem
        <3> HIDE DEF left
        <3> QED BY <1>1 DEF Job
    <2>2. UNCHANGED <<vulns, published, clock, state>>
        BY <1>2 DEF DeltaStart, storeVars
    <2>3. CASE Set(DeltaJob, start)
        <3> HIDE DEF start
        <3> QED
            BY <2>1, <2>2, <2>3, HeldCursor, <1>1, SetNews
    <2>4. CASE UNCHANGED job
        <3>1. NewsKept
            <4>1. Cursors' = Cursors
                BY <2>2, <2>4 DEF Cursors
            <4> QED
                BY <1>2, <1>1, <2>4, <4>1 DEF NewsKept, Bounds, DeltaStart, At
        <3>2. RowStep
            BY <2>2, EcosystemAssumption DEF RowStep
        <3> QED
            BY <3>1, <3>2
    <2> QED
        BY <1>2, <2>3, <2>4 DEF DeltaStart
<1>3. CASE DeltaNext
    BY <1>3, NextEcoNews DEF DeltaNext
<1>4. CASE DeltaGet
    <2> DEFINE new == [d EXCEPT !.pc = "create"]
    <2>1. d.pc = "get" /\ UNCHANGED <<vulns, published, clock, state>>
        BY <1>4 DEF DeltaGet, ReadState, At, storeVars
    <2>2. new.mem = d.mem /\ new.csv = d.csv
        BY <1>1 DEF Job
    <2>3. CASE Set(DeltaJob, new)
        <3> HIDE DEF new
        <3> QED
            BY <1>1, <2>1, <2>2, <2>3, HeldCursor, SetNews
    <2>4. CASE Set(DeltaJob, DeltaFilter(state[d.eco]))
        <3>1. NewsKept
            BY <1>1, <2>1, <2>4, HeldCursor, FilterNews
        <3>2. RowStep
            BY <2>1, EcosystemAssumption DEF RowStep
        <3> QED
            BY <3>1, <3>2
    <2> QED
        BY <1>4, <2>3, <2>4 DEF DeltaGet, ReadState
<1>5. CASE DeltaCreate
    <2>1. d.pc = "create" /\ UNCHANGED <<vulns, published, clock>>
        BY <1>5 DEF DeltaCreate, CreateState, At, storeVars
    <2>2. NewState.cursor = 0
        BY DEF NewState, NoState
    <2>3. \A e \in Ecosystems : \/ state'[e] = state[e]
                                \/ e = d.eco /\ state'[e].cursor = 0
        BY <1>5, <2>2 DEF DeltaCreate, CreateState, TypeOK
    <2>4. RowStep
        BY <1>1, <2>1, <2>3 DEF RowStep
    <2>5. CASE Set(DeltaJob, DeltaFilter(NewState))
        BY <2>1, <2>2, <2>3, <2>4, <2>5, HeldCursor, FilterNews
    <2>6. CASE Set(DeltaJob, DeltaRest)
        <3>1. DeltaRest.csv = d.csv /\ DeltaRest.mem.cursor = 0
            BY <1>1 DEF DeltaRest, Finished, NoState
        <3> QED
            BY <2>1, <2>3, <2>4, <2>6, <3>1, HeldCursor, JobNews
    <2> QED
        BY <1>5, <2>5, <2>6 DEF DeltaCreate, CreateState
<1> QED
    BY <1>2, <1>3, <1>4, <1>5

LEMMA DeltaFetchNews ==
    ASSUME TypeOK, DeltaFetch PROVE NewsKept /\ RowStep
<1> DEFINE d == job[DeltaJob]
           got(v) == [d EXCEPT !.content[v] = published[v],
                               !.latest = IF d.csv[v] > @ THEN d.csv[v] ELSE @]
<1>1. d \in Job /\ d.rest \subseteq Osv /\ d.pc = "fetch"
    BY JobsFacts DEF TypeOK, Job, DeltaFetch, At
<1>2. UNCHANGED <<vulns, published, clock, state>>
    BY DEF DeltaFetch, storeVars
<1>3. ASSUME NEW v \in d.rest PROVE got(v) \in Job /\ got(v).pc = "fetch"
                                    /\ got(v).csv = d.csv /\ got(v).mem = d.mem
    BY <1>1 DEF Job, TypeOK
<1>4. \E v \in d.rest : Set(DeltaJob, Fetched(got(v), v)) \/ Set(DeltaJob, Fetched(d, v))
    BY DEF DeltaFetch
<1> HIDE DEF got, NewsKept, RowStep
<1>5. PICK v \in d.rest : Set(DeltaJob, Fetched(got(v), v)) \/ Set(DeltaJob, Fetched(d, v))
    BY <1>4
<1>6. PICK new \in {got(v), d} : Set(DeltaJob, Fetched(new, v))
    BY <1>5
<1>7. new \in Job /\ new.pc = "fetch" /\ new.csv = d.csv /\ new.mem = d.mem
    BY <1>1, <1>3, <1>6
<1>8. Fetched(new, v).csv = d.csv /\ Fetched(new, v).mem = d.mem
    BY <1>7, FetchedFields
<1> QED
    BY <1>1, <1>2, <1>6, <1>8, JobsFacts, HeldCursor, SetNews

LEMMA DeltaEndNews ==
    ASSUME TypeOK, DeltaIndex \/ DeltaSave PROVE NewsKept /\ RowStep
<1> DEFINE d == job[DeltaJob]
<1>1. d \in Job /\ DeltaJob \in Jobs /\ d.mem \in SyncState
    BY JobsFacts DEF TypeOK, Job
<1> HIDE DEF NewsKept, RowStep
<1>2. CASE DeltaIndex
    <2> DEFINE new == [d EXCEPT !.pc = "save"]
    <2>1. d.pc = "index" /\ Set(DeltaJob, new)
        BY <1>2 DEF DeltaIndex, At
    <2>2. new.mem = d.mem /\ new.csv = d.csv
        BY <1>1 DEF Job
    <2>3. UNCHANGED <<vulns, published, clock, state>>
        BY <1>2 DEF DeltaIndex, BulkRebuildPackageIndex, storeVars
    <2> HIDE DEF new
    <2> QED
        BY <1>1, <2>1, <2>2, <2>3, HeldCursor, SetNews
<1>3. CASE DeltaSave
    <2> DEFINE row == IF d.latest = 0 THEN d.mem ELSE [d.mem EXCEPT !.cursor = d.latest]
    <2>1. d.pc = "save" /\ SaveState(DeltaJob, row, DeltaRest)
        BY <1>3 DEF DeltaSave, At
    <2>2. row.cursor \in {d.mem.cursor, d.latest}
        BY <1>1 DEF SyncState
    <2> HIDE DEF row
    <2>3. DeltaRest.csv = d.csv /\ DeltaRest.mem.cursor = 0
        BY <1>1 DEF DeltaRest, Finished, NoState
    <2> QED
        BY <1>1, <2>1, <2>2, <2>3, HeldCursor, SaveNews
<1> QED
    BY <1>2, <1>3

\* A batch that is stored is moved forward, but for what is stored already.
LEMMA DeltaUpsertNews ==
    ASSUME TypeOK, ShapeInv, DateInv, DateInv', TypeOK', NewsAhead, DeltaUpsert,
           faults'["upsert"] = 0
    PROVE  NewsKept /\ \E moved \in SUBSET Osv : Feed!Move(moved)
<1> DEFINE d == job[DeltaJob]
<1>1. /\ d.pc = "upsert" /\ d.rest \subseteq Held(d) /\ d.rest \subseteq Osv
      /\ DeltaJob \in Jobs /\ clock \in Nat /\ DeltaDates(d)
      /\ \A w \in Osv : /\ published[w] \in Nat /\ published[w] <= clock
                        /\ vulns[w].rev \in Nat /\ vulns'[w].rev \in Nat
                        /\ d.csv[w] \in Nat /\ d.content[w] \in Nat
      /\ \A e \in Ecosystems : state[e].cursor \in Nat
    <2>1. d \in Job /\ DeltaJob \in Jobs /\ d.pc = "upsert" /\ Shape(DeltaJob, d)
        BY JobsFacts DEF TypeOK, DeltaUpsert, At, ShapeInv
    <2>2. d.rest \subseteq Held(d) /\ d.rest \subseteq Osv
        BY <2>1 DEF Shape, Job
    <2>3. \A w \in Osv : d.csv[w] \in Nat /\ d.content[w] \in Nat
        BY <2>1 DEF Job
    <2>4. /\ \A w \in Osv : /\ published[w] \in Nat /\ published[w] <= clock
                            /\ vulns[w].rev \in Nat /\ vulns'[w].rev \in Nat
          /\ clock \in Nat /\ DeltaDates(d)
        BY DEF TypeOK, DateInv, Row
    <2>5. \A e \in Ecosystems : state[e].cursor \in Nat
        BY DEF TypeOK, SyncState
    <2> QED
        BY <2>1, <2>2, <2>3, <2>4, <2>5
<1>2. PICK batch \in SUBSET d.rest : \E r :
          /\ Set(DeltaJob, r) /\ UNCHANGED <<published, clock, state>>
          /\ r.mem = d.mem /\ r.csv = d.csv
          /\ \A w \in Osv : /\ w \notin batch => vulns'[w] = vulns[w]
                            /\ w \in batch => vulns'[w].rev = d.content[w]
    BY DeltaUpserts
<1>3. NewsKept
    BY <1>1, <1>2, HeldCursor, JobNews
<1>m. PICK moved \in SUBSET batch : moved = {w \in batch : d.content[w] # vulns[w].rev}
    OBVIOUS
<1>4. ASSUME NEW w \in moved
      PROVE  /\ w \in Osv /\ d.csv[w] <= d.content[w] /\ vulns'[w].rev = d.content[w]
             /\ vulns[w].rev < d.content[w] /\ d.content[w] <= published[w]
    BY <1>1, <1>2, <1>m DEF DeltaDates, Held
<1>5. \A w \in Osv : w \notin moved => vulns'[w].rev = vulns[w].rev
    BY <1>1, <1>2, <1>m
<1>6. UNCHANGED <<published, clock, state>>
    BY <1>2
<1>7. ASSUME NEW e \in Ecosystems PROVE PassedOver(e)' = PassedOver(e) \ moved
    <2>1. ASSUME NEW w \in moved, published[w] <= state[e].cursor
          PROVE  vulns'[w].rev = published[w]
        <3>1. d.csv[w] = published[w] \/ state[e].cursor < published[w]
            BY <1>1, <1>4 DEF NewsAhead, At, Cursors
        <3>2. d.csv[w] = published[w]
            BY <1>1, <1>4, <2>1, <3>1
        <3> QED
            BY <1>1, <1>4, <3>2
    <2>2. \A w \in Dir[e] : w \in Osv
        BY EcosystemAssumption
    <2> QED
        BY <1>5, <1>6, <2>1, <2>2 DEF PassedOver
<1>8. [v \in Osv |-> vulns'[v].rev] \in [Osv -> 0..clock]
    BY <1>1, <1>6 DEF DateInv
<1>9. moved \in SUBSET Osv
    BY <1>4
<1>10. Feed!Move(moved)
    BY <1>1, <1>4, <1>5, <1>6, <1>7, <1>8, <1>9 DEF Feed!Move
<1> QED
    BY <1>3, <1>9, <1>10

\* A publication is one of the abstract mirror: no cursor is past its date.
LEMMA PublishesFeed ==
    ASSUME TypeOK, DateInv, NEW v \in Osv, Publish(v)
    PROVE  Feed!Publish(v)
<1>1. /\ UNCHANGED <<state, vulns>> /\ clock \in Nat /\ clock < MaxClock /\ clock' = clock + 1
      /\ published' = [published EXCEPT ![v] = clock'] /\ published \in [Osv -> Nat]
      /\ \A e \in Ecosystems : state[e].cursor \in Nat /\ state[e].cursor <= clock
    BY DEF Publish, TypeOK, storeVars, SyncState, DateInv
<1>2. ASSUME NEW e \in Ecosystems PROVE PassedOver(e)' = PassedOver(e) \ {v}
    <2>1. \A w \in Dir[e] : w \in Osv
        BY EcosystemAssumption
    <2>2. \A w \in Osv : published'[w] = IF w = v THEN clock + 1 ELSE published[w]
        BY <1>1
    <2>3. ~(clock + 1 <= state[e].cursor)
        BY <1>1
    <2> QED
        BY <1>1, <2>1, <2>2, <2>3 DEF PassedOver
<1> QED
    BY <1>1, <1>2 DEF Feed!Publish

LEMMA SameCardinality == \A S : Feed!Cardinality(S) = Cardinality(S)
BY Zenon DEF Feed!Cardinality, Cardinality

\* A step that writes the row of one ecosystem may give up records of it: they are
\* at most as many as the fetches that failed.
LEMMA RowsFeed ==
    ASSUME RowStep, TypeOK', DateInv', Undisturbed', CursorApplied', BoundInv',
           MaxFaults["fetch"] \in Nat
    PROVE  \E e \in Ecosystems, lot \in SUBSET Osv : Feed!GiveUp(e, lot)
<1>1. PICK e \in Ecosystems : \A f \in Ecosystems \ {e} : state'[f] = state[f]
    BY DEF RowStep
<1>2. UNCHANGED <<vulns, published, clock>>
    BY DEF RowStep
<1>3. PICK lot \in SUBSET Osv : lot = PassedOver(e)'
    <2>1. PassedOver(e)' \in SUBSET Osv
        BY EcosystemAssumption DEF PassedOver
    <2> QED
        BY <2>1
<1>4. ASSUME NEW v \in lot PROVE vulns[v].rev < published[v]
    <2>1. vulns[v].rev # published[v] /\ v \in Osv
        BY <1>2, <1>3, <1>4 DEF PassedOver
    <2>2. vulns[v].rev <= published[v] /\ vulns[v].rev \in Nat /\ published[v] \in Nat
        BY <1>2, <2>1 DEF DateInv, TypeOK, Row
    <2> QED
        BY <2>1, <2>2
<1>5. Cardinality(lot) <= MaxFaults["fetch"]
    <2>1. Cardinality(lot) <= faults'["fetch"]
        BY <1>3 DEF CursorApplied, Undisturbed
    <2>2. faults'["fetch"] <= MaxFaults["fetch"] /\ faults'["fetch"] \in Nat
        BY DEF BoundInv, TypeOK, FaultKinds
    <2>3. Cardinality(lot) \in Nat
        BY <1>3, OsvAssumption, FS_Subset, FS_CardinalityType
    <2> QED
        BY <2>1, <2>2, <2>3
<1>6. \A f \in Ecosystems : PassedOver(f)' = IF f = e THEN lot ELSE PassedOver(f)
    BY <1>1, <1>2, <1>3 DEF PassedOver
<1>7. /\ \A v \in lot : [w \in Osv |-> vulns[w].rev][v] < published[v]
      /\ Feed!Cardinality(lot) <= MaxFaults["fetch"]
    BY <1>3, <1>4, <1>5, SameCardinality
<1>8. [f \in Ecosystems |-> PassedOver(f)]'
          = [[f \in Ecosystems |-> PassedOver(f)] EXCEPT ![e] = lot]
    BY <1>6
<1>9. UNCHANGED <<published, clock, [v \in Osv |-> vulns[v].rev]>>
    BY <1>2
<1>10. Feed!GiveUp(e, lot)
    BY <1>7, <1>8, <1>9 DEF Feed!GiveUp
<1> QED
    BY <1>10

LEMMA NextBound ==
    ASSUME TypeOK, BoundInv, [Next]_vars PROVE BoundInv'
<1>1. \A k \in FaultKinds : faults'[k] <= MaxFaults[k]
    <2>1. ASSUME NEW k \in FaultKinds, Fault(k), NEW n \in FaultKinds
          PROVE  faults'[n] <= MaxFaults[n]
        <3>1. faults[k] < MaxFaults[k] /\ faults'[n] = IF n = k THEN faults[k] + 1 ELSE faults[n]
            BY <2>1 DEF Fault, TypeOK
        <3>2. faults[k] \in Nat /\ MaxFaults[k] \in Nat /\ faults[n] <= MaxFaults[n]
            BY BoundAssumption DEF TypeOK, BoundInv
        <3> QED
            BY <3>1, <3>2
    <2> QED
        BY <2>1, OneFault DEF BoundInv
<1>2. \A r \in SeedRuns : runs'[r] <= MaxRuns[r]
    <2>1. ASSUME NEW r \in DOMAIN MaxRuns, runs[r] < MaxRuns[r],
                 runs' = [runs EXCEPT ![r] = @ + 1], NEW s \in SeedRuns
          PROVE  runs'[s] <= MaxRuns[s]
        <3>1. runs'[s] = IF s = r THEN runs[r] + 1 ELSE runs[s]
            BY <2>1, RunNames DEF TypeOK
        <3>2. runs[r] \in Nat /\ MaxRuns[r] \in Nat /\ runs[s] <= MaxRuns[s]
            BY BoundAssumption DEF TypeOK, BoundInv
        <3> QED
            BY <2>1, <3>1, <3>2
    <2> QED
        BY <2>1, OneRun DEF BoundInv
<1> QED
    BY <1>1, <1>2 DEF BoundInv

\* While nothing is disturbed a step is one of the abstract mirror, and the cursors
\* stay behind the news.
LEMMA NextFeed ==
    ASSUME TypeOK, ShapeInv, DateInv, NewsAhead, [Next]_vars,
           TypeOK', DateInv', Undisturbed', CursorApplied', BoundInv'
    PROVE  NewsAhead' /\ Feed!Next
<1>u. faults'["upsert"] = 0 /\ MaxFaults["fetch"] \in Nat
    BY BoundAssumption DEF Undisturbed, FaultKinds
<1>r. ASSUME NewsKept, RowStep PROVE NewsAhead' /\ Feed!Next
    <2>1. UNCHANGED published
        BY <1>r DEF RowStep
    <2>2. NewsAhead'
        BY <1>r, <2>1, NewsStay
    <2>3. \E e \in Ecosystems, lot \in SUBSET Osv : Feed!GiveUp(e, lot)
        BY <1>r, <1>u, RowsFeed
    <2> QED
        BY <2>2, <2>3 DEF Feed!Next
<1>1. ASSUME NEW v \in Osv, Publish(v) PROVE NewsAhead' /\ Feed!Next
    BY <1>1, PublishNews, PublishesFeed DEF Feed!Next
<1>2. /\ \A r \in SeedRuns : ~StartSeedAll(r)
      /\ \A s \in Seeds : ~SeedStep(s)
    BY SeedsRest
<1>3. CASE DeltaUpsert
    <2>1. NewsKept /\ \E moved \in SUBSET Osv : Feed!Move(moved)
        BY <1>3, <1>u, DeltaUpsertNews
    <2>2. UNCHANGED published
        BY <1>3 DEF DeltaUpsert
    <2>3. NewsAhead'
        BY <2>1, <2>2, NewsStay
    <2> QED
        BY <2>1, <2>3 DEF Feed!Next
<1>4. CASE DeltaStep /\ ~DeltaUpsert
    <2>1. NewsKept /\ RowStep
        BY <1>4, DeltaBeginNews, DeltaFetchNews, DeltaEndNews DEF DeltaStep
    <2> QED
        BY <1>r, <2>1
<1>5. CASE MetricsStep
    BY <1>5, <1>r, MetricsNews
<1>6. CASE Crash \/ UNCHANGED vars
    <2>1. /\ UNCHANGED <<vulns, published, clock, state>>
          /\ job' = [j \in Jobs |-> Finished(j)] \/ UNCHANGED job
        BY <1>6 DEF Crash, vars, storeVars, jobVars
    <2>2. RowStep
        BY <2>1, EcosystemAssumption DEF RowStep
    <2>3. NewsKept
        <3>1. CASE UNCHANGED job
            BY <2>1, <3>1, SameNews
        <3>2. CASE job' = [j \in Jobs |-> Finished(j)]
            <4>1. \A j \in Jobs : job'[j].mem.cursor = 0 /\ job'[j].pc = "idle"
                BY <3>2, FinishedQuiet
            <4>2. Cursors' \subseteq Bounds
                BY <2>1, <4>1, HeldCursor DEF Cursors
            <4> QED
                BY <4>1, <4>2, JobsFacts DEF NewsKept
        <3> QED
            BY <2>1, <3>1, <3>2
    <2> QED
        BY <1>r, <2>2, <2>3
<1> QED
    BY <1>1, <1>2, <1>3, <1>4, <1>5, <1>6 DEF Next

\* With the delta loop alone, over any records, ecosystems, batches and bounds, and
\* through crashes and failed downloads, fetches, rebuilds and saves: each step of the
\* mirror is one that FeedMirror allows.  Every record moves only forward, to content
\* that was published, and those given up of an ecosystem are at most as many as the
\* fetches that may fail, and are taken up when they change.
THEOREM DeltaImplementsFeed ==
    ASSUME MaxFaults["upsert"] = 0, \A r \in SeedRuns : MaxRuns[r] = 0
    PROVE  Spec => Feed!Spec
<1> DEFINE Inv == CursorInv /\ BoundInv /\ FeedInv
<1>1. Init => Inv
    <2>1. Init => BoundInv
        BY BoundAssumption, RunNames DEF Init, BoundInv
    <2>2. Init => FeedInv
        BY JobsFacts, FinishedQuiet DEF Init, FeedInv, NewsAhead, At
    <2> QED
        BY <2>1, <2>2, InitCursor
<1>2. (TypeOK /\ BoundInv => Undisturbed) /\ (TypeOK' /\ BoundInv' => Undisturbed')
    BY RunNames DEF TypeOK, BoundInv, Undisturbed, FaultKinds
<1>3. ASSUME TypeOK, ShapeInv, Inv, CursorApplied', TypeOK', [Next]_vars
      PROVE  Inv' /\ Feed!Next
    <2>1. CursorInv'
        BY <1>3, NextCursor
    <2>2. BoundInv'
        BY <1>3, NextBound
    <2>3. Undisturbed /\ Undisturbed'
        BY <1>2, <1>3, <2>2
    <2>4. DateInv /\ DateInv' /\ NewsAhead
        BY <1>3, <2>1, <2>3 DEF CursorInv, FeedInv
    <2>5. NewsAhead' /\ Feed!Next
        BY <1>3, <2>2, <2>3, <2>4, NextFeed
    <2> QED
        BY <2>1, <2>2, <2>5 DEF FeedInv
<1>4. Init => Feed!Init
    <2> SUFFICES ASSUME Init PROVE Feed!Init
        OBVIOUS
    <2>1. \A v \in Osv : vulns[v].rev = 0 /\ published[v] = 1
        BY DEF Init, StoreInit, Absent
    <2>2. \A e \in Ecosystems : PassedOver(e) = {}
        BY EcosystemAssumption DEF Init, NoState, PassedOver
    <2> QED
        BY <2>1, <2>2 DEF Init, Feed!Init
<1>5. Inv /\ TypeOK /\ ShapeInv /\ IndexInv /\ TypeOK' /\ CursorApplied' /\ [Next]_vars
        => Inv' /\ [Feed!Next]_(Feed!vars)
    BY <1>3
<1> HIDE DEF Inv
<1> QED
    BY <1>1, <1>4, <1>5, IndexCorrect, CursorPassesNoMore, PTL DEF Spec, Feed!Spec
=============================================================================
