----------------------------- MODULE OsvSyncInv -----------------------------
(***************************************************************************)
(* The strengthenings of OsvSync's invariants that are inductive.           *)
(***************************************************************************)
EXTENDS OsvSync

\* The steps at which a job has no ids yet.
EarlyPcs == {"idle", "ready", "next", "get", "create", "mark", "download", "fetch"}

\* What job j holds, r, fits the step it is at.
Shape(j, r) ==
    /\ r.pc \in EarlyPcs \/ j = MetricsJob => r.vid = Nothing
    /\ \A v \in Osv : r.vid[v] # 0 => r.content[v] # 0
    /\ r.pc \in {"upsert", "index"} => j # MetricsJob /\ r.rest \subseteq Held(r)
    /\ j \in Seeds => r.eco = j[2]
    /\ r.pc \in {"idle", "next"} => r.mem = NoState

ShapeInv == \A j \in Jobs : Shape(j, job[j])

\* No id has been handed out twice.
IdsUsedOnce == ~RollbackFreesIds \/ faults["upsert"] = 0

\* Every id in a table or in memory is below the counter.
IdsBelowCounter ==
    /\ \A v \in Osv : vulns[v].id < nextId
    /\ \A r \in index : r.vid < nextId
    /\ \A j \in Jobs, v \in Osv : job[j].vid[v] < nextId

IdsDistinct ==
    \A v, w \in Osv : Stored(v) /\ vulns[v].id = vulns[w].id => v = w

\* A job that holds the id of a stored row holds the content of that row.
IdKnowsContent ==
    \A j \in Jobs, v, w \in Osv :
        Stored(w) /\ job[j].vid[v] = vulns[w].id
            => w = v /\ vulns[w].rev = job[j].content[v]

IndexInv ==
    IdsUsedOnce =>
        /\ IdsBelowCounter
        /\ IdsDistinct
        /\ IdKnowsContent
        /\ IndexDescribesRow

StoredSet == {v \in Osv : Stored(v)}

\* Row, the table's or a job's copy, claims nothing of e that stored does not meet.
TrueRow(row, e, stored) ==
    row.status = "synced" \/ row.full => row.full /\ Dir[e] \subseteq stored

\* Nor does what job j holds, r: at this step a seed has stored that much.
Honest(j, r, stored) ==
    /\ TrueRow(r.mem, r.eco, stored)
    /\ j \in Seeds =>
        /\ r.pc = "upsert" => Dir[j[2]] \subseteq stored \cup r.rest
        /\ r.pc \in {"index", "save"} => Dir[j[2]] \subseteq stored

SyncInv ==
    /\ \A v \in Osv : published[v] # 0
    /\ faults["parse"] = 0 =>
        /\ \A e \in Ecosystems : TrueRow(state[e], e, StoredSet)
        /\ \A j \in Jobs : Honest(j, job[j], StoredSet)

-----------------------------------------------------------------------------
(* The cursor of the delta loop *)

\* No seed has begun and no upsert has failed.
Undisturbed == faults["upsert"] = 0 /\ \A r \in SeedRuns : runs[r] = 0

\* What the delta holds, d, against what is published and stored: the csv is older
\* than what has changed since, content is not older than its entry, and a record
\* yet to be stored is not stored at a later date.
DeltaDates(d) ==
    /\ d.latest <= clock
    /\ \A v \in Osv :
        /\ d.csv[v] <= published[v] /\ d.content[v] <= published[v]
        /\ \A w \in Osv : published[v] <= d.csv[w] => d.csv[v] = published[v]
        /\ published[v] <= d.latest => d.csv[v] = published[v]
        /\ d.content[v] # 0 => d.csv[v] <= d.content[v]
        /\ d.content[v] # 0 /\ (d.pc = "fetch" \/ v \in d.rest) => vulns[v].rev <= d.content[v]
    /\ d.pc \in {"idle", "next", "get", "create"} => d.content = Nothing /\ d.latest = 0
    /\ d.pc \in {"index", "save"} => d.rest = {}

DateInv ==
    /\ \A v \in Osv : /\ 1 <= published[v] /\ published[v] <= clock
                      /\ vulns[v].rev <= published[v]
    /\ \A e \in Ecosystems : state[e].cursor <= clock
    /\ \A j \in Jobs : job[j].mem.cursor <= clock
    /\ \A s \in Seeds : At(s, "idle")
    /\ DeltaDates(job[DeltaJob])

\* The cursor that r has of e is past v.
PassedBy(r, e, v) == r.eco = e /\ published[v] <= r.mem.cursor

\* The delta, holding d, has left out the present content of v.
LeftOut(d, e, v) ==
    /\ d.eco = e /\ d.csv[v] = published[v] /\ d.csv[v] > d.mem.cursor /\ v \notin d.rest
    /\ (d.pc = "fetch" /\ d.content[v] = 0) \/ d.pc \in {"upsert", "index", "save"}

\* The present content of v has been, or may come to be, passed over in e.
Past(e, v) ==
    \/ published[v] <= state[e].cursor
    \/ \E j \in Jobs : PassedBy(job[j], e, v)
    \/ LeftOut(job[DeltaJob], e, v)

Missed(e) == {v \in Dir[e] : vulns[v].rev # published[v] /\ Past(e, v)}

CursorInv ==
    Undisturbed =>
        DateInv /\ \A e \in Ecosystems : Cardinality(Missed(e)) <= faults["fetch"]

-----------------------------------------------------------------------------
(* The delta loop as a FeedMirror *)

Cursors == {state[e].cursor : e \in Ecosystems} \cup {job[j].mem.cursor : j \in Jobs}

\* What has changed since the csv was read is dated after every cursor, the table's
\* and the jobs'.
NewsAhead ==
    At(DeltaJob, "idle") \/
        \A v \in Osv, c \in Cursors :
            job[DeltaJob].csv[v] = published[v] \/ c < published[v]

FeedInv == Undisturbed => NewsAhead

BoundInv == /\ \A k \in FaultKinds : faults[k] <= MaxFaults[k]
            /\ \A r \in SeedRuns : runs[r] <= MaxRuns[r]
=============================================================================
