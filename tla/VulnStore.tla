------------------------------ MODULE VulnStore ------------------------------
(***************************************************************************)
(* The tables of the vulnerability database that the OSV mirror writes and *)
(* the proxy reads (internal/vulndb/dal/store.go), with one action per     *)
(* transaction of the store.                                               *)
(*                                                                         *)
(* The content of a record is its revision: 0 is "no such record", and a   *)
(* positive number is the date at which osv.dev published that content.    *)
(* All the index rows one rebuild writes for one record are one element of *)
(* index: the code always deletes and inserts them together.               *)
(***************************************************************************)
EXTENDS Integers, FiniteSets, FiniteSetsExt, Functions

CONSTANTS
    Osv,                \* OSV identifiers
    RollbackFreesIds    \* does a rolled-back insert give its row ids back?
                        \* TRUE: SQLite, whose id counter is a table of the
                        \* same transaction; FALSE: a PostgreSQL sequence

ASSUME OsvAssumption == IsFiniteSet(Osv)
ASSUME RollbackAssumption == RollbackFreesIds \in BOOLEAN

VARIABLES
    vulns,      \* table vulnerabilities, by its unique column osv_id
    index,      \* table affected_package_index
    nextId      \* the id counter of table vulnerabilities

storeVars == <<vulns, index, nextId>>

Absent == [id |-> 0, rev |-> 0]
Row == [id : Nat, rev : Nat]
IndexRow == [vid : Nat, osv : Osv, rev : Nat]

StoreInit ==
    /\ vulns = [v \in Osv |-> Absent]
    /\ index = {}
    /\ nextId = 1

Stored(v) == vulns[v].id # 0

\* The ids GORM reads back for one CreateInBatches of the records of batch, and
\* the ids of records that were never inserted.
FreshIds(batch) ==
    Injection(batch, nextId .. (nextId + Cardinality(batch) - 1))
ZeroIds(batch) == [v \in batch |-> 0]

\* In-memory ids after the statement: those of batch are new, others kept.
Assign(vid, batch, ids) ==
    [v \in Osv |-> IF v \in batch THEN ids[v] ELSE vid[v]]

\* Mutant of UpsertBatch: a conflict on osv_id does nothing.
UpsertIgnoringConflicts(batch, content, ids) ==
    LET new == {v \in batch : ~Stored(v)}
    IN  /\ vulns' = [v \in Osv |-> IF v \in new THEN [id |-> ids[v], rev |-> content[v]]
                                                 ELSE vulns[v]]
        /\ nextId' = nextId + Cardinality(batch)
        /\ UNCHANGED index

(***************************************************************************)
(* One batch transaction of BulkUpsertVulnerabilities: the children of the *)
(* rows that exist, their index rows included, are deleted, then the rows, *)
(* and every record of the batch is created under a new id.                *)
(***************************************************************************)
UpsertBatch(batch, content, ids) ==
    /\ index' = {r \in index : \A v \in batch : Stored(v) => r.vid # vulns[v].id}
    /\ vulns' = [v \in Osv |-> IF v \in batch
                               THEN [id |-> ids[v], rev |-> content[v]]
                               ELSE vulns[v]]
    /\ nextId' = nextId + Cardinality(batch)

(***************************************************************************)
(* The same transaction rolled back.  The records in memory keep id 0 when *)
(* a statement before CreateInBatches failed, and the ids of the rows that *)
(* were rolled back when a later one did (an insert of child rows).        *)
(***************************************************************************)
RollBackBatch(batch, ids) ==
    /\ nextId' = IF RollbackFreesIds \/ ids = ZeroIds(batch)
                 THEN nextId
                 ELSE nextId + Cardinality(batch)
    /\ UNCHANGED <<vulns, index>>

\* Mutant of BulkRebuildPackageIndex: the id is looked up by osv_id.
RebuildByOsvID(batch, content, vid) ==
    /\ index' = {r \in index : \A v \in batch : r.vid # vulns[v].id}
                \cup {[vid |-> vulns[v].id, osv |-> v, rev |-> content[v]] : v \in batch}
    /\ UNCHANGED <<vulns, nextId>>

(***************************************************************************)
(* BulkRebuildPackageIndex: one transaction that deletes the index rows of *)
(* the ids the records have in memory and inserts rows for those ids.      *)
(* Nothing relates a row's vid to the table vulnerabilities.               *)
(***************************************************************************)
BulkRebuildPackageIndex(batch, content, vid) ==
    /\ index' = {r \in index : \A v \in batch : r.vid # vid[v]}
                \cup {[vid |-> vid[v], osv |-> v, rev |-> content[v]] : v \in batch}
    /\ UNCHANGED <<vulns, nextId>>
=============================================================================
