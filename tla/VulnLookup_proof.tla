-------------------------- MODULE VulnLookup_proof --------------------------
(***************************************************************************)
(* Proofs about VulnLookup: the loop over the events of a range computes   *)
(* the union of its intervals, a lookup reports nothing that no revision   *)
(* said, misses no record that is left alone while it runs, and names as   *)
(* the fix of a record one that the record names.                          *)
(***************************************************************************)
EXTENDS VulnLookup, FiniteSetTheorems, WellFoundedInduction, TLAPS

-----------------------------------------------------------------------------
(* Ranges *)

\* Under an order that parses everything, an event opens the range for a version
\* exactly when its interval starts at or below it.
LEMMA OpensIsStart ==
    ASSUME NEW c \in Comparers, NEW v \in Versions, NEW events \in Seq(Event),
           InOrder(c, v, events), NEW i \in DOMAIN events
    PROVE  Opens(c, v, events[i]) <=> StartsBelow(c, v, events[i])
<1>1. events[i] \in Event
    OBVIOUS
<1>2. CASE events[i].introduced \in {None, Zero}
    BY <1>2, NamesAssumption DEF Opens, StartsBelow
<1>3. CASE events[i].introduced \notin {None, Zero}
    <2>1. events[i].introduced \in Versions
        BY <1>1, <1>3 DEF Event
    <2>2. Rank[c][events[i].introduced] # 0 /\ Rank[c][v] # 0
        BY <1>3 DEF InOrder
    <2>3. Rank[c][events[i].introduced] \in Nat /\ Rank[c][v] \in Nat
        BY <2>1, RankAssumption
    <2> QED
        BY <1>3, <2>2, <2>3 DEF Opens, StartsBelow, Below
<1> QED
    BY <1>2, <1>3

\* It closes the range for a version exactly when one of its ends is at or below it.
LEMMA ClosesIsEnd ==
    ASSUME NEW c \in Comparers, NEW v \in Versions, NEW events \in Seq(Event),
           InOrder(c, v, events), NEW i \in DOMAIN events
    PROVE  Closes(c, v, events[i]) <=> ~(\A x \in Ends(c, events[i]) : Rank[c][v] < x)
<1> DEFINE e == events[i]
<1>1. e \in Event
    OBVIOUS
<1>2. ASSUME e.fixed # None
      PROVE  e.fixed \in Versions /\ Rank[c][e.fixed] # 0 /\ Rank[c][e.fixed] \in Nat
    <2>1. e.fixed \in Versions /\ e.fixed # Zero
        BY <1>1, <1>2, NamesAssumption DEF Event
    <2>2. Rank[c][e.fixed] # 0
        BY <1>2, <2>1 DEF InOrder
    <2> QED
        BY <2>1, <2>2, RankAssumption
<1>3. ASSUME e.lastAffected # None
      PROVE  /\ e.lastAffected \in Versions /\ Rank[c][e.lastAffected] # 0
             /\ Rank[c][e.lastAffected] \in Nat
    <2>1. e.lastAffected \in Versions /\ e.lastAffected # Zero
        BY <1>1, <1>3, NamesAssumption DEF Event
    <2>2. Rank[c][e.lastAffected] # 0
        BY <1>3, <2>1 DEF InOrder
    <2> QED
        BY <2>1, <2>2, RankAssumption
<1>4. Rank[c][v] # 0 /\ Rank[c][v] \in Nat
    BY RankAssumption DEF InOrder
<1>5. (e.fixed # None /\ ~Below(c, v, e.fixed))
        <=> \E x \in {Rank[c][y] : y \in {e.fixed} \ {None}} : ~(Rank[c][v] < x)
    BY <1>2, <1>4 DEF Below
<1>6. (e.lastAffected # None /\ Below(c, e.lastAffected, v))
        <=> \E x \in {Rank[c][y] + 1 : y \in {e.lastAffected} \ {None}} : ~(Rank[c][v] < x)
    BY <1>3, <1>4 DEF Below
<1> QED
    BY <1>5, <1>6 DEF Closes, Ends

(***************************************************************************)
(* One more event: it may start an interval, and it ends every interval    *)
(* unless the version is below all its ends.                               *)
(***************************************************************************)
LEMMA OneMoreEvent ==
    ASSUME NEW c \in Comparers, NEW v \in Versions, NEW events \in Seq(Event),
           InOrder(c, v, events), NEW n \in Nat, n + 1 <= Len(events)
    PROVE  InRange(c, v, events, n + 1)
             <=> /\ InRange(c, v, events, n) \/ StartsBelow(c, v, events[n + 1])
                 /\ \A x \in Ends(c, events[n + 1]) : Rank[c][v] < x
<1> DEFINE E(i) == Ends(c, events[i])
           S(i) == StartsBelow(c, v, events[i])
           r == Rank[c][v]
           Under(i) == \A x \in E(i) : r < x
           First(i, j) == (\A k \in i .. (j - 1) : E(k) = {}) /\ E(j) # {} /\ Under(j)
           In(m) == \E i \in 1 .. m : S(i) /\ ((\A j \in i .. m : E(j) = {}) \/
                                               (\E j \in i .. m : First(i, j)))
<1>0. InRange(c, v, events, n) = In(n) /\ InRange(c, v, events, n + 1) = In(n + 1)
    BY DEF InRange
<1>1. r \in Nat /\ \A i \in 1 .. (n + 1) : E(i) \subseteq Nat
    <2>1. r \in Nat
        BY RankAssumption
    <2>2. ASSUME NEW i \in 1 .. (n + 1) PROVE E(i) \subseteq Nat
        <3>1. events[i] \in Event
            OBVIOUS
        <3> QED
            BY <3>1, RankAssumption DEF Ends, Event
    <2> QED
        BY <2>1, <2>2
<1>2. \A i \in 1 .. n : \A x \in E(i), y \in E(n + 1) : x <= y
    BY DEF InOrder
<1> HIDE DEF E, S, r
<1>3. ASSUME In(n + 1) PROVE Under(n + 1) /\ (In(n) \/ S(n + 1))
    <2>1. PICK i \in 1 .. (n + 1) : S(i) /\ ((\A j \in i .. (n + 1) : E(j) = {}) \/
                                             (\E j \in i .. (n + 1) : First(i, j)))
        BY <1>3
    <2>2. CASE \A j \in i .. (n + 1) : E(j) = {}
        <3>1. E(n + 1) = {}
            BY <2>2
        <3>2. i = n + 1 \/ i \in 1 .. n
            OBVIOUS
        <3> QED
            BY <2>1, <2>2, <3>1, <3>2
    <2>3. ASSUME NEW j \in i .. (n + 1), First(i, j) PROVE Under(n + 1) /\ (In(n) \/ S(n + 1))
        <3>1. CASE j = n + 1
            <4>1. CASE i = n + 1
                BY <2>1, <2>3, <3>1, <4>1
            <4>2. CASE i # n + 1
                <5>1. i \in 1 .. n /\ \A k \in i .. n : E(k) = {}
                    BY <2>3, <3>1, <4>2
                <5> QED
                    BY <2>1, <2>3, <3>1, <5>1
            <4> QED
                BY <4>1, <4>2
        <3>2. CASE j # n + 1
            <4>1. i \in 1 .. n /\ j \in i .. n
                BY <3>2
            <4>2. In(n)
                BY <2>1, <2>3, <4>1
            <4>3. Under(n + 1)
                <5>1. PICK x \in E(j) : r < x
                    BY <2>3
                <5>2. \A y \in E(n + 1) : x <= y /\ y \in Nat
                    BY <1>1, <1>2, <4>1
                <5> QED
                    BY <1>1, <4>1, <5>1, <5>2
            <4> QED
                BY <4>2, <4>3
        <3> QED
            BY <3>1, <3>2
    <2> QED
        BY <2>1, <2>2, <2>3
<1>4. ASSUME Under(n + 1), In(n) PROVE In(n + 1)
    <2>1. PICK i \in 1 .. n : S(i) /\ ((\A j \in i .. n : E(j) = {}) \/
                                       (\E j \in i .. n : First(i, j)))
        BY <1>4
    <2>2. i \in 1 .. (n + 1)
        OBVIOUS
    <2>3. CASE \E j \in i .. n : First(i, j)
        <3>1. PICK j \in i .. n : First(i, j)
            BY <2>3
        <3>2. j \in i .. (n + 1)
            OBVIOUS
        <3> QED
            BY <2>1, <2>2, <3>1, <3>2
    <2>4. CASE \A j \in i .. n : E(j) = {}
        <3>1. CASE E(n + 1) = {}
            <4>1. \A j \in i .. (n + 1) : E(j) = {}
                BY <2>4, <3>1
            <4> QED
                BY <2>1, <2>2, <4>1
        <3>2. CASE E(n + 1) # {}
            <4>1. First(i, n + 1) /\ n + 1 \in i .. (n + 1)
                BY <1>4, <2>4, <3>2
            <4> QED
                BY <2>1, <2>2, <4>1
        <3> QED
            BY <3>1, <3>2
    <2> QED
        BY <2>1, <2>3, <2>4
<1>5. ASSUME Under(n + 1), S(n + 1) PROVE In(n + 1)
    <2>1. n + 1 \in 1 .. (n + 1) /\ n + 1 \in (n + 1) .. (n + 1)
        OBVIOUS
    <2>2. CASE E(n + 1) = {}
        <3>1. \A j \in (n + 1) .. (n + 1) : E(j) = {}
            BY <2>2
        <3> QED
            BY <1>5, <2>1, <3>1
    <2>3. CASE E(n + 1) # {}
        <3>1. First(n + 1, n + 1)
            BY <1>5, <2>3
        <3> QED
            BY <1>5, <2>1, <3>1
    <2> QED
        BY <2>2, <2>3
<1> QED
    BY <1>0, <1>3, <1>4, <1>5 DEF E, S, r

\* No event, no interval.
LEMMA NoEvent == \A c, v, events : ~InRange(c, v, events, 0)
BY DEF InRange

-----------------------------------------------------------------------------
(* Index rows *)

AffOf(row) == Content[row.osv][row.rev].affected[row.aff]

LEMMA PlaceIsNat ==
    ASSUME NEW S, NEW s \in Seq(S), NEW n \in DOMAIN s
    PROVE  n \in Nat
OBVIOUS

LEMMA ContentType ==
    ASSUME NEW o \in Osv, NEW r \in DOMAIN Content[o]
    PROVE  /\ Content[o] \in Seq(Vulnerability) /\ r \in Nat
           /\ Content[o][r] \in Vulnerability
           /\ Content[o][r].affected \in Seq(Affected)
           /\ \A eco : Entries(o, r, eco) \subseteq Nat
           /\ \A eco : \A a \in Entries(o, r, eco) :
                /\ Content[o][r].affected[a] \in Affected
                /\ Content[o][r].affected[a].ranges \in Seq(AffectedRange)
<1>1. Content[o] \in Seq(Vulnerability) /\ r \in 1 .. Len(Content[o])
    BY ContentAssumption
<1>2. Content[o][r] \in Vulnerability
    BY <1>1
<1>3. Content[o][r].affected \in Seq(Affected)
    BY <1>2 DEF Vulnerability
<1>4. \A eco : Entries(o, r, eco) \subseteq 1 .. Len(Content[o][r].affected)
    BY <1>3 DEF Entries
<1>5. \A eco : \A a \in Entries(o, r, eco) : Content[o][r].affected[a] \in Affected
    BY <1>3, <1>4
<1>6. \A eco : \A a \in Entries(o, r, eco) : Content[o][r].affected[a].ranges \in Seq(AffectedRange)
    BY <1>5 DEF Affected
<1> QED
    BY <1>1, <1>2, <1>3, <1>4, <1>5, <1>6

\* The rows the two queries return, spelled out.
LEMMA ExactRowIs ==
    ASSUME NEW ix, NEW q, NEW row
    PROVE  row \in ExactRows(ix, q) <=>
             \E x \in ix : \E a \in Entries(x.osv, x.rev, q.eco) :
                /\ Names(q, Content[x.osv][x.rev].affected[a])
                /\ row = [osv |-> x.osv, rev |-> x.rev, aff |-> a, rng |-> 0]
BY DEF ExactRows

LEMMA RangeRowIs ==
    ASSUME NEW ix, NEW q, NEW row
    PROVE  row \in RangeRows(ix, q) <=>
             \E x \in ix : \E a \in Entries(x.osv, x.rev, q.eco) :
               \E n \in DOMAIN Content[x.osv][x.rev].affected[a].ranges :
                 row = [osv |-> x.osv, rev |-> x.rev, aff |-> a, rng |-> n]
BY DEF RangeRows

-----------------------------------------------------------------------------
(***************************************************************************)
(* The invariant.  Every row a lookup holds is from a row that was in the  *)
(* index since it began; exact rows name the version, rows that matched    *)
(* are of entries that affect it, and in the loop introduced says what the *)
(* events walked so far mean.  A row of a record left alone is still to be *)
(* looked at, unless its record was matched or the row does not match.     *)
(***************************************************************************)
RowOK(row, q, seen) ==
    /\ row \in IndexRows
    /\ \E x \in seen : x.osv = row.osv /\ x.rev = row.rev
    /\ row.rev \in DOMAIN Content[row.osv]
    /\ row.aff \in Entries(row.osv, row.rev, q.eco)

ExactOK(row, q, seen) ==
    RowOK(row, q, seen) /\ row.rng = 0 /\ Names(q, AffOf(row))

RangeOK(row, q, seen) ==
    RowOK(row, q, seen) /\ row.rng \in DOMAIN AffOf(row).ranges /\ q.version \in Versions

MatchOK(row, q, seen) ==
    RowOK(row, q, seen) /\ (EntryWellFormed(q, AffOf(row)) => EntryAffects(q, AffOf(row)))

LoopOK(row, q, pos, introduced) ==
    LET c == ComparerFor(RangeOf(row).type, q.eco)
        v == q.version
        events == RangeOf(row).events
    IN  /\ RangeOf(row).type # "GIT"
        /\ pos \in 1 .. (Len(events) + 1)
        /\ InOrder(c, v, events) => introduced = InRange(c, v, events, pos - 1)

RowsInv(l, seen) ==
    /\ l.pc # "idle" => l.query \in Query
    /\ l.pc \in {"exact", "ranges"} => l.query.version \in Versions
    /\ l.pc = "all" => l.query.version = None
    /\ \A row \in l.exact : ExactOK(row, l.query, seen)
    /\ \A row \in l.ranges : RangeOK(row, l.query, seen)
    /\ \A row \in l.matched : MatchOK(row, l.query, seen)
    /\ l.pc = "events" => /\ RangeOK(l.row, l.query, seen)
                          /\ LoopOK(l.row, l.query, l.pos, l.introduced)

SeenBy(l) == {row.osv : row \in l.matched}

Clear(q, row) == q.version # None /\ WellFormed(q, RangeOf(row)) /\ RangeAffects(q, RangeOf(row))

FoundInv(l, ix, untouched) ==
    /\ l.pc \in {"details", "done"} => l.exact = {} /\ l.ranges = {}
    /\ \A x \in ix : x.osv \in untouched =>
         /\ l.pc \in {"ranges", "rows", "events", "details", "done"} =>
              \A row \in ExactRows({x}, l.query) : row \in l.exact \/ x.osv \in SeenBy(l)
         /\ l.pc \in {"rows", "events", "details", "done"} =>
              \A row \in RangeRows({x}, l.query) :
                 \/ row \in l.ranges \/ x.osv \in SeenBy(l)
                 \/ l.pc = "events" /\ row = l.row
                 \/ ~Clear(l.query, row)

LookupInv ==
    /\ TypeOK /\ index \subseteq indexed
    /\ RowsInv(lookup, indexed) /\ FoundInv(lookup, index, quiet)

-----------------------------------------------------------------------------
(* Type correctness *)

LEMMA InitTypes == Init => TypeOK
<1> SUFFICES ASSUME Init PROVE TypeOK
    OBVIOUS
<1>1. vulns \in [Osv -> Row] /\ index = {} /\ nextId \in Nat
    BY DEF Init, StoreInit, Absent, Row
<1>2. job = NoJob /\ job \in [osv : Osv \cup {None}, rev : Nat, id : Nat]
    BY DEF Init, NoJob
<1>3. lookup \in Lookup
    BY DEF Init, Lookup
<1> QED
    BY <1>1, <1>2, <1>3 DEF Init, TypeOK

-----------------------------------------------------------------------------
(* Steps of the sync *)

\* A transaction on one record: no row of another record appears in the index.
LEMMA TransactionStep ==
    ASSUME LookupInv, TypeOK', UNCHANGED lookup, NEW o \in Osv, Touch(o),
           \A x \in index' : x.osv # o => x \in index
    PROVE  LookupInv'
<1>1. \A row, q : RowOK(row, q, indexed) => RowOK(row, q, indexed')
    BY DEF RowOK, Touch
<1>2. RowsInv(lookup, indexed')
    BY <1>1 DEF LookupInv, RowsInv, ExactOK, RangeOK, MatchOK
<1>3. \A x \in index' : x.osv \in quiet' => x \in index /\ x.osv \in quiet
    BY DEF Touch
<1>4. FoundInv(lookup, index', quiet')
    BY <1>3 DEF LookupInv, FoundInv
<1> QED
    BY <1>2, <1>4 DEF LookupInv, Touch

LEMMA UpsertStep ==
    ASSUME LookupInv, NEW o \in Osv, Upsert(o)
    PROVE  LookupInv'
<1>1. PICK r \in DOMAIN Content[o] :
        /\ UpsertBatch({o}, [x \in {o} |-> r], [x \in {o} |-> nextId])
        /\ job' = [osv |-> o, rev |-> r, id |-> nextId]
    BY DEF Upsert
<1>2. r \in Nat
    BY ContentType
<1>3. Cardinality({o}) = 1
    BY FS_Singleton
<1>4. /\ vulns' = [v \in Osv |-> IF v \in {o} THEN [id |-> nextId, rev |-> r] ELSE vulns[v]]
      /\ nextId' = nextId + 1
      /\ index' \subseteq index
    BY <1>1, <1>3 DEF UpsertBatch
<1>5. nextId \in Nat /\ vulns \in [Osv -> Row]
    BY DEF LookupInv, TypeOK
<1>6. vulns' \in [Osv -> Row] /\ nextId' \in Nat
    BY <1>2, <1>4, <1>5 DEF Row
<1>7. /\ job' \in [osv : Osv \cup {None}, rev : Nat, id : Nat]
      /\ job'.osv \in Osv /\ job'.rev \in DOMAIN Content[job'.osv]
    BY <1>1, <1>2, <1>5
<1>8. TypeOK'
    BY <1>4, <1>6, <1>7 DEF LookupInv, TypeOK, Upsert, Touch
<1> QED
    BY <1>4, <1>8, TransactionStep DEF Upsert

LEMMA RebuildStep ==
    ASSUME LookupInv, NEW o \in Osv, Rebuild(o)
    PROVE  LookupInv'
<1> DEFINE row == [vid |-> job.id, osv |-> o, rev |-> job.rev]
<1>1. job # NoJob /\ job.osv = o
    BY NamesAssumption DEF Rebuild, NoJob
<1>2. job.rev \in DOMAIN Content[o] /\ job.rev \in Nat /\ job.id \in Nat
    BY <1>1 DEF LookupInv, TypeOK
<1>3. index' \subseteq index \cup {row} /\ UNCHANGED <<vulns, nextId>>
    BY DEF Rebuild, BulkRebuildPackageIndex
<1>4. row \in IndexRow /\ row.osv = o /\ row.rev = job.rev
    BY <1>2 DEF IndexRow
<1>5. job' = NoJob /\ NoJob \in [osv : Osv \cup {None}, rev : Nat, id : Nat]
    BY DEF Rebuild, NoJob
<1>6. \A x \in index' : x \in IndexRow /\ x.rev \in DOMAIN Content[x.osv]
    BY <1>2, <1>3, <1>4 DEF LookupInv, TypeOK
<1>7. TypeOK'
    BY <1>3, <1>5, <1>6 DEF LookupInv, TypeOK, Rebuild, Touch
<1> QED
    BY <1>3, <1>4, <1>7, TransactionStep DEF Rebuild

LEMMA RebuildFailsStep == LookupInv /\ RebuildFails => LookupInv'
<1> SUFFICES ASSUME LookupInv, RebuildFails PROVE LookupInv'
    OBVIOUS
<1>1. job' = NoJob /\ NoJob \in [osv : Osv \cup {None}, rev : Nat, id : Nat]
    BY DEF RebuildFails, NoJob
<1>2. TypeOK'
    BY <1>1 DEF LookupInv, TypeOK, RebuildFails, storeVars
<1> QED
    BY <1>2 DEF LookupInv, RebuildFails, storeVars

-----------------------------------------------------------------------------
(* Steps of the lookup *)

LEMMA LocalStep ==
    ASSUME LookupInv, Local, faults' \in Nat, lookup' \in Lookup,
           RowsInv(lookup', indexed), FoundInv(lookup', index, quiet)
    PROVE  LookupInv'
BY DEF LookupInv, TypeOK, Local, storeVars

LEMMA StartStep ==
    ASSUME LookupInv, NEW c \in Callers, NEW e \in Lookups, NEW v \in Versions \cup {None},
           Start(c, e, v)
    PROVE  LookupInv'
<1> DEFINE q == [eco |-> OsvName(c, e), version |-> v]
<1>0. q \in Query /\ e \in Ecosystems /\ c \in {"policy", "endpoint"}
    BY LookupsAssumption DEF Query
<1>1. /\ lookup'.pc = (IF v = None THEN "all" ELSE "exact") /\ lookup'.query = q
      /\ lookup'.exact = {} /\ lookup'.ranges = {} /\ lookup'.matched = {}
    BY DEF Start
<1>2. lookup' \in Lookup
    BY <1>0 DEF Start, Lookup
<1>3. RowsInv(lookup', index)
    BY <1>0, <1>1 DEF RowsInv
<1>4. FoundInv(lookup', index, Osv)
    BY <1>1 DEF FoundInv
<1>5. TypeOK'
    BY <1>2 DEF LookupInv, TypeOK, Start, storeVars
<1> QED
    BY <1>3, <1>4, <1>5 DEF LookupInv, Start, storeVars

\* A row of the index, of the package, is one of the rows a lookup may hold.
LEMMA RowFromIndex ==
    ASSUME LookupInv, NEW q, NEW x \in index, NEW a \in Entries(x.osv, x.rev, q.eco), NEW n \in Nat
    PROVE  RowOK([osv |-> x.osv, rev |-> x.rev, aff |-> a, rng |-> n], q, indexed)
<1>1. x.osv \in Osv /\ x.rev \in Nat /\ x.rev \in DOMAIN Content[x.osv]
    BY DEF LookupInv, TypeOK, IndexRow
<1>2. a \in Nat
    BY <1>1, ContentType
<1> QED
    BY <1>1, <1>2 DEF LookupInv, RowOK, IndexRows

\* The rows of the first read, of either caller.
LEMMA ExactRowsOK ==
    ASSUME LookupInv, NEW q
    PROVE  /\ \A row \in ExactRows(index, q) : ExactOK(row, q, indexed)
           /\ ExactRows(index, q) \subseteq IndexRows
           /\ \A x \in index : \A row \in ExactRows({x}, q) : row \in ExactRows(index, q)
<1> DEFINE rows == ExactRows(index, q)
<1>1. \A row \in rows : ExactOK(row, q, indexed)
    <2> SUFFICES ASSUME NEW row \in rows PROVE ExactOK(row, q, indexed)
        OBVIOUS
    <2>1. PICK x \in index : \E a \in Entries(x.osv, x.rev, q.eco) :
                /\ Names(q, Content[x.osv][x.rev].affected[a])
                /\ row = [osv |-> x.osv, rev |-> x.rev, aff |-> a, rng |-> 0]
        BY ExactRowIs
    <2>2. PICK a \in Entries(x.osv, x.rev, q.eco) :
                /\ Names(q, Content[x.osv][x.rev].affected[a])
                /\ row = [osv |-> x.osv, rev |-> x.rev, aff |-> a, rng |-> 0]
        BY <2>1
    <2>3. RowOK(row, q, indexed)
        BY <2>2, RowFromIndex
    <2> QED
        BY <2>2, <2>3 DEF ExactOK, AffOf
<1>2. rows \subseteq IndexRows
    BY <1>1 DEF ExactOK, RowOK
<1>3. \A x \in index : \A row \in ExactRows({x}, q) : row \in rows
    BY ExactRowIs
<1> QED
    BY <1>1, <1>2, <1>3

LEMMA ReadAllStep ==
    ASSUME LookupInv, ReadAll
    PROVE  LookupInv'
<1> DEFINE q == lookup.query
           rows == ExactRows(index, q)
<1>0. lookup \in Lookup /\ q \in Query /\ lookup.pc = "all"
    BY DEF LookupInv, TypeOK, RowsInv, ReadAll
<1>1. /\ \A row \in rows : ExactOK(row, q, indexed)
      /\ rows \subseteq IndexRows
      /\ \A x \in index : \A row \in ExactRows({x}, q) : row \in rows
    BY ExactRowsOK
<1>2. /\ lookup'.pc = "rows" /\ lookup'.query = q /\ lookup'.exact = rows
      /\ lookup'.ranges = lookup.ranges /\ lookup'.matched = lookup.matched
    BY <1>0 DEF ReadAll, Lookup
<1>3. lookup' \in Lookup
    BY <1>0, <1>1 DEF ReadAll, Lookup
<1>4. q.version = None
    BY <1>0 DEF LookupInv, RowsInv
<1>5. RowsInv(lookup', indexed)
    BY <1>0, <1>1, <1>2 DEF LookupInv, RowsInv
<1>6. FoundInv(lookup', index, quiet)
    BY <1>1, <1>2, <1>4 DEF FoundInv, Clear
<1> QED
    BY <1>3, <1>5, <1>6, LocalStep DEF ReadAll, LookupInv, TypeOK

LEMMA ReadExactStep ==
    ASSUME LookupInv, ReadExact
    PROVE  LookupInv'
<1> DEFINE q == lookup.query
           rows == ExactRows(index, q)
<1>0. lookup \in Lookup /\ q \in Query /\ lookup.pc = "exact" /\ q.version \in Versions
    BY DEF LookupInv, TypeOK, RowsInv, ReadExact
<1>1. /\ \A row \in rows : ExactOK(row, q, indexed)
      /\ rows \subseteq IndexRows
      /\ \A x \in index : \A row \in ExactRows({x}, q) : row \in rows
    BY ExactRowsOK
<1>2. /\ lookup'.pc = "ranges" /\ lookup'.query = q /\ lookup'.exact = rows
      /\ lookup'.ranges = lookup.ranges /\ lookup'.matched = lookup.matched
    BY <1>0 DEF ReadExact, Lookup
<1>3. lookup' \in Lookup
    BY <1>0, <1>1 DEF ReadExact, Lookup
<1>4. RowsInv(lookup', indexed)
    BY <1>0, <1>1, <1>2 DEF LookupInv, RowsInv
<1>5. FoundInv(lookup', index, quiet)
    BY <1>1, <1>2 DEF FoundInv
<1> QED
    BY <1>3, <1>4, <1>5, LocalStep DEF ReadExact, LookupInv, TypeOK

LEMMA ReadRangesStep ==
    ASSUME LookupInv, ReadRanges
    PROVE  LookupInv'
<1> DEFINE q == lookup.query
           rows == RangeRows(index, q)
<1>0. lookup \in Lookup /\ lookup.pc = "ranges" /\ q.version \in Versions
    BY DEF LookupInv, TypeOK, RowsInv, ReadRanges
<1>1. \A row \in rows : RangeOK(row, q, indexed)
    <2> SUFFICES ASSUME NEW row \in rows PROVE RangeOK(row, q, indexed)
        OBVIOUS
    <2>1. PICK x \in index : \E a \in Entries(x.osv, x.rev, q.eco) :
             \E n \in DOMAIN Content[x.osv][x.rev].affected[a].ranges :
               row = [osv |-> x.osv, rev |-> x.rev, aff |-> a, rng |-> n]
        BY RangeRowIs
    <2>2. PICK a \in Entries(x.osv, x.rev, q.eco) :
             \E n \in DOMAIN Content[x.osv][x.rev].affected[a].ranges :
               row = [osv |-> x.osv, rev |-> x.rev, aff |-> a, rng |-> n]
        BY <2>1
    <2>3. PICK n \in DOMAIN Content[x.osv][x.rev].affected[a].ranges :
               row = [osv |-> x.osv, rev |-> x.rev, aff |-> a, rng |-> n]
        BY <2>2
    <2>4. x.osv \in Osv /\ x.rev \in DOMAIN Content[x.osv]
        BY DEF LookupInv, TypeOK, IndexRow
    <2>5. Content[x.osv][x.rev].affected[a].ranges \in Seq(AffectedRange)
        BY <2>4, ContentType
    <2>6. n \in Nat
        BY <2>5, PlaceIsNat
    <2>7. RowOK(row, q, indexed)
        BY <2>3, <2>6, RowFromIndex
    <2> QED
        BY <1>0, <2>3, <2>7 DEF RangeOK, AffOf
<1>2. /\ lookup'.pc = "rows" /\ lookup'.query = lookup.query
      /\ lookup'.exact = lookup.exact /\ lookup'.ranges = rows
      /\ lookup'.matched = lookup.matched
    BY <1>0 DEF ReadRanges, Lookup
<1>3. rows \subseteq IndexRows
    BY <1>1 DEF RangeOK, RowOK
<1>4. lookup' \in Lookup
    BY <1>0, <1>3 DEF ReadRanges, Lookup
<1>5. RowsInv(lookup', indexed)
    BY <1>0, <1>1, <1>2 DEF LookupInv, RowsInv
<1>6. \A x \in index : \A row \in RangeRows({x}, q) : row \in rows
    BY RangeRowIs
<1>7. FoundInv(lookup', index, quiet)
    BY <1>0, <1>2, <1>6 DEF LookupInv, FoundInv, SeenBy
<1> QED
    BY <1>4, <1>5, <1>7, LocalStep DEF ReadRanges, LookupInv, TypeOK

LEMMA ReadFailsStep ==
    ASSUME LookupInv, ReadFails
    PROVE  LookupInv'
<1>0. lookup \in Lookup /\ lookup.pc \in {"all", "exact", "ranges"}
    BY DEF LookupInv, TypeOK, ReadFails
<1>1. /\ lookup'.pc = "failed" /\ lookup'.query = lookup.query /\ lookup'.exact = {}
      /\ lookup'.ranges = lookup.ranges /\ lookup'.matched = lookup.matched
    BY <1>0 DEF ReadFails, Lookup
<1>2. lookup' \in Lookup
    BY <1>0 DEF ReadFails, Lookup
<1>3. RowsInv(lookup', indexed)
    BY <1>0, <1>1 DEF LookupInv, RowsInv
<1>4. FoundInv(lookup', index, quiet)
    BY <1>1 DEF FoundInv
<1> QED
    BY <1>2, <1>3, <1>4, LocalStep DEF ReadFails, LookupInv, TypeOK

LEMMA ExactRowStep ==
    ASSUME LookupInv, ExactRow
    PROVE  LookupInv'
<1>0. lookup \in Lookup /\ lookup.pc = "rows"
    BY DEF LookupInv, TypeOK, ExactRow
<1>1. PICK row \in lookup.exact :
         lookup' = [lookup EXCEPT !.exact = @ \ {row},
                                  !.matched = IF row.osv \in Seen THEN @ ELSE @ \cup {row}]
    BY DEF ExactRow
<1>2. /\ lookup'.pc = "rows" /\ lookup'.query = lookup.query
      /\ lookup'.exact = lookup.exact \ {row} /\ lookup'.ranges = lookup.ranges
      /\ lookup'.matched = IF row.osv \in Seen THEN lookup.matched ELSE lookup.matched \cup {row}
    BY <1>0, <1>1 DEF Lookup
<1>3. row \in IndexRows /\ ExactOK(row, lookup.query, indexed)
    BY <1>0 DEF Lookup, LookupInv, RowsInv
<1>4. lookup' \in Lookup
    BY <1>0, <1>1, <1>3 DEF Lookup
<1>5. MatchOK(row, lookup.query, indexed)
    BY <1>3 DEF ExactOK, MatchOK, EntryAffects
<1>6. RowsInv(lookup', indexed)
    BY <1>0, <1>2, <1>5 DEF LookupInv, RowsInv
<1>7. SeenBy(lookup') = SeenBy(lookup) \cup {row.osv}
    BY <1>2 DEF SeenBy, Seen
<1>8. \A x : row \in ExactRows({x}, lookup.query) => row.osv = x.osv
    BY ExactRowIs
<1>9. FoundInv(lookup', index, quiet)
    BY <1>0, <1>2, <1>7, <1>8 DEF LookupInv, FoundInv
<1> QED
    BY <1>4, <1>6, <1>9, LocalStep DEF ExactRow, LookupInv, TypeOK

\* The range of a row that has one, and the events of a range that has an order.
LEMMA RangeType ==
    ASSUME LookupInv, NEW q, NEW row, RangeOK(row, q, indexed)
    PROVE  /\ row \in IndexRows
           /\ RangeOf(row) \in AffectedRange
           /\ RangeOf(row).events \in Seq(Event)
           /\ ComparerFor(RangeOf(row).type, q.eco) \in Comparers
<1>1. row \in IndexRows /\ row.osv \in Osv /\ row.rev \in DOMAIN Content[row.osv]
    BY DEF RangeOK, RowOK, IndexRows
<1>2. AffOf(row).ranges \in Seq(AffectedRange)
    BY <1>1, ContentType DEF RangeOK, RowOK, AffOf
<1>3. RangeOf(row) = AffOf(row).ranges[row.rng]
    BY DEF RangeOf, AffOf
<1>4. RangeOf(row) \in AffectedRange
    BY <1>2, <1>3 DEF RangeOK
<1> QED
    BY <1>1, <1>4 DEF AffectedRange, ComparerFor, Comparers

LEMMA RangeRowStep ==
    ASSUME LookupInv, RangeRow
    PROVE  LookupInv'
<1> DEFINE q == lookup.query
<1>0. lookup \in Lookup /\ lookup.pc = "rows" /\ lookup.exact = {} /\ q \in Query
    BY DEF LookupInv, TypeOK, RowsInv, RangeRow
<1>1. PICK row \in lookup.ranges :
         lookup' = IF row.osv \in Seen \/ RangeOf(row).type = "GIT"
                   THEN [lookup EXCEPT !.ranges = @ \ {row}]
                   ELSE [lookup EXCEPT !.pc = "events", !.ranges = @ \ {row},
                                       !.row = row, !.pos = 1, !.introduced = FALSE]
    BY DEF RangeRow
<1>2. RangeOK(row, q, indexed)
    BY <1>0 DEF LookupInv, RowsInv
<1>3. row \in IndexRows /\ RangeOf(row).events \in Seq(Event)
    BY <1>2, RangeType
<1>4. /\ lookup'.query = q /\ lookup'.exact = {} /\ lookup'.ranges = lookup.ranges \ {row}
      /\ lookup'.matched = lookup.matched
    BY <1>0, <1>1 DEF Lookup
<1>5. lookup' \in Lookup
    BY <1>0, <1>1, <1>3 DEF Lookup
<1>6. SeenBy(lookup') = SeenBy(lookup) /\ Seen = SeenBy(lookup)
    BY <1>4 DEF SeenBy, Seen
<1>7. \A x : row \in RangeRows({x}, q) => row.osv = x.osv
    BY RangeRowIs
<1>8. CASE row.osv \in Seen \/ RangeOf(row).type = "GIT"
    <2>1. lookup'.pc = "rows"
        BY <1>0, <1>1, <1>8 DEF Lookup
    <2>2. RowsInv(lookup', indexed)
        BY <1>0, <1>4, <2>1 DEF LookupInv, RowsInv
    <2>3. ~(row.osv \in SeenBy(lookup)) => ~Clear(q, row)
        BY <1>6, <1>8 DEF Clear, RangeAffects
    <2>4. FoundInv(lookup', index, quiet)
        BY <1>0, <1>4, <1>6, <1>7, <2>1, <2>3 DEF LookupInv, FoundInv
    <2> QED
        BY <1>5, <2>2, <2>4, LocalStep DEF RangeRow, LookupInv, TypeOK
<1>9. CASE ~(row.osv \in Seen \/ RangeOf(row).type = "GIT")
    <2>1. /\ lookup'.pc = "events" /\ lookup'.row = row /\ lookup'.pos = 1
          /\ lookup'.introduced = FALSE
        BY <1>0, <1>1, <1>9 DEF Lookup
    <2>2. Len(RangeOf(row).events) \in Nat
        BY <1>3
    <2>3. 1 \in 1 .. (Len(RangeOf(row).events) + 1) /\ 1 - 1 = 0
        BY <2>2
    <2>4. LoopOK(row, q, 1, FALSE)
        BY <1>9, <2>3, NoEvent DEF LoopOK
    <2>5. RowsInv(lookup', indexed)
        BY <1>0, <1>2, <1>4, <2>1, <2>4 DEF LookupInv, RowsInv
    <2>6. FoundInv(lookup', index, quiet)
        BY <1>0, <1>4, <1>6, <2>1 DEF LookupInv, FoundInv
    <2> QED
        BY <1>5, <2>5, <2>6, LocalStep DEF RangeRow, LookupInv, TypeOK
<1> QED
    BY <1>8, <1>9

LEMMA WalkStep ==
    ASSUME LookupInv, Walk
    PROVE  LookupInv'
<1> DEFINE q == lookup.query
           row == lookup.row
           events == RangeOf(row).events
           c == ComparerFor(RangeOf(row).type, q.eco)
           v == q.version
           n == lookup.pos
           new == (lookup.introduced \/ Opens(c, v, events[n])) /\ ~Closes(c, v, events[n])
<1>0. lookup \in Lookup /\ lookup.pc = "events" /\ q \in Query /\ n <= Len(events)
    BY DEF LookupInv, TypeOK, RowsInv, Walk
<1>1. RangeOK(row, q, indexed) /\ LoopOK(row, q, n, lookup.introduced)
    BY <1>0 DEF LookupInv, RowsInv
<1>2. events \in Seq(Event) /\ c \in Comparers /\ v \in Versions
    BY <1>1, RangeType DEF RangeOK
<1>3. n \in DOMAIN events /\ n \in Nat /\ n - 1 \in Nat /\ (n - 1) + 1 = n
    BY <1>0, <1>1, <1>2 DEF LoopOK
<1>4. lookup' = [lookup EXCEPT !.pos = n + 1, !.introduced = new]
    BY DEF Walk
<1>5. new \in BOOLEAN
    OBVIOUS
<1> HIDE DEF new
<1>6. /\ lookup'.pc = "events" /\ lookup'.query = q /\ lookup'.exact = lookup.exact
      /\ lookup'.ranges = lookup.ranges /\ lookup'.matched = lookup.matched
      /\ lookup'.row = row /\ lookup'.pos = n + 1 /\ lookup'.introduced = new
    BY <1>0, <1>4 DEF Lookup
<1>7. lookup' \in Lookup
    <2> DEFINE next == n + 1
    <2>1. next \in Nat /\ lookup' = [lookup EXCEPT !.pos = next, !.introduced = new]
        BY <1>3, <1>4
    <2> HIDE DEF next
    <2> QED
        BY <1>0, <1>5, <2>1, Zenon DEF Lookup
<1>8. ASSUME InOrder(c, v, events) PROVE new = InRange(c, v, events, n)
    <2>1. lookup.introduced = InRange(c, v, events, n - 1)
        BY <1>1, <1>8 DEF LoopOK
    <2>2. Opens(c, v, events[n]) <=> StartsBelow(c, v, events[n])
        BY <1>0, <1>2, <1>3, <1>8, OpensIsStart
    <2>3. Closes(c, v, events[n]) <=> ~(\A x \in Ends(c, events[n]) : Rank[c][v] < x)
        BY <1>0, <1>2, <1>3, <1>8, ClosesIsEnd
    <2>4. InRange(c, v, events, n)
            <=> /\ InRange(c, v, events, n - 1) \/ StartsBelow(c, v, events[n])
                /\ \A x \in Ends(c, events[n]) : Rank[c][v] < x
        <3> DEFINE m == n - 1
        <3>1. m \in Nat /\ m + 1 = n /\ m + 1 <= Len(events)
            BY <1>0, <1>3
        <3> HIDE DEF m
        <3>2. InRange(c, v, events, m + 1)
            <=> /\ InRange(c, v, events, m) \/ StartsBelow(c, v, events[m + 1])
                /\ \A x \in Ends(c, events[m + 1]) : Rank[c][v] < x
            BY <1>0, <1>2, <1>8, <3>1, OneMoreEvent
        <3> QED
            BY <3>1, <3>2 DEF m
    <2>5. InRange(c, v, events, n) \in BOOLEAN
        BY DEF InRange
    <2> QED
        BY <2>1, <2>2, <2>3, <2>4, <2>5 DEF new
<1>9. LoopOK(row, q, n + 1, new)
    <2>1. n + 1 \in 1 .. (Len(events) + 1) /\ (n + 1) - 1 = n
        BY <1>2, <1>3
    <2> QED
        BY <1>1, <1>8, <2>1 DEF LoopOK
<1>10. RowsInv(lookup', indexed)
    BY <1>0, <1>1, <1>6, <1>9 DEF LookupInv, RowsInv
<1>11. FoundInv(lookup', index, quiet)
    BY <1>0, <1>6 DEF LookupInv, FoundInv, SeenBy
<1> QED
    BY <1>7, <1>10, <1>11, LocalStep DEF Walk, LookupInv, TypeOK

LEMMA WalkedStep ==
    ASSUME LookupInv, Walked
    PROVE  LookupInv'
<1> DEFINE q == lookup.query
           row == lookup.row
           events == RangeOf(row).events
           c == ComparerFor(RangeOf(row).type, q.eco)
           v == q.version
<1>0. /\ lookup \in Lookup /\ lookup.pc = "events" /\ q \in Query
      /\ lookup.pos > Len(events)
    BY DEF LookupInv, TypeOK, RowsInv, Walked
<1>1. RangeOK(row, q, indexed) /\ LoopOK(row, q, lookup.pos, lookup.introduced)
    BY <1>0 DEF LookupInv, RowsInv
<1>2. row \in IndexRows /\ events \in Seq(Event)
    BY <1>1, RangeType
<1>3. lookup.pos - 1 = Len(events)
    BY <1>0, <1>1, <1>2 DEF LoopOK
<1>4. InOrder(c, v, events) => lookup.introduced = InRange(c, v, events, Len(events))
    BY <1>1, <1>3 DEF LoopOK
<1>5. RangeOf(row).type # "GIT"
    BY <1>1 DEF LoopOK
<1>6. WellFormed(q, RangeOf(row)) => lookup.introduced = RangeAffects(q, RangeOf(row))
    BY <1>1, <1>4, <1>5, NamesAssumption DEF RangeOK, WellFormed, RangeAffects, InRange
<1>7. /\ lookup'.pc = "rows" /\ lookup'.query = q /\ lookup'.exact = lookup.exact
      /\ lookup'.ranges = lookup.ranges
      /\ lookup'.matched = IF lookup.introduced THEN lookup.matched \cup {row} ELSE lookup.matched
    BY <1>0 DEF Walked, Lookup
<1>8. lookup' \in Lookup
    BY <1>0, <1>2 DEF Walked, Lookup
<1>9. lookup.introduced => MatchOK(row, q, indexed)
    <2>1. RangeOf(row) = AffOf(row).ranges[row.rng] /\ row.rng \in DOMAIN AffOf(row).ranges
        BY <1>1 DEF RangeOf, AffOf, RangeOK
    <2>2. EntryWellFormed(q, AffOf(row)) => WellFormed(q, RangeOf(row))
        BY <2>1 DEF EntryWellFormed
    <2>3. RangeAffects(q, RangeOf(row)) => EntryAffects(q, AffOf(row))
        BY <2>1 DEF EntryAffects
    <2> QED
        BY <1>1, <1>6, <2>2, <2>3 DEF MatchOK, RangeOK
<1>10. RowsInv(lookup', indexed)
    BY <1>0, <1>7, <1>9 DEF LookupInv, RowsInv
<1>11. ~lookup.introduced => ~Clear(q, row)
    BY <1>6 DEF Clear
<1>12. /\ SeenBy(lookup) \subseteq SeenBy(lookup')
       /\ lookup.introduced => row.osv \in SeenBy(lookup')
    BY <1>7 DEF SeenBy
<1>13. \A x : row \in RangeRows({x}, q) => row.osv = x.osv
    BY RangeRowIs
<1>14. FoundInv(lookup', index, quiet)
    <2>1. ASSUME NEW x \in index, x.osv \in quiet, NEW r \in ExactRows({x}, q)
          PROVE  r \in lookup'.exact \/ x.osv \in SeenBy(lookup')
        BY <1>0, <1>7, <1>12, <2>1 DEF LookupInv, FoundInv
    <2>2. ASSUME NEW x \in index, x.osv \in quiet, NEW r \in RangeRows({x}, q)
          PROVE  r \in lookup'.ranges \/ x.osv \in SeenBy(lookup') \/ ~Clear(q, r)
        <3>1. r \in lookup.ranges \/ x.osv \in SeenBy(lookup) \/ r = row \/ ~Clear(q, r)
            BY <1>0, <2>2 DEF LookupInv, FoundInv
        <3>2. CASE r = row
            BY <1>11, <1>12, <1>13, <2>2, <3>2
        <3> QED
            BY <1>7, <1>12, <3>1, <3>2
    <2> QED
        BY <1>7, <2>1, <2>2 DEF FoundInv
<1> QED
    BY <1>8, <1>10, <1>14, LocalStep DEF Walked, LookupInv, TypeOK

\* A step that only loads details, once all rows were looked at.
LEMMA DetailStep ==
    ASSUME LookupInv, Local, faults' \in Nat, NEW details \in SUBSET Detail, NEW pc,
           \/ lookup.pc = "rows" /\ lookup.exact = {} /\ lookup.ranges = {}
           \/ lookup.pc = "details",
           pc \in {"details", "done"},
           lookup' = [lookup EXCEPT !.pc = pc, !.details = details]
    PROVE  LookupInv'
<1>0. lookup \in Lookup /\ lookup.pc \in {"rows", "details"}
      /\ lookup.exact = {} /\ lookup.ranges = {}
    BY DEF LookupInv, TypeOK, FoundInv
<1>1. /\ lookup'.pc = pc /\ lookup'.query = lookup.query /\ lookup'.exact = {}
      /\ lookup'.ranges = {} /\ lookup'.matched = lookup.matched
    BY <1>0 DEF Lookup
<1>2. lookup' \in Lookup
    BY <1>0 DEF Lookup
<1>3. RowsInv(lookup', indexed)
    BY <1>0, <1>1 DEF LookupInv, RowsInv
<1>4. FoundInv(lookup', index, quiet)
    BY <1>0, <1>1 DEF LookupInv, FoundInv, SeenBy
<1> QED
    BY <1>2, <1>3, <1>4, LocalStep

LEMMA AnswerStep == LookupInv /\ Answer => LookupInv'
<1> SUFFICES ASSUME LookupInv, Answer PROVE LookupInv'
    OBVIOUS
<1>1. lookup \in Lookup /\ faults \in Nat
    BY DEF LookupInv, TypeOK
<1>2. lookup' = [lookup EXCEPT !.pc = "done", !.details = lookup.details]
    BY <1>1 DEF Answer, Lookup
<1> QED
    BY <1>1, <1>2, DetailStep DEF Answer, Lookup

LEMMA ReadRecordsStep == LookupInv /\ ReadRecords => LookupInv'
<1> SUFFICES ASSUME LookupInv, ReadRecords PROVE LookupInv'
    OBVIOUS
<1> DEFINE details == {[osv |-> o, id |-> vulns[o].id, rev |-> vulns[o].rev] :
                         o \in {o \in Seen : Stored(o)}}
<1>1. lookup \in Lookup /\ faults \in Nat /\ vulns \in [Osv -> Row]
    BY DEF LookupInv, TypeOK
<1>2. Seen \subseteq Osv
    BY <1>1 DEF Seen, Lookup, IndexRows
<1>3. details \in SUBSET Detail
    BY <1>1, <1>2 DEF Detail, Row
<1>4. lookup' = [lookup EXCEPT !.pc = "details", !.details = details]
    BY DEF ReadRecords
<1> HIDE DEF details
<1> QED
    BY <1>1, <1>3, <1>4, DetailStep DEF ReadRecords

LEMMA ReadEntriesStep == LookupInv /\ ReadEntries => LookupInv'
<1> SUFFICES ASSUME LookupInv, ReadEntries PROVE LookupInv'
    OBVIOUS
<1> DEFINE details == {IF vulns[d.osv].id = d.id THEN d ELSE [d EXCEPT !.rev = 0] :
                         d \in lookup.details}
<1>1. lookup \in Lookup /\ faults \in Nat /\ lookup.details \subseteq Detail
    BY DEF LookupInv, TypeOK, Lookup
<1>2. \A d \in Detail : [d EXCEPT !.rev = 0] \in Detail
    BY DEF Detail
<1>3. details \in SUBSET Detail
    BY <1>1, <1>2
<1>4. lookup' = [lookup EXCEPT !.pc = "done", !.details = details]
    BY DEF ReadEntries
<1> HIDE DEF details
<1> QED
    BY <1>1, <1>3, <1>4, DetailStep DEF ReadEntries

LEMMA DetailsFailStep == LookupInv /\ DetailsFail => LookupInv'
<1> SUFFICES ASSUME LookupInv, DetailsFail PROVE LookupInv'
    OBVIOUS
<1>1. faults' \in Nat
    BY DEF LookupInv, TypeOK, DetailsFail
<1> QED
    BY <1>1, DetailStep DEF DetailsFail

-----------------------------------------------------------------------------
(* The theorems *)

\* The inductive invariant.
THEOREM Invariance == Spec => []LookupInv
<1>1. Init => LookupInv
    <2> SUFFICES ASSUME Init PROVE LookupInv
        OBVIOUS
    <2>1. /\ index = {} /\ indexed = {} /\ lookup.pc = "idle" /\ lookup.exact = {}
          /\ lookup.ranges = {} /\ lookup.matched = {}
        BY DEF Init, StoreInit
    <2> QED
        BY <2>1, InitTypes DEF LookupInv, RowsInv, FoundInv
<1>2. LookupInv /\ [Next]_vars => LookupInv'
    <2> SUFFICES ASSUME LookupInv, [Next]_vars PROVE LookupInv'
        OBVIOUS
    <2>1. CASE UNCHANGED vars
        BY <2>1 DEF vars, storeVars, LookupInv, TypeOK, RowsInv, FoundInv
    <2>2. CASE Sync
        BY <2>2, UpsertStep, RebuildStep, RebuildFailsStep DEF Sync
    <2>3. CASE GetVulnerabilities
        BY <2>3, StartStep, ReadAllStep, ReadExactStep, ReadRangesStep, ReadFailsStep, ExactRowStep,
           RangeRowStep, WalkStep, WalkedStep, AnswerStep, ReadRecordsStep, ReadEntriesStep,
           DetailsFailStep DEF GetVulnerabilities
    <2> QED
        BY <2>1, <2>2, <2>3 DEF Next
<1> QED
    BY <1>1, <1>2, PTL DEF Spec

\* The types hold for any records, versions and orders of versions.
THEOREM TypeCorrect == Spec => []TypeOK
<1>1. LookupInv => TypeOK
    BY DEF LookupInv
<1> QED
    BY <1>1, Invariance, PTL

(***************************************************************************)
(* A lookup finds every record that is left alone while it runs and whose  *)
(* index rows say that the version is affected (osvdb.go:34).              *)
(***************************************************************************)
THEOREM UntouchedRecordsAreFound == Spec => []QuietRecordsAreFound
<1>1. LookupInv => QuietRecordsAreFound
    <2> SUFFICES ASSUME LookupInv, lookup.pc = "done", NEW x \in index, x.osv \in quiet,
                        Affects(lookup.query, x), SaysClearly(lookup.query, x)
                 PROVE  x.osv \in Seen
        BY DEF QuietRecordsAreFound, FindsAll
    <2> DEFINE q == lookup.query
               aff(a) == Content[x.osv][x.rev].affected[a]
    <2>1. PICK a \in Entries(x.osv, x.rev, q.eco) : EntryAffects(q, aff(a))
        BY DEF Affects
    <2>2. EntryWellFormed(q, aff(a))
        BY DEF SaysClearly
    <2>3. lookup.exact = {} /\ lookup.ranges = {} /\ Seen = SeenBy(lookup)
        BY DEF LookupInv, FoundInv, Seen, SeenBy
    <2>4. CASE Names(q, aff(a))
        <3>1. [osv |-> x.osv, rev |-> x.rev, aff |-> a, rng |-> 0] \in ExactRows({x}, q)
            BY <2>4, ExactRowIs
        <3> QED
            BY <2>3, <3>1 DEF LookupInv, FoundInv
    <2>5. CASE ~Names(q, aff(a)) /\ \E n \in DOMAIN aff(a).ranges : RangeAffects(q, aff(a).ranges[n])
        <3>1. PICK n \in DOMAIN aff(a).ranges : RangeAffects(q, aff(a).ranges[n])
            BY <2>5
        <3> DEFINE row == [osv |-> x.osv, rev |-> x.rev, aff |-> a, rng |-> n]
        <3>2. row \in RangeRows({x}, q) /\ RangeOf(row) = aff(a).ranges[n]
            BY RangeRowIs DEF RangeOf
        <3>3. Clear(q, row)
            BY <2>2, <2>5, <3>1, <3>2 DEF Clear, EntryWellFormed, Names
        <3> HIDE DEF row
        <3> QED
            BY <2>3, <3>2, <3>3 DEF LookupInv, FoundInv
    <2> QED
        BY <2>1, <2>4, <2>5 DEF EntryAffects
<1> QED
    BY <1>1, Invariance, PTL

(***************************************************************************)
(* What a lookup reports of a record was said by a revision of it that was *)
(* indexed while the lookup ran (osvdb.go:84).                             *)
(***************************************************************************)
THEOREM NothingIsMadeUp == Spec => []ReportsAreTrue
<1>1. LookupInv => ReportsAreTrue
    <2> SUFFICES ASSUME LookupInv, lookup.pc = "done", NEW row \in lookup.matched
                 PROVE  \E x \in indexed :
                          /\ x.osv = Record(row).osv
                          /\ Record(row).malicious = Content[x.osv][x.rev].malicious
                          /\ \E a \in Entries(x.osv, x.rev, lookup.query.eco) :
                               /\ Record(row).severity = Severity(x.osv, x.rev, a)
                               /\ EntryWellFormed(lookup.query, Content[x.osv][x.rev].affected[a]) =>
                                  EntryAffects(lookup.query, Content[x.osv][x.rev].affected[a])
        BY DEF ReportsAreTrue, Results
    <2>1. MatchOK(row, lookup.query, indexed)
        BY DEF LookupInv, RowsInv
    <2>2. PICK x \in indexed : x.osv = row.osv /\ x.rev = row.rev
        BY <2>1 DEF MatchOK, RowOK
    <2>3. row.aff \in Entries(x.osv, x.rev, lookup.query.eco) /\ AffOf(row) = Content[x.osv][x.rev].affected[row.aff]
        BY <2>1, <2>2 DEF MatchOK, RowOK, AffOf
    <2> QED
        BY <2>1, <2>2, <2>3 DEF Record, MatchOK
<1> QED
    BY <1>1, Invariance, PTL

-----------------------------------------------------------------------------
(* The first fix a record names *)

\* The least number of a set.
LEMMA LeastNumber ==
    ASSUME NEW S \in SUBSET Nat, S # {}
    PROVE  \E n \in S : \A m \in S : n <= m
<1> DEFINE Less == {p \in Nat \X Nat : p[1] < p[2]}
<1>1. IsWellFoundedOn(Less, Nat)
    BY NatLessThanWellFounded, Zenon DEF OpToRel
<1> HIDE DEF Less
<1>2. PICK n \in S : \A m \in S : ~(<<m, n>> \in Less)
    BY <1>1, WFMin
<1>3. \A m \in S : ~(m < n)
    BY <1>2 DEF Less
<1> QED
    BY <1>2, <1>3

\* The least of a set of places, by entry, then by range, then by event.
LEMMA LeastPlace ==
    ASSUME NEW places \in SUBSET (Nat \X Nat \X Nat), places # {}
    PROVE  \E p \in places : \A q \in places \ {p} :
                \/ p[1] < q[1]
                \/ p[1] = q[1] /\ p[2] < q[2]
                \/ p[1] = q[1] /\ p[2] = q[2] /\ p[3] < q[3]
<1> DEFINE as == {p[1] : p \in places}
<1>1. PICK a \in as : \A m \in as : a <= m
    <2>1. as \in SUBSET Nat /\ as # {}
        OBVIOUS
    <2> HIDE DEF as
    <2> QED
        BY <2>1, LeastNumber
<1> DEFINE ofEntry == {p \in places : p[1] = a}
           ns == {p[2] : p \in ofEntry}
<1>2. PICK n \in ns : \A m \in ns : n <= m
    <2>1. ns \in SUBSET Nat /\ ns # {}
        BY <1>1
    <2> HIDE DEF ns
    <2> QED
        BY <2>1, LeastNumber
<1> DEFINE ofRange == {p \in ofEntry : p[2] = n}
           is == {p[3] : p \in ofRange}
<1>3. PICK i \in is : \A m \in is : i <= m
    <2>1. is \in SUBSET Nat /\ is # {}
        BY <1>2
    <2> HIDE DEF is
    <2> QED
        BY <2>1, LeastNumber
<1>4. PICK p \in ofRange : p[3] = i
    BY <1>3
<1>5. p \in places /\ p[1] = a /\ p[2] = n /\ p[3] = i
    BY <1>4
<1>6. ASSUME NEW q \in places, q # p
      PROVE  \/ p[1] < q[1]
             \/ p[1] = q[1] /\ p[2] < q[2]
             \/ p[1] = q[1] /\ p[2] = q[2] /\ p[3] < q[3]
    <2>1. p[1] \in Nat /\ p[2] \in Nat /\ p[3] \in Nat /\ q[1] \in Nat /\ q[2] \in Nat /\ q[3] \in Nat
        BY <1>5
    <2>2. p[1] <= q[1]
        BY <1>1, <1>5
    <2>3. p[1] = q[1] => p[2] <= q[2]
        BY <1>2, <1>5
    <2>4. p[1] = q[1] /\ p[2] = q[2] => p[3] <= q[3]
        BY <1>3, <1>5
    <2>5. p[1] = q[1] /\ p[2] = q[2] /\ p[3] = q[3] => p = q
        BY <1>5
    <2> QED
        BY <1>6, <2>1, <2>2, <2>3, <2>4, <2>5
<1> QED
    BY <1>5, <1>6

FixAt(affected, p) == affected[p[1]].ranges[p[2]].events[p[3]].fixed

\* A fix that is found is one of those named.
LEMMA FirstFixIsNamed ==
    ASSUME NEW entries \in SUBSET Nat, NEW affected,
           \A a \in entries : affected[a].ranges \in Seq(AffectedRange),
           FirstFix(entries, affected) # None
    PROVE  \E p \in FixPlaces(entries, affected) : FirstFix(entries, affected) = FixAt(affected, p)
<1> DEFINE places == FixPlaces(entries, affected)
           First(p) == \A q \in places \ {p} :
                            \/ p[1] < q[1]
                            \/ p[1] = q[1] /\ p[2] < q[2]
                            \/ p[1] = q[1] /\ p[2] = q[2] /\ p[3] < q[3]
<1>1. places # {}
    BY DEF FirstFix
<1>2. places \subseteq Nat \X Nat \X Nat
    <2> SUFFICES ASSUME NEW p \in FixPlaces(entries, affected) PROVE p \in Nat \X Nat \X Nat
        OBVIOUS
    <2>0. \E a \in entries : \E n \in DOMAIN affected[a].ranges :
               \E i \in DOMAIN affected[a].ranges[n].events :
                 affected[a].ranges[n].events[i].fixed # None /\ p = <<a, n, i>>
        BY DEF FixPlaces
    <2>1. PICK a \in entries : \E n \in DOMAIN affected[a].ranges :
               \E i \in DOMAIN affected[a].ranges[n].events : p = <<a, n, i>>
        BY <2>0
    <2>2. PICK n \in DOMAIN affected[a].ranges :
               \E i \in DOMAIN affected[a].ranges[n].events : p = <<a, n, i>>
        BY <2>1
    <2>3. n \in Nat /\ affected[a].ranges[n] \in AffectedRange
        BY <2>1, <2>2
    <2>4. affected[a].ranges[n].events \in Seq(Event)
        BY <2>3 DEF AffectedRange
    <2>5. PICK i \in DOMAIN affected[a].ranges[n].events : p = <<a, n, i>>
        BY <2>2
    <2> DEFINE events == affected[a].ranges[n].events
    <2>6. a \in Nat /\ i \in DOMAIN events /\ events \in Seq(Event)
        BY <2>4
    <2> HIDE DEF events
    <2>7. i \in Nat
        BY <2>6, PlaceIsNat
    <2> QED
        BY <2>3, <2>5, <2>6, <2>7
<1> HIDE DEF places
<1>3. \E p \in places : First(p)
    BY <1>1, <1>2, LeastPlace
<1>4. FirstFix(entries, affected) = FixAt(affected, CHOOSE p \in places : First(p))
    BY <1>1 DEF FirstFix, FixAt, places
<1> QED
    BY <1>3, <1>4 DEF places

-----------------------------------------------------------------------------
(***************************************************************************)
(* What the details rest on.  The index rows of a record are those of the  *)
(* row it has in the table, and a sync in between indexes the row it just  *)
(* wrote; so the rows a lookup holds, and the records it loads for them,   *)
(* are of one revision as long as no transaction touches the record.       *)
(***************************************************************************)
StoreInv ==
    /\ nextId # 0
    /\ \A o \in Osv : Stored(o) => vulns[o].rev \in DOMAIN Content[o]
    /\ \A x \in index : x.vid # 0 /\ vulns[x.osv].id = x.vid /\ vulns[x.osv].rev = x.rev
    /\ job # NoJob => /\ job.id # 0
                      /\ vulns[job.osv].id = job.id /\ vulns[job.osv].rev = job.rev

Holds(l, row) ==
    \/ row \in l.exact \/ row \in l.ranges \/ row \in l.matched
    \/ l.pc = "events" /\ row = l.row

DetailsInv(l, rows, untouched) ==
    /\ l.pc # "idle" /\ (l.caller = "policy" \/ l.details # {}) => l.query.version # None
    /\ \A row : Holds(l, row) /\ row.osv \in untouched => rows[row.osv].rev = row.rev
    /\ \A d \in l.details : d.rev # 0 =>
         /\ d.rev \in DOMAIN Content[d.osv]
         /\ d.osv \in untouched => rows[d.osv].rev = d.rev

FixInv == LookupInv /\ StoreInv /\ DetailsInv(lookup, vulns, quiet)

LEMMA FixInit == Init => FixInv
<1> SUFFICES ASSUME Init PROVE FixInv
    OBVIOUS
<1>1. LookupInv
    <2>1. /\ index = {} /\ indexed = {} /\ lookup.pc = "idle" /\ lookup.exact = {}
          /\ lookup.ranges = {} /\ lookup.matched = {}
        BY DEF Init, StoreInit
    <2> QED
        BY <2>1, InitTypes DEF LookupInv, RowsInv, FoundInv
<1>2. StoreInv
    BY DEF Init, StoreInit, StoreInv, Stored, Absent, NoJob
<1>3. /\ lookup.pc = "idle" /\ lookup.exact = {} /\ lookup.ranges = {} /\ lookup.matched = {}
      /\ lookup.details = {}
    BY DEF Init
<1> QED
    BY <1>1, <1>2, <1>3 DEF FixInv, DetailsInv, Holds

\* A transaction on one record changes the row of no other.
LEMMA DetailsKept ==
    ASSUME FixInv, UNCHANGED lookup, NEW o \in Osv, Touch(o),
           \A u \in Osv : u # o => vulns'[u] = vulns[u]
    PROVE  DetailsInv(lookup, vulns', quiet')
<1>1. quiet' \subseteq quiet /\ o \notin quiet' /\ quiet \subseteq Osv
    BY DEF Touch, FixInv, LookupInv, TypeOK
<1>2. \A u \in quiet' : u \in quiet /\ vulns'[u] = vulns[u]
    BY <1>1
<1> QED
    BY <1>2 DEF FixInv, DetailsInv

LEMMA FixUpsertStep ==
    ASSUME FixInv, NEW o \in Osv, Upsert(o)
    PROVE  FixInv'
<1>0. LookupInv'
    BY UpsertStep DEF FixInv
<1>1. PICK r \in DOMAIN Content[o] :
        /\ UpsertBatch({o}, [x \in {o} |-> r], [x \in {o} |-> nextId])
        /\ job' = [osv |-> o, rev |-> r, id |-> nextId]
    BY DEF Upsert
<1>2. Cardinality({o}) = 1
    BY FS_Singleton
<1>3. /\ vulns' = [v \in Osv |-> IF v \in {o} THEN [id |-> nextId, rev |-> r] ELSE vulns[v]]
      /\ nextId' = nextId + 1
      /\ index' = {x \in index : Stored(o) => x.vid # vulns[o].id}
    BY <1>1, <1>2 DEF UpsertBatch
<1>4. nextId \in Nat /\ nextId # 0 /\ \A x \in index : x.osv \in Osv
    BY DEF FixInv, LookupInv, TypeOK, StoreInv, IndexRow
<1>5. /\ vulns'[o].id = nextId /\ vulns'[o].rev = r
      /\ \A u \in Osv : u # o => vulns'[u] = vulns[u]
    BY <1>3
<1>6. \A x \in index' : x \in index /\ x.osv # o
    BY <1>3 DEF FixInv, StoreInv, Stored
<1>7. StoreInv'
    <2>1. nextId' # 0
        BY <1>3, <1>4
    <2>2. ASSUME NEW u \in Osv, vulns'[u].id # 0 PROVE vulns'[u].rev \in DOMAIN Content[u]
        BY <1>5, <2>2 DEF FixInv, StoreInv, Stored
    <2>3. ASSUME NEW x \in index'
          PROVE  x.vid # 0 /\ vulns'[x.osv].id = x.vid /\ vulns'[x.osv].rev = x.rev
        BY <1>4, <1>5, <1>6 DEF FixInv, StoreInv
    <2>4. job'.id # 0 /\ vulns'[job'.osv].id = job'.id /\ vulns'[job'.osv].rev = job'.rev
        BY <1>1, <1>4, <1>5
    <2> QED
        BY <2>1, <2>2, <2>3, <2>4 DEF StoreInv, Stored
<1>8. DetailsInv(lookup, vulns', quiet')
    BY <1>5, DetailsKept DEF Upsert
<1> QED
    BY <1>0, <1>7, <1>8 DEF FixInv, Upsert

LEMMA FixRebuildStep ==
    ASSUME FixInv, NEW o \in Osv, Rebuild(o)
    PROVE  FixInv'
<1>0. LookupInv'
    BY RebuildStep DEF FixInv
<1> DEFINE row == [vid |-> job.id, osv |-> o, rev |-> job.rev]
<1>1. job # NoJob /\ job.osv = o
    BY NamesAssumption DEF Rebuild, NoJob
<1>2. index' \subseteq index \cup {row} /\ UNCHANGED <<vulns, nextId>> /\ job' = NoJob
    BY DEF Rebuild, BulkRebuildPackageIndex
<1>3. row.vid # 0 /\ vulns[row.osv].id = row.vid /\ vulns[row.osv].rev = row.rev
    BY <1>1 DEF FixInv, StoreInv
<1> HIDE DEF row
<1>4. StoreInv'
    BY <1>2, <1>3 DEF FixInv, StoreInv, Stored
<1>5. DetailsInv(lookup, vulns', quiet')
    BY <1>2, DetailsKept DEF Rebuild
<1> QED
    BY <1>0, <1>4, <1>5 DEF FixInv, Rebuild

LEMMA FixRebuildFailsStep == FixInv /\ RebuildFails => FixInv'
BY RebuildFailsStep DEF FixInv, StoreInv, RebuildFails, storeVars, NoJob, Stored

\* A step of the lookup leaves the tables alone.
LEMMA FixLocalStep ==
    ASSUME FixInv, Local, LookupInv', DetailsInv(lookup', vulns, quiet)
    PROVE  FixInv'
BY DEF FixInv, StoreInv, Local, storeVars, Stored

\* A step that loads no details holds rows it held, or rows of the index.
LEMMA RowsStep ==
    ASSUME FixInv, Local, LookupInv', lookup.pc # "idle",
           lookup'.caller = lookup.caller, lookup'.query = lookup.query,
           lookup'.details = lookup.details,
           \A row : Holds(lookup', row) => Holds(lookup, row) \/ vulns[row.osv].rev = row.rev
    PROVE  FixInv'
<1>1. DetailsInv(lookup', vulns, quiet)
    BY DEF FixInv, DetailsInv
<1> QED
    BY <1>1, FixLocalStep

\* What the two queries return is of the revision in the table.
LEMMA RowsOfTheTable ==
    ASSUME FixInv, NEW q, NEW row, row \in ExactRows(index, q) \/ row \in RangeRows(index, q)
    PROVE  vulns[row.osv].rev = row.rev
<1>1. \E x \in index : row.osv = x.osv /\ row.rev = x.rev
    BY ExactRowIs, RangeRowIs
<1> QED
    BY <1>1 DEF FixInv, StoreInv

LEMMA FixStartStep ==
    ASSUME FixInv, NEW c \in Callers, NEW e \in Lookups, NEW v \in Versions \cup {None},
           Start(c, e, v)
    PROVE  FixInv'
<1>1. /\ lookup'.pc # "idle" /\ lookup'.caller = c /\ lookup'.query.version = v
      /\ lookup'.exact = {} /\ lookup'.ranges = {} /\ lookup'.matched = {}
      /\ lookup'.details = {} /\ lookup'.pc # "events"
    BY DEF Start
<1>2. c = "policy" => v # None
    BY DEF Start
<1>3. DetailsInv(lookup', vulns, quiet')
    BY <1>1, <1>2 DEF DetailsInv, Holds
<1> QED
    BY <1>3, StartStep DEF FixInv, StoreInv, Start, storeVars, Stored

LEMMA FixReadStep ==
    ASSUME FixInv, ReadAll \/ ReadExact \/ ReadRanges \/ ReadFails
    PROVE  FixInv'
<1>1. LookupInv'
    BY ReadAllStep, ReadExactStep, ReadRangesStep, ReadFailsStep DEF FixInv
<1>2. lookup \in Lookup
    BY DEF FixInv, LookupInv, TypeOK
<1>3. /\ lookup.pc \in {"all", "exact", "ranges"} /\ lookup'.pc # "events"
      /\ lookup'.caller = lookup.caller /\ lookup'.query = lookup.query
      /\ lookup'.details = lookup.details /\ lookup'.matched = lookup.matched
      /\ lookup'.exact \in {lookup.exact, {}, ExactRows(index, lookup.query)}
      /\ lookup'.ranges \in {lookup.ranges, RangeRows(index, lookup.query)}
    <2>1. CASE ReadAll
        BY <1>2, <2>1 DEF ReadAll, Lookup
    <2>2. CASE ReadExact
        BY <1>2, <2>2 DEF ReadExact, Lookup
    <2>3. CASE ReadRanges
        BY <1>2, <2>3 DEF ReadRanges, Lookup
    <2>4. CASE ReadFails
        BY <1>2, <2>4 DEF ReadFails, Lookup
    <2> QED
        BY <2>1, <2>2, <2>3, <2>4
<1>4. \A row : Holds(lookup', row) => Holds(lookup, row) \/ vulns[row.osv].rev = row.rev
    <2> SUFFICES ASSUME NEW row, Holds(lookup', row)
                 PROVE  Holds(lookup, row) \/ vulns[row.osv].rev = row.rev
        OBVIOUS
    <2>1. \/ row \in lookup.exact \/ row \in lookup.ranges \/ row \in lookup.matched
          \/ row \in ExactRows(index, lookup.query) \/ row \in RangeRows(index, lookup.query)
        BY <1>3 DEF Holds
    <2> QED
        BY <2>1, RowsOfTheTable DEF Holds
<1>5. Local
    BY DEF ReadAll, ReadExact, ReadRanges, ReadFails
<1> QED
    BY <1>1, <1>3, <1>4, <1>5, RowsStep

LEMMA FixRowStep ==
    ASSUME FixInv, ExactRow \/ RangeRow
    PROVE  FixInv'
<1>1. LookupInv'
    BY ExactRowStep, RangeRowStep DEF FixInv
<1>2. lookup \in Lookup
    BY DEF FixInv, LookupInv, TypeOK
<1>3. /\ lookup.pc = "rows"
      /\ lookup'.caller = lookup.caller /\ lookup'.query = lookup.query
      /\ lookup'.details = lookup.details
    BY <1>2 DEF ExactRow, RangeRow, Lookup
<1>4. \A row : Holds(lookup', row) => Holds(lookup, row)
    <2>1. CASE ExactRow
        <3>1. PICK row \in lookup.exact :
                lookup' = [lookup EXCEPT !.exact = @ \ {row},
                                         !.matched = IF row.osv \in Seen THEN @ ELSE @ \cup {row}]
            BY <2>1 DEF ExactRow
        <3>2. /\ lookup'.pc = "rows" /\ lookup'.ranges = lookup.ranges
              /\ lookup'.exact \subseteq lookup.exact
              /\ lookup'.matched \subseteq lookup.matched \cup {row}
            BY <1>2, <1>3, <3>1 DEF Lookup
        <3>3. ASSUME NEW held, Holds(lookup', held) PROVE Holds(lookup, held)
            BY <3>1, <3>2, <3>3 DEF Holds
        <3> QED
            BY <3>3
    <2>2. CASE RangeRow
        <3>1. PICK row \in lookup.ranges :
                lookup' = IF row.osv \in Seen \/ RangeOf(row).type = "GIT"
                          THEN [lookup EXCEPT !.ranges = @ \ {row}]
                          ELSE [lookup EXCEPT !.pc = "events", !.ranges = @ \ {row},
                                              !.row = row, !.pos = 1, !.introduced = FALSE]
            BY <2>2 DEF RangeRow
        <3>2. /\ lookup'.pc = "rows" \/ lookup'.row = row
              /\ lookup'.ranges \subseteq lookup.ranges
              /\ lookup'.exact = lookup.exact /\ lookup'.matched = lookup.matched
            BY <1>2, <1>3, <3>1 DEF Lookup
        <3>3. ASSUME NEW held, Holds(lookup', held) PROVE Holds(lookup, held)
            BY <3>1, <3>2, <3>3 DEF Holds
        <3> QED
            BY <3>3
    <2> QED
        BY <2>1, <2>2
<1>5. Local
    BY DEF ExactRow, RangeRow
<1> QED
    BY <1>1, <1>3, <1>4, <1>5, RowsStep

LEMMA FixWalkStep ==
    ASSUME FixInv, Walk \/ Walked
    PROVE  FixInv'
<1>1. LookupInv'
    BY WalkStep, WalkedStep DEF FixInv
<1>2. lookup \in Lookup
    BY DEF FixInv, LookupInv, TypeOK
<1>3. /\ lookup.pc = "events"
      /\ lookup'.caller = lookup.caller /\ lookup'.query = lookup.query
      /\ lookup'.details = lookup.details
      /\ lookup'.exact = lookup.exact /\ lookup'.ranges = lookup.ranges
      /\ lookup'.matched \subseteq lookup.matched \cup {lookup.row}
      /\ lookup'.pc = "rows" \/ lookup'.row = lookup.row
    <2>1. CASE Walk
        BY <1>2, <2>1 DEF Walk, Lookup
    <2>2. CASE Walked
        BY <1>2, <2>2 DEF Walked, Lookup
    <2> QED
        BY <2>1, <2>2
<1>4. \A row : Holds(lookup', row) => Holds(lookup, row)
    <2> SUFFICES ASSUME NEW row, Holds(lookup', row) PROVE Holds(lookup, row)
        OBVIOUS
    <2> QED
        BY <1>3 DEF Holds
<1>5. Local
    BY DEF Walk, Walked
<1> QED
    BY <1>1, <1>3, <1>4, <1>5, RowsStep

\* The steps that load the details, or end the lookup.
LEMMA FixDetailsStep ==
    ASSUME FixInv, Answer \/ ReadRecords \/ ReadEntries \/ DetailsFail
    PROVE  FixInv'
<1>1. LookupInv'
    BY AnswerStep, ReadRecordsStep, ReadEntriesStep, DetailsFailStep DEF FixInv
<1>2. lookup \in Lookup /\ Seen \subseteq Osv /\ lookup.details \subseteq Detail
    BY DEF FixInv, LookupInv, TypeOK, Lookup, Seen, IndexRows
<1>3. /\ lookup.pc \in {"rows", "details"} /\ lookup'.pc \in {"details", "done"}
      /\ lookup'.caller = lookup.caller /\ lookup'.query = lookup.query
      /\ lookup'.exact = lookup.exact /\ lookup'.ranges = lookup.ranges
      /\ lookup'.matched = lookup.matched
    <2>1. CASE Answer
        BY <1>2, <2>1 DEF Answer, Lookup
    <2>2. CASE ReadRecords
        BY <1>2, <2>2 DEF ReadRecords, Lookup
    <2>3. CASE ReadEntries
        BY <1>2, <2>3 DEF ReadEntries, Lookup
    <2>4. CASE DetailsFail
        BY <1>2, <2>4 DEF DetailsFail, Lookup
    <2> QED
        BY <2>1, <2>2, <2>3, <2>4
<1>4. \A row : Holds(lookup', row) => Holds(lookup, row)
    <2> SUFFICES ASSUME NEW row, Holds(lookup', row) PROVE Holds(lookup, row)
        OBVIOUS
    <2> QED
        BY <1>3 DEF Holds
<1>5. ASSUME NEW d \in lookup'.details
      PROVE  /\ lookup.caller = "policy" \/ lookup.details # {}
             /\ d.rev # 0 => /\ d.rev \in DOMAIN Content[d.osv]
                             /\ d.osv \in quiet => vulns[d.osv].rev = d.rev
    <2>1. CASE Answer
        BY <1>2, <1>5, <2>1 DEF Answer, Lookup, FixInv, DetailsInv
    <2>2. CASE ReadRecords
        <3>1. /\ lookup.caller = "policy"
              /\ \E o \in Osv : Stored(o) /\ d = [osv |-> o, id |-> vulns[o].id, rev |-> vulns[o].rev]
            BY <1>2, <1>5, <2>2 DEF ReadRecords, Lookup
        <3> QED
            BY <3>1 DEF FixInv, StoreInv
    <2>3. CASE ReadEntries
        <3>1. lookup'.details = {IF vulns[u.osv].id = u.id THEN u ELSE [u EXCEPT !.rev = 0] :
                                   u \in lookup.details}
            BY <1>2, <2>3 DEF ReadEntries, Lookup
        <3>2. PICK u \in lookup.details :
                d = IF vulns[u.osv].id = u.id THEN u ELSE [u EXCEPT !.rev = 0]
            BY <1>5, <3>1
        <3>3. u \in Detail
            BY <1>2
        <3>4. d.rev # 0 => d = u
            BY <3>2, <3>3 DEF Detail
        <3> QED
            BY <3>4 DEF FixInv, DetailsInv
    <2>4. CASE DetailsFail
        BY <1>2, <1>5, <2>4 DEF DetailsFail, Lookup
    <2> QED
        BY <2>1, <2>2, <2>3, <2>4
<1>6. DetailsInv(lookup', vulns, quiet)
    BY <1>3, <1>4, <1>5 DEF FixInv, DetailsInv
<1>7. Local
    BY DEF Answer, ReadRecords, ReadEntries, DetailsFail
<1> QED
    BY <1>1, <1>6, <1>7, FixLocalStep

\* The rows a lookup holds, and the details it loads, are of one revision.
THEOREM DetailsInvariance == Spec => []FixInv
<1>1. FixInv /\ [Next]_vars => FixInv'
    <2> SUFFICES ASSUME FixInv, [Next]_vars PROVE FixInv'
        OBVIOUS
    <2>1. CASE UNCHANGED vars
        <3>1. LookupInv'
            BY <2>1 DEF vars, storeVars, FixInv, LookupInv, TypeOK, RowsInv, FoundInv
        <3> QED
            BY <2>1, <3>1 DEF vars, storeVars, FixInv, StoreInv, Stored
    <2>2. CASE Sync
        BY <2>2, FixUpsertStep, FixRebuildStep, FixRebuildFailsStep DEF Sync
    <2>3. CASE GetVulnerabilities
        BY <2>3, FixStartStep, FixReadStep, FixRowStep, FixWalkStep, FixDetailsStep
           DEF GetVulnerabilities
    <2> QED
        BY <2>1, <2>2, <2>3 DEF Next
<1> QED
    BY <1>1, FixInit, PTL DEF Spec

\* A version in a range whose last event alone names a fix is below that fix.
LEMMA BelowTheOnlyFix ==
    ASSUME NEW c \in Comparers, NEW v \in Versions, NEW events \in Seq(Event),
           InOrder(c, v, events), InRange(c, v, events, Len(events)),
           events # <<>>, events[Len(events)].fixed # None
    PROVE  Below(c, v, events[Len(events)].fixed)
<1> DEFINE n == Len(events)
           fix == events[n].fixed
           E(i) == Ends(c, events[i])
           r == Rank[c][v]
<1>1. n \in DOMAIN events /\ n \in Nat /\ events[n] \in Event
    OBVIOUS
<1>2. fix \in Versions /\ fix # Zero
    BY <1>1, NamesAssumption DEF Event
<1>3. Rank[c][fix] # 0 /\ Rank[c][fix] \in Nat /\ r # 0 /\ r \in Nat
    BY <1>1, <1>2, RankAssumption DEF InOrder
<1>4. Rank[c][fix] \in E(n)
    BY <1>2 DEF Ends
<1>5. \A i \in 1 .. n : \A j \in i .. n : \A x \in E(i), y \in E(j) : i # j => x <= y
    BY DEF InOrder
<1>6. \A i \in 1 .. n : E(i) \subseteq Nat
    <2> SUFFICES ASSUME NEW i \in 1 .. n PROVE E(i) \subseteq Nat
        OBVIOUS
    <2>1. events[i] \in Event
        OBVIOUS
    <2> QED
        BY <2>1, RankAssumption DEF Ends, Event
<1>7. PICK i \in 1 .. n : \/ \A j \in i .. n : E(j) = {}
                          \/ \E j \in i .. n : E(j) # {} /\ \A x \in E(j) : r < x
    BY DEF InRange
<1> HIDE DEF fix, E, r
<1>8. n \in i .. n
    BY <1>1
<1>9. PICK j \in i .. n : E(j) # {} /\ \A x \in E(j) : r < x
    BY <1>4, <1>7, <1>8
<1>10. r < Rank[c][fix]
    <2>1. CASE j = n
        BY <1>4, <1>9, <2>1
    <2>2. CASE j # n
        <3>1. PICK x \in E(j) : r < x
            BY <1>9
        <3>2. j \in 1 .. n /\ n \in j .. n
            BY <1>1
        <3>3. x <= Rank[c][fix] /\ x \in Nat
            BY <1>4, <1>5, <1>6, <2>2, <3>1, <3>2
        <3> QED
            BY <1>3, <3>1, <3>3
    <2> QED
        BY <2>1, <2>2
<1> QED
    BY <1>3, <1>10 DEF Below, fix, r

(***************************************************************************)
(* The fix a policy is told is named for the package by a revision of the  *)
(* record, and by the one that matched if the record is left alone; where  *)
(* that one names no other, the version asked about is below it            *)
(* (osvdb.go:102, FindFixedVersion in osvparser/parser.go).                *)
(***************************************************************************)
THEOREM FixesAreNamed == Spec => []FixesAreOfTheReport
<1>1. FixInv => FixesAreOfTheReport
    <2> SUFFICES ASSUME FixInv, lookup.pc = "done", NEW row \in lookup.matched
                 PROVE  LET fix == Record(row).fixedIn
                            eco == lookup.query.eco
                            NamedBy(r) ==
                                \E p \in FixPlaces(Entries(row.osv, r, eco), Content[row.osv][r].affected) :
                                    fix = FixAt(Content[row.osv][r].affected, p)
                            range == Content[row.osv][row.rev].affected[row.aff].ranges[1]
                        IN  fix # None =>
                            /\ \E r \in DOMAIN Content[row.osv] : NamedBy(r)
                            /\ row.osv \in quiet =>
                                /\ NamedBy(row.rev)
                                /\ OneFix(row, eco) /\ WellFormed(lookup.query, range) =>
                                    Below(ComparerFor(range.type, eco), lookup.query.version, fix)
        BY DEF FixesAreOfTheReport, FixAt
    <2> DEFINE q == lookup.query
               eco == q.eco
               fix == Record(row).fixedIn
               NamedBy(r) == \E p \in FixPlaces(Entries(row.osv, r, eco), Content[row.osv][r].affected) :
                                fix = FixAt(Content[row.osv][r].affected, p)
               read == {d \in {d \in lookup.details : d.osv = row.osv} : d.rev # 0}
               d == CHOOSE d \in read : TRUE
               affected == Content[row.osv][row.rev].affected
               range == affected[row.aff].ranges[1]
               c == ComparerFor(range.type, eco)
    <2> SUFFICES ASSUME fix # None
                 PROVE  /\ \E r \in DOMAIN Content[row.osv] : NamedBy(r)
                        /\ row.osv \in quiet =>
                            /\ NamedBy(row.rev)
                            /\ OneFix(row, eco) /\ WellFormed(q, range) => Below(c, q.version, fix)
        OBVIOUS
    <2>1. MatchOK(row, q, indexed) /\ lookup \in Lookup /\ q \in Query
        BY DEF FixInv, LookupInv, RowsInv, TypeOK
    <2>2. row.osv \in Osv /\ row.rev \in DOMAIN Content[row.osv] /\ row.aff \in Entries(row.osv, row.rev, eco)
        BY <2>1 DEF MatchOK, RowOK, IndexRows
    <2>3. read # {} /\ fix = FindFixedVersion(row.osv, d.rev, eco)
        BY DEF Record
    <2>4. d \in lookup.details /\ d.osv = row.osv /\ d.rev # 0
        BY <2>3
    <2>5. /\ d.rev \in DOMAIN Content[row.osv]
          /\ row.osv \in quiet => d.rev = row.rev
          /\ q.version \in Versions
        <3>1. q.version # None
            BY <2>4 DEF FixInv, DetailsInv
        <3>2. row.osv \in quiet => vulns[row.osv].rev = row.rev
            BY DEF FixInv, DetailsInv, Holds
        <3>3. /\ d.rev \in DOMAIN Content[row.osv]
              /\ row.osv \in quiet => vulns[row.osv].rev = d.rev
            BY <2>4 DEF FixInv, DetailsInv
        <3> QED
            BY <2>1, <3>1, <3>2, <3>3 DEF Query
    <2> HIDE DEF d
    <2>6. NamedBy(d.rev)
        <3> DEFINE entries == Entries(row.osv, d.rev, eco)
                   aff == Content[row.osv][d.rev].affected
        <3>1. entries \in SUBSET Nat /\ \A a \in entries : aff[a].ranges \in Seq(AffectedRange)
            BY <2>2, <2>5, ContentType
        <3>2. fix = FirstFix(entries, aff)
            BY <2>3 DEF FindFixedVersion
        <3> HIDE DEF entries, aff, fix
        <3>3. \E p \in FixPlaces(entries, aff) : fix = FixAt(aff, p)
            BY <3>1, <3>2, FirstFixIsNamed
        <3> QED
            BY <3>3 DEF entries, aff
    <2>7. ASSUME row.osv \in quiet, OneFix(row, eco), WellFormed(q, range)
          PROVE  Below(c, q.version, fix)
        <3> DEFINE events == range.events
        <3>1. /\ Entries(row.osv, row.rev, eco) = {row.aff}
              /\ affected[row.aff].versions = {} /\ Len(affected[row.aff].ranges) = 1
              /\ FixPlaces({row.aff}, affected) = {<<row.aff, 1, Len(events)>>}
            BY <2>7 DEF OneFix
        <3>2. affected[row.aff].ranges \in Seq(AffectedRange)
            BY <2>2, ContentType
        <3>3. DOMAIN affected[row.aff].ranges = {1} /\ range \in AffectedRange
            BY <3>1, <3>2
        <3>4. events \in Seq(Event) /\ c \in Comparers
            BY <3>3 DEF AffectedRange, ComparerFor, Comparers
        <3>5. fix = events[Len(events)].fixed
            <4>1. NamedBy(row.rev)
                BY <2>5, <2>6, <2>7
            <4> HIDE DEF fix
            <4>2. fix = FixAt(affected, <<row.aff, 1, Len(events)>>)
                BY <3>1, <4>1
            <4> QED
                BY <4>2 DEF FixAt
        <3>6. EntryAffects(q, affected[row.aff])
            BY <2>1, <2>7, <3>3 DEF MatchOK, EntryWellFormed, AffOf
        <3>7. RangeAffects(q, range)
            BY <2>5, <3>1, <3>3, <3>6, NamesAssumption DEF EntryAffects, Names
        <3>8. InRange(c, q.version, events, Len(events)) /\ range.type # "GIT"
            BY <3>7 DEF RangeAffects
        <3>9. InOrder(c, q.version, events)
            BY <2>5, <2>7, <3>8, NamesAssumption DEF WellFormed
        <3>10. events # <<>>
            BY <3>4, <3>8, NoEvent
        <3> HIDE DEF events, c, fix
        <3> QED
            BY <2>5, <3>4, <3>5, <3>8, <3>9, <3>10, BelowTheOnlyFix
    <2> QED
        BY <2>5, <2>6, <2>7
<1> QED
    BY <1>1, DetailsInvariance, PTL
=============================================================================
