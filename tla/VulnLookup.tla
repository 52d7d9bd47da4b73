------------------------------ MODULE VulnLookup ------------------------------
(***************************************************************************)
(* The lookup the proxy makes for one version of one package, for a policy *)
(* (internal/vulndb/osvdb.go) or at the lookup endpoint (handleLookup in   *)
(* internal/proxy/server.go), while a sync replaces the records it reads.  *)
(* The store is VulnStore with Content giving what a revision of a record  *)
(* says; its reads are statements outside any transaction, and the events  *)
(* of a range are walked one per step.                                     *)
(*                                                                         *)
(* A version is compared by its rank in the order of a comparer; how the   *)
(* libraries behind vercmp parse and order versions is external, and rank  *)
(* 0 is a version the comparer cannot parse.                               *)
(***************************************************************************)
EXTENDS VulnStore, Sequences

CONSTANTS
    Versions,
    None,           \* an event's empty field, or no version asked for
    Zero,           \* the string "0"
    Package,        \* the name of the package looked up
    Lookups,        \* the ecosystems it is looked up for, as the proxy names them
    Callers,        \* who looks it up
    Content,        \* what revision r of record v says: Content[v][r]
    Rank,           \* a version's place in the order of a comparer, 0 if none
    Text,           \* its place among the strings
    MaxUpserts,     \* bound on the syncs
    MaxReadFaults   \* bound on the statements of a lookup that fail

Comparers == {"semver", "pep440", "maven"}
Ecosystems == {"npm", "pypi", "go", "maven"}
Types == {"SEMVER", "ECOSYSTEM", "GIT"}
Levels == 0 .. 4        \* "", low, medium, high, critical

\* One entry of a range; the parser lets several of its fields be set.
Event == [introduced : Versions \cup {Zero, None},
          fixed : Versions \cup {None},
          lastAffected : Versions \cup {None}]
AffectedRange == [type : Types, events : Seq(Event)]
Affected == [ecosystem : STRING, package : STRING, versions : SUBSET Versions,
             severities : SUBSET Levels, ranges : Seq(AffectedRange)]
Vulnerability == [malicious : BOOLEAN, severities : SUBSET Levels,
                  affected : Seq(Affected)]

ASSUME ContentAssumption == Content \in [Osv -> Seq(Vulnerability)]
ASSUME NamesAssumption == /\ None \notin Versions /\ Zero \notin Versions
                          /\ None # Zero /\ None \notin Osv
ASSUME RankAssumption == /\ Rank \in [Comparers -> [Versions -> Nat]]
                         /\ Text \in [Versions -> Nat]
ASSUME LookupsAssumption == Lookups \subseteq Ecosystems /\ Callers \subseteq {"policy", "endpoint"}
ASSUME BoundAssumption == MaxUpserts \in Nat /\ MaxReadFaults \in Nat

VARIABLES
    job,        \* the sync of one record: its id and revision in memory
    lookup,     \* GetVulnerabilities: its local variables
    faults,     \* read faults so far
    indexed,    \* ghost: every index row there was since the lookup began
    quiet       \* ghost: the records with no transaction since then

vars == <<storeVars, job, lookup, faults, indexed, quiet>>

-----------------------------------------------------------------------------
(* Comparing versions *)

\* A range without an order of its own goes by the ecosystem's, by its OSV name.
ComparerFor(type, eco) ==
    IF type # "SEMVER" /\ eco = "Maven" THEN "maven"
    ELSE IF type # "SEMVER" /\ eco = "PyPI" THEN "pep440"
    ELSE "semver"

\* Is a below b?  Strings are compared when either cannot be parsed.
Below(c, a, b) ==
    IF Rank[c][a] # 0 /\ Rank[c][b] # 0 THEN Rank[c][a] < Rank[c][b]
                                        ELSE Text[a] < Text[b]

Opens(c, v, e) == /\ e.introduced # None
                  /\ e.introduced # Zero => ~Below(c, v, e.introduced)

\* Mutant of Closes: the fixed version is still affected.
ClosesPastFixed(c, v, e) ==
    \/ e.fixed # None /\ Below(c, e.fixed, v)
    \/ e.lastAffected # None /\ Below(c, e.lastAffected, v)

Closes(c, v, e) ==
    \/ e.fixed # None /\ ~Below(c, v, e.fixed)
    \/ e.lastAffected # None /\ Below(c, e.lastAffected, v)

-----------------------------------------------------------------------------
(* What the index holds of a record *)

ComputeMaxSeverity(severities) == Max(severities \cup {0})

Severity(v, r, a) ==
    LET aff == Content[v][r].affected[a]
    IN  ComputeMaxSeverity(IF aff.severities # {} THEN aff.severities
                                                  ELSE Content[v][r].severities)

\* The proxy's ecosystem, and its name in OSV records.
MapEcosystem(asked) ==
    IF asked = "pypi" THEN "PyPI" ELSE IF asked = "go" THEN "Go" ELSE asked
MapLookupEcosystem(asked) == IF asked = "maven" THEN "Maven" ELSE MapEcosystem(asked)

OsvName(caller, asked) ==
    IF caller = "policy" THEN MapEcosystem(asked) ELSE MapLookupEcosystem(asked)

\* The entries of a record about the package.
Entries(v, r, eco) == {a \in DOMAIN Content[v][r].affected :
                         /\ Content[v][r].affected[a].ecosystem = eco
                         /\ Content[v][r].affected[a].package = Package}

\* What the lookup asks the store for; the endpoint may ask for no version.
Query == [eco : {OsvName(c, e) : c \in {"policy", "endpoint"}, e \in Ecosystems},
          version : Versions \cup {None}]

Names(q, aff) == q.version = None \/ q.version \in aff.versions

\* The index rows of the package that name a version, and those with a range:
\* entry aff of a record, and the number of the range or 0.  The row of an entry
\* with neither is in neither query, unless no version is asked for: then every
\* row of an entry is returned, and counts as one here.
ExactRows(ix, q) ==
    UNION {{[osv |-> x.osv, rev |-> x.rev, aff |-> a, rng |-> 0] :
              a \in {a \in Entries(x.osv, x.rev, q.eco) :
                       Names(q, Content[x.osv][x.rev].affected[a])}} : x \in ix}

RangeRows(ix, q) ==
    UNION {UNION {{[osv |-> x.osv, rev |-> x.rev, aff |-> a, rng |-> n] :
                     n \in DOMAIN Content[x.osv][x.rev].affected[a].ranges} :
                    a \in Entries(x.osv, x.rev, q.eco)} : x \in ix}

RangeOf(row) == Content[row.osv][row.rev].affected[row.aff].ranges[row.rng]

-----------------------------------------------------------------------------
(* The sync of one record *)

NoJob == [osv |-> None, rev |-> 0, id |-> 0]

Init ==
    /\ StoreInit
    /\ job = NoJob
    /\ lookup = [pc |-> "idle", caller |-> None, asked |-> None, query |-> None, exact |-> {}, ranges |-> {},
                 row |-> None, pos |-> 0, introduced |-> FALSE,
                 matched |-> {}, details |-> {}]
    /\ faults = 0
    /\ indexed = {} /\ quiet = {}

Touch(v) == /\ indexed' = indexed \cup index'
            /\ quiet' = quiet \ {v}

\* Mutant of Upsert: a record that could not be parsed is stored empty.
UpsertEmpty(v) ==
    /\ job = NoJob /\ nextId <= MaxUpserts
    /\ \E r \in DOMAIN Content[v] \cup {0} :
         /\ UpsertBatch({v}, [x \in {v} |-> r], [x \in {v} |-> nextId])
         /\ job' = [osv |-> v, rev |-> r, id |-> nextId]
    /\ Touch(v)
    /\ UNCHANGED <<lookup, faults>>

\* BulkUpsertVulnerabilities for one record, at any revision: a full sync can
\* store an older one than a delta did.
Upsert(v) ==
    /\ job = NoJob /\ nextId <= MaxUpserts
    /\ \E r \in DOMAIN Content[v] :
         /\ UpsertBatch({v}, [x \in {v} |-> r], [x \in {v} |-> nextId])
         /\ job' = [osv |-> v, rev |-> r, id |-> nextId]
    /\ Touch(v)
    /\ UNCHANGED <<lookup, faults>>

Rebuild(v) ==
    /\ job.osv = v
    /\ BulkRebuildPackageIndex({v}, [x \in {v} |-> job.rev], [x \in {v} |-> job.id])
    /\ job' = NoJob
    /\ Touch(v)
    /\ UNCHANGED <<lookup, faults>>

\* The rebuild failed: the error is logged, the row stays without index rows.
RebuildFails ==
    /\ job # NoJob
    /\ job' = NoJob
    /\ UNCHANGED <<storeVars, lookup, faults, indexed, quiet>>

-----------------------------------------------------------------------------
(* GetVulnerabilities and handleLookup *)

Seen == {row.osv : row \in lookup.matched}

\* A step of the lookup that changes none of the tables.
Local == UNCHANGED <<storeVars, job, indexed, quiet>>

Start(caller, e, v) ==
    /\ lookup.pc \in {"idle", "done", "failed"}
    /\ v = None => caller = "endpoint"
    /\ lookup' = [pc |-> IF v = None THEN "all" ELSE "exact", caller |-> caller, asked |-> e,
                  query |-> [eco |-> OsvName(caller, e), version |-> v],
                  exact |-> {}, ranges |-> {}, row |-> None, pos |-> 0,
                  introduced |-> FALSE, matched |-> {}, details |-> {}]
    /\ indexed' = index /\ quiet' = Osv
    /\ UNCHANGED <<storeVars, job, faults>>

\* Without a version the endpoint takes every row of the package, in one read.
ReadAll ==
    /\ lookup.pc = "all"
    /\ lookup' = [lookup EXCEPT !.pc = "rows",
                                !.exact = ExactRows(index, lookup.query)]
    /\ UNCHANGED faults
    /\ Local

ReadExact ==
    /\ lookup.pc = "exact"
    /\ lookup' = [lookup EXCEPT !.pc = "ranges",
                                !.exact = ExactRows(index, lookup.query)]
    /\ UNCHANGED faults
    /\ Local

\* Mutant of ReadRanges: it falls back to ranges only if no exact row matched.
ReadRangesIfNone ==
    /\ lookup.pc = "ranges"
    /\ lookup' = [lookup EXCEPT !.pc = "rows",
                                !.ranges = IF lookup.exact = {} THEN RangeRows(index, lookup.query) ELSE {}]
    /\ UNCHANGED faults
    /\ Local

ReadRanges ==
    /\ lookup.pc = "ranges"
    /\ lookup' = [lookup EXCEPT !.pc = "rows", !.ranges = RangeRows(index, lookup.query)]
    /\ UNCHANGED faults
    /\ Local

\* Either read fails: the store may still return the exact rows, but the
\* lookup returns only the error.
ReadFails ==
    /\ lookup.pc \in {"all", "exact", "ranges"}
    /\ faults < MaxReadFaults
    /\ faults' = faults + 1
    /\ lookup' = [lookup EXCEPT !.pc = "failed", !.exact = {}]
    /\ Local

\* The exact rows come first; a row whose record was matched is passed over.
ExactRow ==
    /\ lookup.pc = "rows"
    /\ \E row \in lookup.exact :
         lookup' = [lookup EXCEPT !.exact = @ \ {row},
                                  !.matched = IF row.osv \in Seen THEN @ ELSE @ \cup {row}]
    /\ UNCHANGED faults
    /\ Local

RangeRow ==
    /\ lookup.pc = "rows" /\ lookup.exact = {}
    /\ \E row \in lookup.ranges :
         lookup' = IF row.osv \in Seen \/ RangeOf(row).type = "GIT"
                   THEN [lookup EXCEPT !.ranges = @ \ {row}]
                   ELSE [lookup EXCEPT !.pc = "events", !.ranges = @ \ {row},
                                       !.row = row, !.pos = 1, !.introduced = FALSE]
    /\ UNCHANGED faults
    /\ Local

\* VersionMatchesConstraint: one event of the range.
Walk ==
    LET range == RangeOf(lookup.row)
        c == ComparerFor(range.type, lookup.query.eco)
        v == lookup.query.version
        e == range.events[lookup.pos]
    IN  /\ lookup.pc = "events" /\ lookup.pos <= Len(range.events)
        /\ lookup' = [lookup EXCEPT
                        !.pos = @ + 1,
                        !.introduced = (@ \/ Opens(c, v, e))
                                       /\ ~Closes(c, v, e)]
        /\ UNCHANGED faults
        /\ Local

Walked ==
    /\ lookup.pc = "events" /\ lookup.pos > Len(RangeOf(lookup.row).events)
    /\ lookup' = [lookup EXCEPT
                    !.pc = "rows", !.row = None, !.pos = 0, !.introduced = FALSE,
                    !.matched = IF lookup.introduced THEN @ \cup {lookup.row} ELSE @]
    /\ UNCHANGED faults
    /\ Local

\* The endpoint answers with the rows that matched, and so does a lookup that
\* matched none.
Answer ==
    /\ lookup.pc = "rows" /\ lookup.exact = {} /\ lookup.ranges = {}
    /\ lookup.caller = "endpoint" \/ Seen = {}
    /\ lookup' = [lookup EXCEPT !.pc = "done"]
    /\ UNCHANGED faults
    /\ Local

\* A policy's records are loaded for their summary and fix: first their rows,
\* then what hangs on the ids of these rows.
ReadRecords ==
    /\ lookup.pc = "rows" /\ lookup.exact = {} /\ lookup.ranges = {}
    /\ lookup.caller = "policy" /\ Seen # {}
    /\ lookup' = [lookup EXCEPT
                    !.pc = "details",
                    !.details = {[osv |-> o, id |-> vulns[o].id, rev |-> vulns[o].rev] :
                                   o \in {o \in Seen : Stored(o)}}]
    /\ UNCHANGED faults
    /\ Local

\* A record that was replaced in between is left without its entries.
ReadEntries ==
    /\ lookup.pc = "details"
    /\ lookup' = [lookup EXCEPT
                    !.pc = "done",
                    !.details = {IF vulns[d.osv].id = d.id THEN d ELSE [d EXCEPT !.rev = 0] :
                                   d \in @}]
    /\ UNCHANGED faults
    /\ Local

\* If either fails the records are reported without a summary and a fix.
DetailsFail ==
    /\ \/ /\ lookup.pc = "rows" /\ lookup.exact = {} /\ lookup.ranges = {}
          /\ lookup.caller = "policy" /\ Seen # {}
       \/ lookup.pc = "details"
    /\ faults < MaxReadFaults
    /\ faults' = faults + 1
    /\ lookup' = [lookup EXCEPT !.pc = "done", !.details = {}]
    /\ Local

\* Where the entries of the package name a fix: the entry, the range, the event.
FixPlaces(entries, affected) ==
    UNION {UNION {{<<a, n, i>> :
                     i \in {i \in DOMAIN affected[a].ranges[n].events :
                              affected[a].ranges[n].events[i].fixed # None}} :
                    n \in DOMAIN affected[a].ranges} : a \in entries}

\* The first of them, in the order of the record.
FirstFix(entries, affected) ==
    LET places == FixPlaces(entries, affected)
        Before(p, q) == \/ p[1] < q[1]
                        \/ p[1] = q[1] /\ p[2] < q[2]
                        \/ p[1] = q[1] /\ p[2] = q[2] /\ p[3] < q[3]
    IN  IF places = {} THEN None
        ELSE LET p == CHOOSE p \in places : \A q \in places \ {p} : Before(p, q)
             IN  affected[p[1]].ranges[p[2]].events[p[3]].fixed

\* Mutant of FindFixedVersion: the name of the package is not compared.
FindFixedVersionOfAny(v, r, eco) ==
    LET affected == Content[v][r].affected
    IN  FirstFix({a \in DOMAIN affected : affected[a].ecosystem = eco}, affected)

FindFixedVersion(v, r, eco) == FirstFix(Entries(v, r, eco), Content[v][r].affected)

\* What is returned for a row that matched.
Record(row) ==
    LET loaded == {d \in lookup.details : d.osv = row.osv}
        read == {d \in loaded : d.rev # 0}
    IN  [osv |-> row.osv,
         severity |-> Severity(row.osv, row.rev, row.aff),
         malicious |-> Content[row.osv][row.rev].malicious,
         summary |-> loaded # {},
         fixedIn |-> IF read = {} THEN None
                     ELSE FindFixedVersion(row.osv, (CHOOSE d \in read : TRUE).rev, lookup.query.eco)]

Results == {Record(row) : row \in lookup.matched}

Sync == RebuildFails \/ \E v \in Osv : Upsert(v) \/ Rebuild(v)

GetVulnerabilities ==
    \/ \E c \in Callers, e \in Lookups, v \in Versions \cup {None} : Start(c, e, v)
    \/ ReadAll \/ ReadExact \/ ReadRanges \/ ReadFails
    \/ ExactRow \/ RangeRow \/ Walk \/ Walked
    \/ Answer \/ ReadRecords \/ ReadEntries \/ DetailsFail

Next == Sync \/ GetVulnerabilities

Spec == Init /\ [][Next]_vars

-----------------------------------------------------------------------------
(* Properties *)

IndexRows == [osv : Osv, rev : Nat, aff : Nat, rng : Nat]

\* A record as the lookup loads it: its row's id and revision, 0 without entries.
Detail == [osv : Osv, id : Nat, rev : Nat]

Lookup == [pc : {"idle", "all", "exact", "ranges", "rows", "events", "details", "done", "failed"},
           caller : {"policy", "endpoint", None},
           asked : Ecosystems \cup {None}, query : Query \cup {None},
           exact : SUBSET IndexRows, ranges : SUBSET IndexRows,
           row : IndexRows \cup {None}, pos : Nat, introduced : BOOLEAN,
           matched : SUBSET IndexRows, details : SUBSET Detail]

\* The types, and that what is indexed, or about to be, has a content.
TypeOK ==
    /\ vulns \in [Osv -> Row] /\ index \subseteq IndexRow /\ nextId \in Nat
    /\ job \in [osv : Osv \cup {None}, rev : Nat, id : Nat]
    /\ job # NoJob => job.osv \in Osv /\ job.rev \in DOMAIN Content[job.osv]
    /\ lookup \in Lookup /\ faults \in Nat
    /\ indexed \subseteq IndexRow /\ quiet \subseteq Osv
    /\ \A x \in index \cup indexed : x.rev \in DOMAIN Content[x.osv]

(***************************************************************************)
(* What a range means: the union of the intervals that start at an         *)
(* "introduced" and go to the first event after it that ends one.  Ends    *)
(* are exclusive: the rank of a fixed version, the one after a last        *)
(* affected version.                                                       *)
(***************************************************************************)
Ends(c, e) == {Rank[c][x] : x \in {e.fixed} \ {None}} \cup
              {Rank[c][x] + 1 : x \in {e.lastAffected} \ {None}}

StartsBelow(c, v, e) ==
    /\ e.introduced # None
    /\ e.introduced = Zero \/ Rank[c][e.introduced] <= Rank[c][v]

InRange(c, v, events, n) ==
    \E i \in 1 .. n :
        /\ StartsBelow(c, v, events[i])
        /\ \/ \A j \in i .. n : Ends(c, events[j]) = {}
           \/ \E j \in i .. n :
                /\ \A k \in i .. (j - 1) : Ends(c, events[k]) = {}
                /\ Ends(c, events[j]) # {}
                /\ \A x \in Ends(c, events[j]) : Rank[c][v] < x

\* The ranges of which this is said: every version in them parses, and the
\* intervals are listed in order.
InOrder(c, v, events) ==
    /\ Rank[c][v] # 0
    /\ \A i \in DOMAIN events :
         \A x \in {events[i].introduced, events[i].fixed, events[i].lastAffected}
                    \ {None, Zero} : Rank[c][x] # 0
    /\ \A i \in DOMAIN events : \A j \in i .. Len(events) :
         \A x \in Ends(c, events[i]), y \in Ends(c, events[j]) : i # j => x <= y

RangeAffects(q, range) ==
    /\ range.type # "GIT"
    /\ InRange(ComparerFor(range.type, q.eco), q.version, range.events, Len(range.events))

WellFormed(q, range) ==
    q.version # None /\ range.type # "GIT" => InOrder(ComparerFor(range.type, q.eco), q.version, range.events)

EntryAffects(q, aff) ==
    \/ Names(q, aff)
    \/ \E n \in DOMAIN aff.ranges : RangeAffects(q, aff.ranges[n])

EntryWellFormed(q, aff) == \A n \in DOMAIN aff.ranges : WellFormed(q, aff.ranges[n])

\* The record of an index row says, and clearly, that the query's version, or the
\* package if it has none, is affected.
Affects(q, x) ==
    \E a \in Entries(x.osv, x.rev, q.eco) :
        EntryAffects(q, Content[x.osv][x.rev].affected[a])

SaysClearly(q, x) ==
    \A a \in Entries(x.osv, x.rev, q.eco) :
        EntryWellFormed(q, Content[x.osv][x.rev].affected[a])

(***************************************************************************)
(* A record is missed only because of a sync or of a failed read: a lookup *)
(* that returns has found every record whose index rows say that its       *)
(* version is affected and that no transaction touched meanwhile, even if  *)
(* the details could not be read.                                          *)
(***************************************************************************)
FindsAll(q) ==
    \A x \in index : x.osv \in quiet /\ Affects(q, x) /\ SaysClearly(q, x) => x.osv \in Seen

QuietRecordsAreFound == lookup.pc = "done" => FindsAll(lookup.query)

(***************************************************************************)
(* The same with the ecosystem's name in OSV records: what is known of a   *)
(* package reaches the policy whichever ecosystem it is from.  It does not *)
(* for Maven, whose name mapEcosystem passes on as it is (osvdb.go:129).   *)
(***************************************************************************)
EveryEcosystemIsLookedUp ==
    lookup.pc = "done" =>
        FindsAll([lookup.query EXCEPT !.eco = MapLookupEcosystem(lookup.asked)])

(***************************************************************************)
(* Nothing is reported that is not so: whatever is replaced between its    *)
(* reads, a lookup reports a record with what one revision indexed in the  *)
(* meantime says, the severity of an entry that affects the version and    *)
(* the malicious flag beside it.                                           *)
(***************************************************************************)
ReportsAreTrue ==
    lookup.pc = "done" =>
        \A res \in Results : \E x \in indexed :
            /\ x.osv = res.osv
            /\ res.malicious = Content[x.osv][x.rev].malicious
            /\ \E a \in Entries(x.osv, x.rev, lookup.query.eco) :
                 /\ res.severity = Severity(x.osv, x.rev, a)
                 /\ EntryWellFormed(lookup.query, Content[x.osv][x.rev].affected[a]) =>
                    EntryAffects(lookup.query, Content[x.osv][x.rev].affected[a])

\* The record names one fix for the package, that ends its only range.
OneFix(row, eco) ==
    LET affected == Content[row.osv][row.rev].affected
        range == affected[row.aff].ranges[1]
    IN  /\ Entries(row.osv, row.rev, eco) = {row.aff}
        /\ affected[row.aff].versions = {} /\ Len(affected[row.aff].ranges) = 1
        /\ FixPlaces({row.aff}, affected) = {<<row.aff, 1, Len(range.events)>>}

(***************************************************************************)
(* The version a policy is told as the fix is one that some revision of    *)
(* the record names for the package, and for a record left alone the one   *)
(* that matched; if that revision names one only, to go there is to leave  *)
(* the affected versions.                                                  *)
(***************************************************************************)
FixesAreOfTheReport ==
    lookup.pc = "done" => \A row \in lookup.matched :
        LET fix == Record(row).fixedIn
            eco == lookup.query.eco
            NamedBy(r) ==
                \E p \in FixPlaces(Entries(row.osv, r, eco), Content[row.osv][r].affected) :
                    fix = Content[row.osv][r].affected[p[1]].ranges[p[2]].events[p[3]].fixed
            range == Content[row.osv][row.rev].affected[row.aff].ranges[1]
        IN  fix # None =>
            /\ \E r \in DOMAIN Content[row.osv] : NamedBy(r)
            /\ row.osv \in quiet =>
                /\ NamedBy(row.rev)
                /\ OneFix(row, eco) /\ WellFormed(lookup.query, range) =>
                    Below(ComparerFor(range.type, eco), lookup.query.version, fix)
=============================================================================
