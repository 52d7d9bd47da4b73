# Dependency Guardian: a TLA+ verification development

Dependency Guardian is a proxy between package managers (npm, pip, go, mvn) and
their registries. It answers metadata requests with only the versions that its
Rego policy allows, and feeds the policy from a local mirror of the OSV
vulnerability database that background jobs keep current. A VS Code extension
starts such a proxy, watches it and shows what it decided.

The modules in this directory model the program's own logic. TLC checks them on
small instances; TLAPS proves the theorems for every value of the constants.
Every definition is translated from the Go and TypeScript sources, and
`PROJECT.json` gives the lines it stands for.

## 1. Inventory

| part | source | state it keeps | operations | modules |
|---|---|---|---|---|
| OSV mirror | `internal/vulndb/sync` | memory of each job, one sync-state row per ecosystem | `SeedAll`, `SeedEcosystem`, `DeltaSync`, `UpdateAllMetrics`, the scheduler's loops | `OsvSync`, `OsvSyncInv`, `FeedMirror` |
| Store | `internal/vulndb/dal`, `models`, `database` | tables of vulnerabilities, package index, sync states | batch upsert, index rebuild, reads by package | `VulnStore` |
| Lookup | `internal/vulndb/osvdb.go`, `handleLookup` of `server.go` | none across calls | `GetVulnerabilities`, `/api/lookup` | `VulnLookup` |
| Policy engine | `internal/policy` | compiled policy behind a read-write lock | `Reload`, `Evaluate` | `PolicyEngine` |
| Metadata handlers | `internal/handler/*` | one document per request | filter a list of versions, answer for one | `MetadataFilter` |
| Rewrite engine | `internal/rewrite`, `internal/vercmp` | rules, read only | `Apply`, `ApplyWithAvailable` | `Rewrite`, `RewriteCalls` |
| Decision log | `internal/decisions` | ring of entries, counters | `Record`, the two read endpoints | `DecisionLog` |
| Extension | `vscode-extension/src` | child process, timers, views | start, stop, clear, poll, close | `VsCodeExtension` |
| POM inspection | `internal/handler/maven/pom.go`, `handlePom` | one POM per request | parents, properties, substitution, evaluation of dependencies | `PomInspection` |
| Server | `internal/proxy/server.go`, `ServeHTTP` of the handlers | the request being routed | routes, detection of the ecosystem, policy reload | `ProxyServer` |
| Configuration, upstream client, `default.rego`, rendering in the extension | `internal/config`, `internal/handler/upstream`, `policies` | none after startup | | constants of the modules, or not modelled (section 8) |

How they interact. The server sends a request to the handler of its ecosystem,
by prefix or by what its headers tell of the client. Requests call the lookup, then the policy, once per version,
and record the verdict in the decision log. The lookup reads the tables that the
mirror's jobs write, in three statements with no transaction around them. The
reload endpoint replaces the policy while requests run. The extension talks to
the proxy over HTTP only, and to its process through spawn, kill and exit events.

What is hard about it:

- **the mirror's jobs overlap.** Nothing keeps the startup seed, the full-sync
  loop, the delta loop and the metrics loop apart: they write the same rows and
  save whole sync-state rows from copies they read long before. A record's
  upsert and the rebuild of its index are two transactions. The process may die
  between any two.
- **failures go on.** A failed upsert is logged and the job rebuilds the index
  with the identifiers that the rolled-back insert left in memory; a failed fetch
  is skipped; a failed lookup means "no vulnerabilities".
- **verdicts change during a request.** A document with many versions is
  evaluated version by version while policy and mirror change.
- **maps are changed while they are walked.** npm and PyPI delete versions from
  the map they range over, and the rewrite check reads that map.
- **range events are a small program.** One flag is carried through the events
  of a range, which may be reopened, unsorted or unparsable.
- **every request must find its filter.** A document that its handler does not know,
  or a client taken for another's, gets an unfiltered list.
- **a POM is a recursive thing.** Parents may be cyclic or missing, properties refer to
  each other, and both walks are cut at a depth.
- **the extension has no queue.** Polls are not waited for, exit events arrive
  late, a second start overwrites the only handle on the first process.

What makes each part correct, in the words of its properties, is in section 4.

## 2. Plan

In order of what matters most; sections 3 to 5 say what is done.

1. Mirror and store (`VulnStore`, `OsvSync`): index, status, cursor; refinement of
   `FeedMirror`; inductive invariants proved. *Done.*
2. Lookup over those tables (`VulnLookup`), with the range walk against a
   reference definition. *Done, proved.*
3. Policy engine and handlers (`PolicyEngine`, `MetadataFilter`). *Done, proved.*
4. Rewrite rules over parsed versions (`Rewrite`, `RewriteCalls`). *Done, proved.*
5. Decision log and extension (`DecisionLog`, `VsCodeExtension`). *Done, safety proved.*
6. POM inspection (`PomInspection`) and the server that composes it with the filters
   (`ProxyServer`). *Done, safety proved.*
7. The cursor, with fetches that fail (`OsvSyncInv`), and the refinement of a
   `FeedMirror` that may give records up. *Both proved, but for the fairness.*
8. The lookup endpoint and the version named as the fix (`VulnLookup`). *Done, proved.*

Worth doing next: the lookup cache and the manifest parsers of the extension; the
counters of the decision log.

## 3. The modules and the code

**`VulnStore`** is the tables: `vulns[v]` is the row of record `v` (identifier and
revision, 0 when there is none), `index` the index rows (which identifier they
carry, and of which record and revision they were built). One action per
transaction: `UpsertBatch` and `RollBackBatch` (`BulkUpsertVulnerabilities`, which
deletes the rows it replaces, inserts new ones and writes the new identifiers
into the caller's records before it is known whether the transaction commits),
and `BulkRebuildPackageIndex`. Transactions are serial: SQLite is opened with one
connection (`database.go`), and on PostgreSQL two upserts of one record collide
on its unique key, which is a rolled-back transaction, the fault `upsert`.
`RollbackFreesIds` says whether a rollback gives identifiers back (SQLite) or not
(PostgreSQL).

**`OsvSync`** is the jobs over that store, one action per statement, transaction or
download. `job[j].pc` is the place in the function, the other fields are its local
variables; `Advance` is a loop over batches. `SeedBegin` takes a slot of the worker
pool. `ReadState` and `CreateState` are `GetOrCreateSyncState`, a read and then an
insert that fails if another job was first. `UpdateSyncState` saves the whole row.
`DeltaFilter`, `DeltaFetch`, `DeltaUpsert`, `DeltaIndex` and `DeltaSave` are
`DeltaSync` and `applyDeltaForEcosystem`. `Crash` loses all memory and keeps the
tables; cancelling a context happens only when the process ends and is the same.
osv.dev is `published`: the revision it serves of each record. That its zip, csv
and record files agree with each other is an assumption about that service.
A record's home is its SourceEcosystem column: the csv of another ecosystem may
name it too, as osv.dev's do.

**`FeedMirror`** is the abstract promise of a mirror: each record's stored revision
was published and only moves forward (`Move`). Of each feed at most `MaxGiven` records
are given up (`GiveUp`, which replaces the records given up so far), until they change;
every other record is moved in the end (`CatchUp`). `OsvSync!FeedSpec` is that
specification with `stored` mapped to the revisions in the table, a feed to an ecosystem,
`given[e]` to the records of `e` that its cursor has passed without their being stored,
and `MaxGiven` to the number of fetches that may fail. A save of an old row moves the
cursor back and takes records up again; an upsert is a `Move` of the records of its batch
that it changes.

**`VulnLookup`** extends `VulnStore` with one job of the mirror and one lookup
after another, of a policy or of the endpoint (`Callers`), which may ask without a
version (`ReadAll`) and has its own names of the ecosystems (`OsvName`). It takes a
step per query and per range event: `ReadExact`, `ReadRanges`, then `ReadRecords` and
`ReadEntries`, which preload the details in statements of their own, and `Answer`,
where `FindFixedVersion` names the first fix of the package; between them `ExactRow`, `RangeRow`, `Walk`, `Walked`. `Opens` and
`Closes` are the two arms of the loop in `isAffected`. A version is a rank per
comparer, and `Text` orders versions that a comparer cannot parse. `InRange` and
`EntryAffects` are the reference: which versions a record affects, by the OSV
schema's reading of sorted events.

**`PolicyEngine`** is the read-write lock and the two fields behind it: `ReadFile`
(the directory walk, one file a step, while `Edit` changes it), `Compile`, `Lock`
(waits for readers), `Install`; `StartEval` and `EndEval` are the read-locked
evaluation. A policy is the revision of each file, `Compiling` the set of those
that compile.

**`MetadataFilter`** is a request of one of six kinds: npm packument, PyPI JSON,
Maven metadata, Go list, `@latest` and `.info`. `FetchList` and `FetchOne` are the
registry's answer; `Lookup` and `Evaluate` are the two halves of `EvaluateVersion`
(the policy can be replaced between them; the evaluation itself is one step
because `PolicyEngine` shows that nothing changes under it); `Remove` is a version
that is rewritten; `CleanTags` what becomes of dist-tags, `info.version` and
Maven's latest and release. Maven and the Go list decide what is rewritten before
they evaluate (`ToVisit`), npm and PyPI while they walk (`Skips`).

**`PomInspection`** is `handlePom`: `ParentFetched`, `ParentFails` and `ParentsDone` are
the walk to the ancestors, outermost first in `chain`; `CollectProperties` merges their
properties, `ResolveVersion` is the rounds of substitution, `Resolve` lists a dependency
when its version is known, `EvaluateDependency` records it. A text is a sequence of
literals and references. `Definition` and `Meaning` are the reference: the nearest
definition of a name, unfolded through all ancestors to any depth.

**`ProxyServer`** extends both with what carries a request to them: `Receive` and `Route`
are the routes and `DetectEcosystem`, `ServeHTTP` which document each handler filters,
`Filter`, `Pom` and `Answer` what becomes of it, `HandlePolicyReload` the endpoint behind
its token. A header is the set of words the code looks for. net/http serves requests
concurrently, but they share only the policy, the mirror and the log, all of which may
change between any two steps of the one request modelled.

**`Rewrite`** holds `rewrite.go` and the parsers of `vercmp.go` as operators. The
text of a version is what its parser tells apart: a "v", its numbers, a suffix.
`ParseVersion` and `Format` are what they do, not the identity: hashicorp's parser
pads to three numbers and drops a fourth, the other two read a third part only
when it is a plain number. **`RewriteCalls`** is an engine that is asked about
versions; `MCProxyServer` uses the same operators to give `MetadataFilter` its
`Target`.

**`DecisionLog`** is the ring as operators on one value, **`VsCodeExtension`** the
window around it: `up[p]` is the life of proxy process `p`, `process` and `told`
are the manager's handle and status, `poll[k]` a poll under way with the answers
it still waits for, `view` what is shown. `HealthOk` is one step because node
handles a signal only after the socket event at hand; a poll's answers come from
whichever process listens when they are taken.

## 4. What is checked

| run | module, config | what it asks |
|---|---|---|
| `sync_overlap` | `MCOsvSync`, `SyncOverlap.cfg` | `IndexDescribesRow`: an index row with the identifier of a stored row was built from that very row. `RowsIndexed`: a row without index is about to be indexed by a job that still can, unless a transaction failed or the process died. `SyncedMeansStored`: an ecosystem that claims "synced" or a full sync has a row for each record. One record, two seeds and the delta loop; any two of a failed fetch, a failed upsert, a failed rebuild and a crash. |
| `seed_ends` | `MCOsvSync`, `SeedEnds.cfg` | `SeedsEnd`: a scheduled seed gets its slot and ends. `SeedStores`: what was published when it was scheduled is stored, or something failed. Two ecosystems that share a record, one worker. |
| `delta_mirror` | `MCOsvSync`, `DeltaMirror.cfg` | `FeedSpec`: the delta loop implements `FeedMirror`, its fairness included. `CursorApplied`: what was published up to the cursor is stored. `MirrorConverges`: the mirror ends current and indexed. Each with at most as many exceptions as fetches failed. Two records, with the metrics loop; any two of a crash, a failed download, a failed fetch and a failed save. |
| `full_sync_lost` | `FullSyncLost.cfg` | finding: a delta saves the row it read before a seed completed, and takes the full sync back. |
| `rollback_ids` | `RollbackIds.cfg` | finding: on SQLite a rolled-back upsert leaves identifiers that another record or revision is then given. |
| `lookup_during_sync` | `MCVulnLookup`, `LookupDuringSync.cfg` | `QuietRecordsAreFound`: a record left alone during a lookup is found if an indexed revision clearly affects the version. `ReportsAreTrue`: what is reported is what one revision indexed meanwhile says. `FixesAreOfTheReport`: the version named as the fix is one of that record's for that package, and above the version asked for when the record has one branch. Two records, three transactions, four versions of which one does not parse, or none, two callers, one failed read. |
| `maven_lookup` | `MavenLookup.cfg` | finding: no Maven version is ever found vulnerable, the ecosystem's name is not translated. |
| `policy_reload` | `MCPolicyEngine`, `PolicyReload.cfg` | `EvalUsesOnePolicy`, `PolicyCompiles`, `SoloReloadInForce` (a reload that overlapped no other and said "reloaded" left the directory in force), `ReloadEnds`. Two reloads, two evaluators, two files, two edits. |
| `proxy_requests` | `MCProxyServer`, `ProxyRequests.cfg` | `ClientsFindTheirHandler`: a client set up as the README says reaches the handler of its ecosystem. Of the filters: `ServedWasAllowed`, `TagsAreServed`, `RecordMatchesAnswer`, `TargetReplacesSource`. Of POMs: `LineOfParents`, `EvaluatedAsMeant` (nothing is evaluated that the POM does not ask for), `ReachableAreEvaluated` (nothing within reach is forgotten, nothing recorded twice). `RequestsEnd`: every request is answered. |
| `pip_unfiltered` | `PipUnfiltered.cfg` | finding: what pip asks for is passed through unread. |
| `rewrite_calls` | `MCRewriteCalls`, `RewriteCalls.cfg` | `RewriteKeepsOrder`, `LineSnapsToOne`, `ReplacesJustOne`, `ClosestKeepsLine`, over pairs of versions of up to four numbers 0..1 with the prefixes and suffixes that an ecosystem and a strategy tell apart, and lists of up to two offered versions for each pinned target. |
| `extension_session` | `MCVsCodeExtension`, `ExtensionSession.cfg` | `RunningIsServed`, `NoneOrphaned`, `ViewsCatchUp`. Two processes, two polls under way, three decisions, one command that stops, clears or closes. |

Each property of a passing run has a mutant in `PROJECT.json`: a definition next
to the one it changes, with a mistake somebody could make there, that makes the
property fail.

### Bounds, and why they are enough

- *Mirror.* The hazards are between two writers of one row, so one record and one
  ecosystem show every interleaving of two seeds, a delta and a crash
  (`StartupTwice`: the second startup is the one after the crash); two records of
  one or two ecosystems are there where batches, the pool or the cursor matter.
  `MaxClock` bounds publications: at 2 a record changes once, at 3 it changes twice
  or two records change. `MaxFaults` is at most one of each kind and `MaxKinds` bounds
  how many kinds meet in one behaviour (7 is all of them). The seed's batches are
  one record, so that a seed of two records has two; the delta's batch is two.
- *Lookup.* Three transactions allow a record to be replaced and re-indexed between
  any two of the three reads. The contents cover listed versions, open and closed
  ranges, a reopened range, a last-affected end, GIT ranges and severities of
  record and entry.
- *Policy.* Two reloads are enough for every order of read, compile and install;
  an edit may not compile alone or not together with another file.
- *Handlers.* Requests share nothing but policy, mirror and log, so one request after
  another against two changes shows what many would; three versions are the least with
  one rewritten to another, one rewritten to a version that is not there and one left.
  One policy denies what has a vulnerability, the other cannot evaluate a version.
- *POMs.* Six, with parents two fetches deep of three: an ancestor out of reach, two
  definitions of one property, a POM that is its own parent, a parent with incomplete
  coordinates, references that refer to each other or are nested deeper than the two
  rounds. The code's ten and five change the numbers, not the cases.
- *Requests.* The documents and the headers of the package managers that the README
  sets up, with and without a prefix, the same through Artifactory with and without the
  type of its repository, and the pages of the proxy.
- *Rewriting.* What the code does with a number is compare, copy or zero it.
- *Extension.* Two processes are the least for an overlap or a restart; two polls
  the least that can overtake each other; a log of two entries wraps with three.

### Fairness

Safety runs use `Spec`. `FairSpec` of `OsvSync` has weak fairness of each job and of
the tickers: goroutines that can run do, and a ticker fires for as long as the
process lives. Faults and publications are never fair, only bounded, so
`MirrorConverges` is about what happens after the last of them. `PolicyEngine` needs
strong fairness for `Lock`: between two evaluations the lock is free again and again,
and Go's RWMutex blocks new readers once a writer waits and hands the lock over.
`VsCodeExtension` has weak fairness of ticks and of polls: `setInterval` fires, and
every HTTP request is answered or refused. Processes and commands are not fair.
`ProxyServer` has weak fairness of the work on a request: its goroutine runs on; the
policy's lock is taken inside one step, for which `ReloadEnds` and Go's RWMutex speak.
`seed_ends` and `extension_session`, where everything may be over, switch the check
for deadlock off, and so does `rewrite_calls`, whose bound on calls ends it.

## 5. What is proved

For any constants that meet the named assumptions: finitely many records and
ecosystems, positive batch sizes and workers, any number of requests, policies,
files, evaluators, polls and processes, any versions, rules and POMs.

- **Index** (`OsvIndex_proof`). `TypeCorrect`. `IndexRowsDescribeTheirRow`
  has the hypothesis `IdsUsedOnce`: identifiers of a rolled-back transaction are not
  given out again (PostgreSQL), or no upsert has failed. `IndexDescribesRow` alone is
  not inductive, because a rebuild trusts identifiers in memory; `IndexInv` adds that
  all identifiers are below the counter, no two rows share one, and a job that holds
  the identifier of a stored row holds that row's content. `ShapeInv` ties a job's
  memory to its step. Every action is one of four kinds on the tables (local, upsert,
  rollback, rebuild; lemmas `SeedKind`, `DeltaKind`, `MetricsKind`), so the table part
  is proved once per kind. `StoredRowsGetIndexed` is `RowsIndexed`, by the same kinds.
- **Status** (`OsvStatus_proof`). `SyncedEcosystemsAreStored`, from `SyncInv`: the row in the
  table and the copy in every job's memory claim nothing that the tables do not meet,
  and a seed's unprocessed records account for what is missing. Rows are never
  removed, only replaced, so an old copy stays true.
- **Cursor** (`OsvStatus_proof`). `CursorPassesNoMore` is `CursorApplied`, for any records,
  crashes and failures but those of an upsert, while no seed has begun. It is not
  inductive: a delta holds a list read from the csv and a new cursor, jobs hold old
  rows, and a record may change in between. `CursorInv` is that dates are in order
  (`DateInv`: what is stored, listed, fetched or in any copy of a cursor is no later than
  published, or than now) and that `Missed` is no larger than the number of failed
  fetches. `Missed` are the records not stored that the cursor has passed, or may pass
  when some job saves the row it holds (`PassedBy`), or that the delta has skipped and
  will pass (`LeftOut`). Every step leaves `Missed` as it is or makes it smaller; a fetch
  that fails adds one record and counts one fault.
- **Refinement** (`OsvStatus_proof`). `DeltaImplementsFeed`: `Spec` implies the safety part
  of `FeedSpec`, for any constants with no seed runs and no failing upsert. Each step is a
  publication, an upsert that moves records forward (`DeltaUpsertNews`), or writes the
  row of at most one ecosystem (`RowStep`), which may give up as many records as
  `CursorApplied` allows. `NewsAhead` is the invariant the upsert needs: what has changed
  since the csv was read is dated after every cursor, in the table and in memory, so a
  record that is moved and has changed again is not given up.
- **Lookup** (`VulnLookup_proof`). `TypeCorrect`, `UntouchedRecordsAreFound` and `NothingIsMadeUp`, from
  `LookupInv`: each fetched row was in the index since the lookup began (`indexed`), and
  of quiet records every fitting row is either fetched or found. The lemma
  `OneMoreEvent` is the loop invariant of the range walk: after n events the flag says
  whether the version is in a range of those n events (`InRange`).
  `FixesAreNamed` is `FixesAreOfTheReport`. Three statements have been run when a fix is
  named, and a sync may have replaced the record between any two; `FixInv` adds to
  `LookupInv` and to what the store keeps (`StoreInv`) that every row and every detail a
  lookup holds is of a revision of its record, of the present one if the record was left
  alone. The place of the first fix is a `CHOOSE`, so that there is one is shown by the
  least place (`LeastNumber`).
- **Policy** (`PolicyEngine_proof`). `TypeCorrect`, `EvaluationsAreWhole`, `PolicyInForceCompiles` and
  `SoloReloadedIsInForce`; the last needs the ghost `overlapped` and an invariant on what
  the reloads under way may still install.
- **Handlers** (`MetadataFilter_proof`). `TypeCorrect`, `ServedVersionsWereAllowed`, `TagsPointAtServed`,
  `RecordIsComplete`, `RewrittenNotBesideTarget`, from `FilterInv`: listed versions are
  partitioned into those to visit, kept, removed, under evaluation and left out.
- **Server** (`ProxyServer_proof`). The same five properties hold of the filters inside
  the server (`ServerTypeCorrect`, `ServerServesAllowed`, `ServerTagsAreServed`,
  `ServerRecordIsComplete`, `ServerReplacesSources`): each step of the server is a step of
  `MetadataFilter` or stutters, or clears the answer that was delivered, which keeps
  `FilterInv`. `AncestorsInLine` is `LineOfParents` with the bound on the chain, for every
  registry. `ClientsAreServedByTheirOwn` is `ClientsFindTheirHandler`, for every set of
  requests of which `ClientsTell` holds: with the prefix in the base URL nothing more is
  asked, without it the headers mention one ecosystem, or none and Artifactory tells. What
  `ClientsTell` leaves out is in section 6; TLC evaluates it on the requests of the
  instance (`MCClientsTell`).
- **POMs** (`ProxyServer_proof`). For every registry, cyclic or not, any depth and any
  number of rounds: `PomTypeCorrect`, `OnlyMeantAreEvaluated` (`EvaluatedAsMeant`) and
  `AllReachableAreEvaluated` (`ReachableAreEvaluated`), from `InspectionInv`. The first
  compares what is evaluated with a meaning that reads all ancestors and follows all
  references, the code with ten and five, so the invariant says of a state how it falls
  short: the properties collected are, name by name, the definitions of the nearest
  ancestor in the chain (`PropsInv`, `CollectedIs`); each dependency under way is a
  declared one, read with as many ancestors and rounds as were spent (`OriginInv`, `Reach`,
  `AsRead`), and none is missing (`NoneMissing`) or there twice (`OnceEach`). That this is
  the full meaning when no reference is left is `KnownStays`: a text of literals that
  some ancestors and some rounds give is what any more of them give (`UnfoldedStays`).
  The rounds of substitution over a text are one look at the table of definitions
  unfolded as deep (`ResolvedIsWithin`), because to unfold and then look up once more is
  to look up and then unfold (`LookedUpOnceMore`, from `SpelledThrough`).
- **Rewriting** (`RewriteCalls_proof`), from `TextAssumption` (a version has at most four
  numbers): `OrderIsKept`, `LineHasOneText`, `OneIsReplaced`. `GivenInv` says that what was
  answered is `Apply` of what was asked; then they are facts of the operators. The
  comparison is a total order (`CompareIsOrder`, `OrderTransitive`, `OrderTotal`); the lemmas
  `SnapToMinorText`, `SnapToMajorText` and `ReplaceOne` say which text each strategy writes.
  `ClosestIsOfTheLine` is `ClosestKeepsLine`, with `OfferAssumption` (what is offered has
  at most four numbers too): the first of the least distance exists, and within a minor
  the distance is that of the third numbers, plus one below the target.
- **Extension** (`VsCodeExtension_proof`). `TypeCorrect`, with `OneListens` and `LogsLive`,
  which the types of the views need. `RunningMeansServed` and `ManagerHoldsProcess` from
  `ManagerInv`. `LogHoldsNewest`: the ring holds the newest `MaxSize` verdicts in order,
  for every size; `RecordKeepsWindow` is the step lemma.

Some of this is induction over data, and the induction theorems of the library take an
operator, which the provers cannot instantiate. Here it is done with sets: a property
that holds at 0 and passes from n to n + 1 holds up to any n, since there would be a
least number without it (`LeastNumber`, from `WFMin`; `UpTo`). So recursive functions are
shown to exist and to be what their definitions say (`Iterated`), and facts of a text are
shown part by part (`TextsByAppending`). For that, `FindClosestVersion` chooses with
`Nearest` the place that the code's loop ends with, `DetectEcosystem` the first ecosystem
shown, and the loops of `PomInspection` are functions on the numbers up to their bound.

Every invariant that a passing run checks is proved, and so is the safety part of the
refinement. Only model-checked: liveness (`SeedsEnd`, `SeedStores`, `MirrorConverges`, `ReloadEnds`,
`RequestsEnd`, `ViewsCatchUp` and that of `FeedSpec`), which the prover does not do.

## 6. Findings

`PROJECT.json` lists four disagreements that a run shows. Others were met while
modelling and have no run:

- `syncer.go:348-352`: a fetch that fails is skipped and the cursor moves past it; the
  entry is never fetched again until its next change. `CursorApplied` and
  `MirrorConverges` say that it costs this one record.
- `syncer.go:96-98`: `DefaultEcosystems` "matches the proxy's handlers" and has no Maven.
- A crash between a delta's upsert and its rebuild leaves a row without index; if the
  fetch fails when the delta is repeated, it stays so.
- A seed beside a delta takes records back to the older zip, below the cursor.
- Of two reloads that overlap, the one that read the directory first may install last
  (`engine.go:104`); both say "reloaded".
- `store.go:262` says "return exact matches even if range query fails", but
  `GetVulnerabilities` discards them with the error; `store.go:242` says "Falls back to
  range-based entries", and they are always included.
- `store.go:333-342` writes a bare index row for an affected entry without versions or
  ranges; no lookup matches it.
- `findFixedVersion` (`osvdb.go:133-149`) takes the first fixed event of any range: of a
  record with several branches it may name one below the version asked for, or a commit.
- `osvdb.go:77` says "in a single query": with its preloads it is four, and a sync in
  between leaves a reported record without a fix.
- A CVSS vector is no severity level: such records have an unknown severity.
- npm's latest tag is dropped, not moved (`handler.go:205`); PyPI counts a version as
  yanked when any file is, where a comment says all.
- `ApplyWithAvailable` says that it stays within the line or leaves the version alone, and
  falls back to any version; with the strategy min that may be one below the minimum.
  Only tests call it.
- A Maven version with a dotted suffix loses its third number under replace-major:
  5.3.7.Final becomes 6.3Final (`vercmp.go:146`).
- A version that a Maven or Go list rewrites is dropped even if its target is denied; in
  npm the random order of the map decides (`handler.go:120-125`).
- `server.go:448` says that Go's User-Agent starts with "Go-http-client/" or "Go/", and
  the code looks for both anywhere in it (`server.go:464`): "cargo/" is taken for Go.
- Without a prefix `/pypi/<package>/json` loses its first segment as if it were one, and
  is passed through; so is an npm package that is named like an ecosystem's prefix sent
  to that ecosystem's handler.
- An Artifactory that does not say the type of its repository is taken for npm when its
  path tells nothing, as those of checksum files do.
- `project.groupId` is known only of a POM with its own groupId (`pom.go:423-425`): a
  dependency on a sibling module is recorded, and looked up, as `${project.groupId}`.
- Ten slow parents take longer than the write timeout, and the POM is never delivered.
- `/api/decisions` takes the newest n entries and filters them afterwards.
- Extension: a second start, or one after a health check that timed out, orphans the
  first process (`proxy.ts:63`); a late exit event marks its successor as stopped
  (`proxy.ts:81`); after a restart a list whose newest id equals the last one is not
  shown (`decisions.ts:24`); a poll under way refills views after a stop.

## 7. Assumptions about what is outside

osv.dev's listings and record files are taken as consistent with each other at one
moment; the version libraries give a total order on what they parse; a registry
answers with any subset of the package's versions; a Rego query answers with allow,
deny or an error and nothing else. Definitions for these are marked external.

## 8. What is not modelled

- Read errors of the mirror's own statements (they end a job as a failed create does);
  those of the lookup are modelled.
- The sync log, global statistics and the status page: written and shown, never read
  by the program's logic. `DeleteVulnerabilityByOsvID`, `FindVulnerabilitiesByPackage`:
  tests only.
- Decoding of JSON, XML, csv and zip, the copying of headers, logging.
- Artifacts, which are passed on unread; the repositories that a POM names, which the code does not ask either.
- A download's four attempts, between which nothing is shared: one step of any length.
- Deprecation, yanking and publication dates: input of the policy, part of `Verdict`.
- A Go list whose scanner stops early is a shorter list; an answer that mixes verdicts
  of two policies is allowed (`ServedWasAllowed` is per version).
- Configuration and its validation, which have no state after startup; `default.rego`,
  since what is checked holds under any policy.
- Time: a client's timeouts and those of the listener. Which of several exact versions
  the lookup endpoint shows when asked for none.
- The counters per ecosystem and the query filters of the decision log.
- In the extension: hosted mode, rendering, manifests, the one-minute lookup cache and
  the counters per ecosystem.

## 9. Running it

    tlc -workers 2 -config SyncOverlap.cfg MCOsvSync.tla
    tlapm OsvIndex_proof.tla

Every run ends within a few minutes; `sync_overlap` (4.1 million states) and
`extension_session` (1.4 million) are the longest.
