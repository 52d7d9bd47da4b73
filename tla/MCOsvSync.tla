------------------------------ MODULE MCOsvSync ------------------------------
(* Instances of OsvSync for TLC. *)
EXTENDS OsvSyncInv, TLC

CONSTANTS npm, pypi, a, b

\* a is listed under both ecosystems, b under one.
MCOsv == {a, b}
MCEcosystems == {npm, pypi}
MCDir == npm :> {a, b} @@ pypi :> {a}
MCHome == a :> npm @@ b :> npm

\* One ecosystem with two records, and with one.
OneEcosystem == {npm}
OneDir == npm :> {a, b}
OneRecord == {a}
OneRecordDir == npm :> {a}
OneRecordHome == a :> npm

Runs(startup, full, metrics) ==
    "startup" :> startup @@ "full" :> full @@ "metrics" :> metrics

OneStartup == Runs(1, 0, 0)
StartupTwice == Runs(2, 0, 0)
OneMetrics == Runs(0, 0, 1)
NoRuns == Runs(0, 0, 0)

Faults(kinds) == [k \in FaultKinds |-> IF k \in kinds THEN 1 ELSE 0]
NoFaults == Faults({})
StoreCrashFaults == Faults({"fetch", "upsert", "rebuild", "crash"})
SeedOnlyFaults == Faults({"download", "parse", "upsert", "rebuild", "save"})
UpsertFault == Faults({"upsert"})
DeltaFaults == Faults({"download", "fetch", "save", "crash"})
=============================================================================
