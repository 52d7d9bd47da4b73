SPECIFICATION Spec
CONSTANTS
    npm = npm
    pypi = pypi
    a = a
    b = b
    Osv <- OneRecord
    Ecosystems <- OneEcosystem
    Dir <- OneRecordDir
    Home <- OneRecordHome
    MaxRuns <- StartupTwice
    MaxFaults <- StoreCrashFaults
    MaxKinds = 2
    DeltaEnabled = TRUE
    MaxClock = 2
    Workers = 2
    RollbackFreesIds = FALSE
    SeedBatch = 1
    DeltaBatch = 2
INVARIANTS TypeOK IndexDescribesRow RowsIndexed SyncedMeansStored
