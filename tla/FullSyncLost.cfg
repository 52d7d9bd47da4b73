SPECIFICATION Spec
CONSTANTS
    npm = npm
    pypi = pypi
    a = a
    b = b
    Osv <- OneRecord
    Ecosystems <- OneEcosystem
    Dir <- OneRecordDir
    Home <- OneRecordHome
    MaxRuns <- OneStartup
    MaxFaults <- NoFaults
    MaxKinds = 7
    DeltaEnabled = TRUE
    MaxClock = 2
    Workers = 2
    RollbackFreesIds = FALSE
    SeedBatch = 1
    DeltaBatch = 2
PROPERTIES FullSyncKept
