SPECIFICATION FairSpec
CONSTANTS
    npm = npm
    pypi = pypi
    a = a
    b = b
    Osv <- MCOsv
    Ecosystems <- MCEcosystems
    Dir <- MCDir
    Home <- MCHome
    MaxRuns <- OneStartup
    MaxFaults <- SeedOnlyFaults
    MaxKinds = 7
    DeltaEnabled = FALSE
    MaxClock = 3
    Workers = 1
    RollbackFreesIds = FALSE
    SeedBatch = 1
    DeltaBatch = 2
PROPERTIES SeedsEnd SeedStores
CHECK_DEADLOCK FALSE
