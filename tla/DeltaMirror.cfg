SPECIFICATION FairSpec
CONSTANTS
    npm = npm
    pypi = pypi
    a = a
    b = b
    Osv <- MCOsv
    Ecosystems <- OneEcosystem
    Dir <- OneDir
    Home <- MCHome
    MaxRuns <- OneMetrics
    MaxFaults <- DeltaFaults
    MaxKinds = 2
    DeltaEnabled = TRUE
    MaxClock = 3
    Workers = 2
    RollbackFreesIds = FALSE
    SeedBatch = 1
    DeltaBatch = 2
INVARIANTS CursorApplied
PROPERTIES MirrorConverges FeedSpec
