SPECIFICATION Spec
CONSTANTS
    o1 = o1
    o2 = o2
    None = None
    Zero = Zero
    Osv <- TwoRecords
    RollbackFreesIds = TRUE
    Versions <- FourVersions
    Package = "p"
    Lookups <- NpmAndPyPI
    Callers <- PolicyAndEndpoint
    Content <- MCContent
    Rank <- MCRank
    Text <- MCText
    MaxUpserts = 3
    MaxReadFaults = 1
INVARIANTS TypeOK QuietRecordsAreFound ReportsAreTrue FixesAreOfTheReport
