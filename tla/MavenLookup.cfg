SPECIFICATION Spec
CONSTANTS
    o1 = o1
    o2 = o2
    None = None
    Zero = Zero
    Osv <- OneRecord
    RollbackFreesIds = TRUE
    Versions <- FourVersions
    Package = "p"
    Lookups <- MavenOnly
    Callers <- PolicyOnly
    Content <- MCContent
    Rank <- MCRank
    Text <- MCText
    MaxUpserts = 1
    MaxReadFaults = 0
INVARIANT EveryEcosystemIsLookedUp
