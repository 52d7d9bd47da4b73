SPECIFICATION ServerSpec
CONSTANTS
    q1 = q1
    NumVersions = 3
    Tags <- OneTag
    Policies <- MCPolicies
    Verdict <- MCVerdict
    Target <- MCTarget
    Redirects <- MCRedirects
    Requests <- OneRequest
    Kinds <- AllKinds
    MaxChanges = 2
    Coordinates <- MCCoordinates
    Registry <- MCRegistry
    Keys <- MCKeys
    Literals <- MCLiterals
    MaxParentDepth = 2
    Rounds = 2
    Asks <- MCAsks
    AdminToken = "secret"
    Bearers = {"", "secret"}
INVARIANTS
    TypeOK PomTypeOK ServedWasAllowed TagsAreServed RecordMatchesAnswer TargetReplacesSource
    LineOfParents EvaluatedAsMeant ReachableAreEvaluated 
PROPERTIES RequestsEnd
