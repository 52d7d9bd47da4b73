SPECIFICATION ServerSpec
CONSTANTS
    q1 = q1
    NumVersions = 3
    Tags <- OneTag
    Policies <- MCPolicies
    Verdict <- MCVerdict
    Target <- MCTarget
    Redirects <- MCRedirects
    Requests <- OneRequest
    Kinds = {}
    MaxChanges = 0
    Coordinates <- MCCoordinates
    Registry <- MCRegistry
    Keys <- MCKeys
    Literals <- MCLiterals
    MaxParentDepth = 2
    Rounds = 2
    Asks <- OnePip
    AdminToken = "secret"
    Bearers = {"", "secret"}
INVARIANTS ListsAreFiltered
