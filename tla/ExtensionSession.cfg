SPECIFICATION FairSpec
CONSTANTS
    k1 = k1
    k2 = k2
    NoAnswer = NoAnswer
    Polls <- TwoPolls
    MaxSize = 2
    DeniedLimit = 2
    Limit = 1
    MaxSpawns = 2
    Traffic <- MCTraffic
    MaxCommands = 1
INVARIANTS TypeOK  NoneOrphaned
PROPERTIES ViewsCatchUp
CHECK_DEADLOCK FALSE
