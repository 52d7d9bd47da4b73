SPECIFICATION Spec
CONSTANTS
    Numbers <- FewNumbers
    Cases <- MCCases
    Asked <- MCAsked
    Offers <- MCOffers
    MaxCalls = 2
INVARIANTS RewriteKeepsOrder LineSnapsToOne ReplacesJustOne ClosestKeepsLine
CHECK_DEADLOCK FALSE
