SPECIFICATION FairSpec
CONSTANTS
    r1 = r1
    r2 = r2
    e1 = e1
    e2 = e2
    NumFiles = 2
    Reloads <- TwoReloads
    Evals <- MCEvals
    Compiling <- MCCompiling
    MaxEdits = 3
INVARIANTS TypeOK EvalUsesOnePolicy PolicyCompiles SoloReloadInForce
PROPERTIES ReloadEnds
