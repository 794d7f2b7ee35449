SPECIFICATION FairSpec
CONSTANTS
    web = web
    feishu = feishu
    r1 = r1
    r2 = r2
    r3 = r3
    None = None
    Dead = Dead
    Procs <- Both
    CannotRun <- Nobody
    Runs <- TwoRuns
    Standing = FALSE
    MaxFires = 1
    Predicate = TRUE
    MaxRetries = 2
    FaultKinds <- LosesAndSkips
    MaxFaults = 1
    MaxCrashes = 1
    Rearming <- One
    Slow = FALSE
INVARIANTS
    StartsOnce
    GoneIsAnswered
PROPERTIES
    CancelIsFinal
    DueIsAnswered
CHECK_DEADLOCK FALSE
