SPECIFICATION Spec
CONSTANTS
    web = web
    feishu = feishu
    r1 = r1
    r2 = r2
    r3 = r3
    None = None
    Dead = Dead
    Procs <- One
    CannotRun <- Nobody
    Runs <- ThreeRuns
    Standing = TRUE
    MaxFires = 2
    Predicate = FALSE
    MaxRetries = 2
    FaultKinds <- LosesCommits
    MaxFaults = 1
    MaxCrashes = 1
    Rearming <- One
    Slow = TRUE
INVARIANTS
    FiresDoNotOverlap
    FiresAreAccounted
SYMMETRY RunsAlike
CHECK_DEADLOCK FALSE
