SPECIFICATION FairSpec
CONSTANTS
    Root = Root
    Stop = Stop
    None = None
    LateSpawn = FALSE
    Isolated = FALSE
    MaxKids = 2
    MaxRuns = 2
    MaxEvents = 5
INVARIANTS
    TreeIsQuiet
    CancelHasAReason
    SteersAreAnswered
    TranscriptsAreTrue
PROPERTIES
    CancelledChildEnds
CHECK_DEADLOCK FALSE
