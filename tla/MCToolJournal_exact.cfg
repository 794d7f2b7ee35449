SPECIFICATION Spec
CONSTANTS
    Rounds <- TwoRounds
    ReadOnly = {1}
    MayFail = {"declared", "started", "finished", "committed", "save"}
    MaxRuns = 3
CHECK_DEADLOCK FALSE
INVARIANTS
    TranscriptIsExact
    DeclaredAreAnswered
