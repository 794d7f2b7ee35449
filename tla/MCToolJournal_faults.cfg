SPECIFICATION Spec
CONSTANTS
    Rounds <- OneByOne
    ReadOnly = {1}
    MayFail = {"message", "declared", "started", "finished", "committed", "sidecar", "save"}
    MaxRuns = 4
CHECK_DEADLOCK FALSE
INVARIANTS
    JournalIsSound
    ExactResultSurvives
PROPERTIES
    FileNeverForgets
    KeepsLedger
