SPECIFICATION FairSpec
CONSTANTS
    Tabs = {t1, t2}
    Others = {"human"}
    Late = FALSE
    MaxItems = 2
    MaxOthers = 1
    MaxFaults = 1
    MaxCrashes = 1
    Fallback = Fallback
    None = None
INVARIANTS
    QueueIsSound
    DeliveredOnce
PROPERTIES
    CancelIsFinal
    AcceptedIsAnswered
CHECK_DEADLOCK FALSE
