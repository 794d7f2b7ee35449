SPECIFICATION FairFenceSpec
CONSTANTS
    Runs = {1, 2, 3}
    SessionOf <- MainThrice
    HostOf <- MainHosts
    Managed = {}
    MaxCalls = 1
    Edits <- AllCalls
    None = None
CHECK_DEADLOCK FALSE
INVARIANTS
    FenceIsSound
PROPERTIES
    LandsUnderRunLock
    RunsFinish
