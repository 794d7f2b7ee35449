SPECIFICATION FenceSpec
CONSTANTS
    Runs = {1, 2}
    SessionOf <- MainAndChild
    HostOf <- TwoHosts
    Managed = {"child"}
    MaxCalls = 2
    Edits <- AllCalls
    None = None
CHECK_DEADLOCK FALSE
PROPERTIES
    SilentAfterTimeout
    NoLostEdit
    FencedIsSilent
