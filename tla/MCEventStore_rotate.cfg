SPECIFICATION Spec
CONSTANTS
    w1 = w1
    w2 = w2
    r1 = r1
    web = web
    feishu = feishu
    None = None
    Writers = {w1, w2}
    Readers = {r1}
    HostOf <- Hosts
    KindsOf <- LoopAndHuman
    MayFail = {"write", "create"}
    Cap = 1
    MaxEvents = 3
    MaxTorn = 1
    MaxCrashes = 1
INVARIANTS
    LogIsSound
    CachedReadIsExact
PROPERTIES
    KeepsLog
CHECK_DEADLOCK FALSE
