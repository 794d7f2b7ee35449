SPECIFICATION FairSpec
CONSTANTS
    r1 = r1
    r2 = r2
    Coords = {r1, r2}
    NoExpiry = NoExpiry
    MaxGen = 3
    Ttl <- OneExpiryFree
INVARIANTS
    RegistryIsSound
PROPERTIES
    SettledIsClosed
    ExpiredNeverRevives
    TimeLicensedTakeover
    KeepsAuthority
    StaleWorkersStop
