SPECIFICATION Spec
SYMMETRY Symmetry
CONSTANTS
    None = None
    r1 = r1
    r2 = r2
    Runs = {r1, r2}
    Policies = {"off", "warn", "enforce"}
    Faults = {"fail", "crash"}
    MaxClaims = 3
    MaxFaults = 1
INVARIANTS
    ClaimsAreSound
PROPERTIES
    LiveClaimIsKept
CHECK_DEADLOCK FALSE
