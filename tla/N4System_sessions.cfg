SPECIFICATION N4FairSpec
CONSTANTS
    Refs = {r1, r2}
    Tunnels = {t1}
    None = None
    PoolLast = 2
    MaxSEID = 2
    PrefixMax = 1
    Legs = {"n2", "deact", "actv", "psfail"}
    MaxReqs = 1
    MaxRestarts = 0
    Lossy = TRUE
    UpfFails = TRUE
INVARIANTS AddressExclusive PoolAccounted IndexesLeadToStored
PROPERTIES ReleasingEnds
CHECK_DEADLOCK FALSE
