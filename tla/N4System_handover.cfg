SPECIFICATION N4Spec
CONSTANTS
    Refs = {r1}
    Tunnels = {t1, t2}
    None = None
    PoolLast = 2
    MaxSEID = 2
    PrefixMax = 0
    Legs = {"n2", "prep", "ack", "rafail", "comp", "psreq"}
    MaxReqs = 3
    MaxRestarts = 1
    Lossy = TRUE
    UpfFails = FALSE
INVARIANTS CompletedIsSwitched
PROPERTIES ReleasingIsFinal
CHECK_DEADLOCK FALSE
