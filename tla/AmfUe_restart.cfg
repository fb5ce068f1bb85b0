SPECIFICATION AmfUeSpec
CONSTANTS
    Gnb = {g1}
    None = None
    Ran = {1}
    Supi = {s1, s2}
    Cache = "redis"
    Events = {"loss", "restart", "ru"}
    MaxCtx = 2
    MaxTmsi = 2
    MaxQueue = 1
INVARIANTS HeldTmsiOwn
CHECK_DEADLOCK FALSE
