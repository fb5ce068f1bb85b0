SPECIFICATION AmfUeSpec
CONSTANTS
    Gnb = {g1}
    None = None
    Ran = {1}
    Supi = {s1}
    Cache = "redis"
    Events = {"dereg", "timers", "nwdereg", "icsfail"}
    MaxCtx = 2
    MaxTmsi = 1
    MaxQueue = 1
INVARIANT SupiSlotLive
PROPERTIES OwnerKept
CHECK_DEADLOCK FALSE
