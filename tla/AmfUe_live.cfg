SPECIFICATION AmfUeFairSpec
CONSTANTS
    Gnb = {g1}
    None = None
    Ran = {1}
    Supi = {s1}
    Cache = "redis"
    Events = {"drop", "restart", "redisfail", "sbifail", "anrelease", "area"}
    MaxCtx = 2
    MaxTmsi = 1
    MaxQueue = 1
INVARIANT EntryIsLinked
PROPERTY RemovalsComplete
CHECK_DEADLOCK FALSE
