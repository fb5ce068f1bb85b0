SPECIFICATION AmfUeSpec
CONSTANTS
    Gnb = {g1, g2}
    None = None
    Ran = {1}
    Supi = {s1}
    Cache = "redis"
    Events = {"loss"}
    MaxCtx = 1
    MaxTmsi = 2
    MaxQueue = 1
PROPERTIES LossSparesOthers
CHECK_DEADLOCK FALSE
