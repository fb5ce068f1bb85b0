SPECIFICATION SignallingSpec
CONSTANTS
    NasCtx = {1, 2}
    NasEvents = {"udr", "sbi", "expire", "radio", "remove", "area", "restart"}
    MaxVec = 3
    MaxUl = 3
    MaxSqn = 5
    Mcc <- MCMcc
    Mnc <- MCMnc
    Configs <- MCConfigs
    Caps <- MCCaps
    SubscribedSlices <- MCSubs
    Wants <- MCWants
    CurrentTac = 700
    Extras = {119, 116}
    N1Psis = {1, 9}
    MaxGuti = 2
    Subscribed = {"a", "b", "c"}
    SubjectToNSSAA = {"a", "b"}
    NssaaEvents = {"revoke", "reauth", "update"}
    MaxNssaa = 4
    OvQos <- MCOv
    OvEvents = {"restart", "failure", "provision"}
    MaxOv = 3
    SmData <- MCSmData
    NetworkAsks <- MCAsk
    Authorized5QI = {5, 9}
    QosInputs = {"udm", "pcf", "n4", "radio", "mgmt", "device"}
    Handlers = {1, 2}
    QerIds = {1, 2}
    PdrIds = {1}
    QerTemplates <- MCTemplates
    UpfDirs = {"dl"}
    Sizes = {2}
    BurstTicks = 2
    FloorTokens = 3
    UnlimitedRate = 9
    QosEvents = {"modify", "delete"}
    MaxClock = 2
    MaxRequests = 2
INVARIANTS     RatesHold
CHECK_DEADLOCK FALSE
