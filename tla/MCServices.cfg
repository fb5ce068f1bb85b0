SPECIFICATION ServicesSpec
CONSTANTS
    BlindReplace = FALSE
    NfId = {i1, i2}
    Timeout = 4
    Interval = 2
    MaxBackoff = 2
    ProfileOf <- MCProfileOf
    NfInstances = {"n1", "n2"}
    TypeOf <- MCType
    Filters <- MCFilters
    NotifyEvents = {"loss", "evict", "restart"}
    MaxChanges = 2
    SliceKeys = {1, 2}
    OperatorSlices = {1}
    Rates = {"r"}
    Supis = {1}
    DevSupis = {1}
    UdrEvents = {"failure", "crash", "provision"}
    MaxUdr = 3
    WarningKeys = {1, 2}
    PwsGnbs = {"g1"}
    PwsEvents = {"loss", "restart", "failure", "cancelAll"}
    MaxPws = 3
    WarningOrders <- MCOrders
    LaterOrders <- MCLater
    ServedTACs <- MCServed
    SubIds = {"s1"}
    NotifyAttempts = 2
    LmfEvents = {"failure", "expire", "shutdown", "privacy"}
    MaxSamples = 3
    SmsAmfs = {"a1", "a2"}
    NoCallback = "no callback"
    MoPayloads <- MCMo
    MtPayloads <- MCMt
    MtTexts <- MCTexts
    SmsEvents = {"failure", "idle", "move"}
    MaxActivations = 2
    MaxSms = 2
    PcfPlmn <- MCPlmn
    RuleLists <- MCRuleLists
    DefaultRules <- MCNoRules
    DefaultRFSP = 9
    RfspValues = {5}
    Pushers = {1, 2}
    PolEvents = {"failure", "restart", "idle", "detach", "rfsp"}
    MaxAssoc = 3
    MaxPol = 1
    BaseTimers <- MCBase
    PutBodies <- MCBodies
    Clients = {1, 2}
    RetrySecs = 25
    TimerEvents = {"loss", "coverage"}
    MaxPuts = 2
    MaxContacts = 3
    PduIds = {1, 2}
    MaxRef = 3
    MaxMoves = 4
    SessEvents = {"network", "page", "failure", "radio", "refuse"}
    Objects = {1}
    GtpTunnels = {1, 2}
    VolumeThreshold = 2
    DpEvents = {"far", "loss", "v6", "period"}
    MaxPeriods = 1
    MaxPackets = 2
INVARIANTS StaysListed ConsumersFollow  DeviceFollows TimersAgree
INVARIANTS  TrafficFollows
PROPERTIES IsDirectory DetachedOnlyIfSilent
CHECK_DEADLOCK FALSE
