SPECIFICATION MessagesSpec
CONSTANTS
    Refs = {r1, r2, r3}
    None = None
    Addrs = {2, 3}
    Handlers = {h1, h2, h3, h4}
    SmPsis = {5}
    SmAsks <- MCSmAsks
    SmAllowed <- MCAllowedNssais
    Internet <- MCInternet
    Resolvers <- MCResolvers
    V6Dnns <- MCV6
    SmQos <- MCSmQos
    MaxSm = 3
    N2Gnbs = {"g1", "g2"}
    GnbIdOf <- MCGnbId
    CellsOf <- MCCells
    AmfPlmn <- MCAmf
    SubscribedNSSAI <- MCNssai
    SubscribedKbps = 200
    maxAllowedNSSAI = 2
    WirePsis = {1}
    N2Events = {"handover", "idle", "other"}
    MaxRanId = 2
   
PROPERTY CompleteIsAnswered
CHECK_DEADLOCK FALSE
