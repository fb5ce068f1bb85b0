SPECIFICATION ProceduresSpec
CONSTANTS
    Policy = {p1, p2}
    Addr = {a1}
    Supi = {s1}
    Sub = {n1}
    None = None
    SupiOf <- MCSupiOf
    Events = {"lost", "pcf", "bsf", "nef"}
    HoGnb = {g1, g2}
    HoRan = {1, 2}
    Psi = {1, 2}
    Nobody = Nobody
    Home = g1
    Others <- MCOthers
    HoEvents = {"late", "setupfail", "down", "refuse"}
    MaxHo = 2
    LocReqs = {r1, r2}
    LocUes = {"u"}
    LocEvents = {"idle", "timeout", "cancel"}
    Accuracies = {49, 201}
    MaxOpen = 2
SYMMETRY LocSymmetry
INVARIANTS StoreIndexed  KeysFresh  FixesSettle
PROPERTIES FoundStays BackingKept 
CHECK_DEADLOCK FALSE
