SPECIFICATION PolicySpec
CONSTANTS
    Policy = {p1, p2, p3}
    Addr = {a1}
    Supi = {s1}
    Sub = {n1}
    None = None
    SupiOf <- MCSupiOf
    Events = {}
INVARIANT RegistryAccurate
CHECK_DEADLOCK FALSE
