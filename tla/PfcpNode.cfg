SPECIFICATION NodeFairSpec
CONSTANTS
    Sess = {s1}
    None = None
    MaxTime = 5
    MaxStarts = 2
    Lossy = TRUE
    PeerHeartbeats = TRUE
INVARIANTS BaselineOfAssociation
PROPERTIES StaleIsLost LostIsReleased
CHECK_DEADLOCK FALSE
