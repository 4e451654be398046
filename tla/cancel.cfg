SPECIFICATION Spec
CHECK_DEADLOCK FALSE
CONSTANTS
    None = None
    Calls = {c1, c2, c3}
    Sessions = {s1, s2}
    Ids = {i1}
    Topics = {t1}
    Traffic <- CancelTraffic
    Admins = {s2}
    HasSetup = FALSE
    ReuseIds = TRUE
    BackgroundProgress = FALSE
    MaxOutbound = 0
SYMMETRY CallSymmetry
INVARIANTS TypeOK InflightOwnerRunning
PROPERTIES CancelStaysInSession
