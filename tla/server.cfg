SPECIFICATION ServerSpec
CHECK_DEADLOCK FALSE
CONSTANTS
    None = None
    Calls = {c1, c2}
    Sessions = {s1}
    Ids = {i1, i2}
    Topics = {t1}
    Traffic <- StreamTraffic
    Admins = {}
    HasSetup = FALSE
    ReuseIds = FALSE
    BackgroundProgress = TRUE
    MaxWorkers = 1
    MaxOutbound = 3
SYMMETRY CallIdSymmetry
INVARIANTS ServerTypeOK NoRequestLost OneTrailingProgress DeliveredInOrder
PROPERTIES NoWorkAfterClose ImplementsChannel
