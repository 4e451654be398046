SPECIFICATION Spec
CHECK_DEADLOCK FALSE
CONSTANTS
    None = None
    Calls = {c1, c2, c3}
    Sessions = {s1}
    Ids = {i1, i2, i3}
    Topics = {t1}
    Traffic <- SessionTraffic
    Admins = {}
    HasSetup = TRUE
    ReuseIds = FALSE
    BackgroundProgress = TRUE
    MaxOutbound = 1
SYMMETRY CallIdSymmetry
INVARIANTS HandlerNeedsAuthentication
PROPERTIES ClosedIsFinalWithoutSetup AuditedExactlyOnce
