SPECIFICATION Spec
CHECK_DEADLOCK FALSE
CONSTANTS
    None = None
    Calls = {c1}
    Sessions = {s1}
    Ids = {i1}
    Topics = {t1}
    Traffic <- LeakTraffic
    Admins = {}
    HasSetup = FALSE
    ReuseIds = FALSE
    BackgroundProgress = FALSE
    MaxOutbound = 0
INVARIANTS NoSubscriptionLeak
