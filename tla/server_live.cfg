SPECIFICATION FairServerSpec
CHECK_DEADLOCK FALSE
CONSTANTS
    None = None
    Calls = {c1, c2}
    Sessions = {s1}
    Ids = {i1, i2}
    Topics = {t1}
    Traffic <- WaitTraffic
    Admins = {}
    HasSetup = FALSE
    ReuseIds = TRUE
    BackgroundProgress = FALSE
    MaxWorkers = 2
    MaxOutbound = 1
PROPERTIES FramesAnswered NoticesDelivered AcceptedCancelEndsTarget
