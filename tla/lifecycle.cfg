SPECIFICATION FairSpec
CONSTANTS
    u = u
    k = k
    w = w
    t1 = t1
    t2 = t2
    Conns = {u, k, w}
    Tasks = {t1, t2}
    Kind <- UsedKinds
    Transports <- Used
    Python = 313
    MaxAccepted = 2
    MaxFrames = 1
INVARIANTS LifecycleTypeOK ClosedAfterAclose HandlesHaveOwners FlushedBeforeClose
PROPERTIES ShutdownCompletes
CHECK_DEADLOCK FALSE
