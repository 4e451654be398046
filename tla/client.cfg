SPECIFICATION FairClientSpec
CHECK_DEADLOCK FALSE
CONSTANTS
    None = None
    o1 = o1
    o2 = o2
    t1 = t1
    Ops = {o1, o2}
    Topics = {t1}
    Usage <- PairUsage
    MaxPayloads = 1
INVARIANTS ClientTypeOK EventsHaveCallback NobodyForgotten LeftoversOnTheirWay
PROPERTIES EntriesReleased AnsweredOrFailed
