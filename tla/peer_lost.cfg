SPECIFICATION AuthSpec
CHECK_DEADLOCK FALSE
CONSTANTS
    None = None
    Msgs = {m1, m2, m3}
    Users = {u1, u2}
    OtpUsers = {u1}
    Trusted = {u2}
    Named = {u1}
    Traffic <- RetryTraffic
    Transports = {"tcp"}
    Pipelined = FALSE
INVARIANTS SetupSeesPeer
