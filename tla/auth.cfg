SPECIFICATION AuthSpec
CHECK_DEADLOCK FALSE
CONSTANTS
    None = None
    Msgs = {m1, m2, m3, m4}
    Users = {u1, u2}
    OtpUsers = {u1}
    Trusted = {u2}
    Named = {u1}
    Traffic <- LoginTraffic
    Transports = {"unix", "mtls"}
    Pipelined = FALSE
SYMMETRY MsgSymmetry
INVARIANTS ProofEndsConversation AuthTypeOK CallsActAsProven AuditNamesCaller
PROPERTIES ImplementsLogin RejectedExchangeDead
