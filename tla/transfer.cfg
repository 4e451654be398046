SPECIFICATION FairTransferSpec
CHECK_DEADLOCK FALSE
CONSTANTS
    Calls = {c1, c2}
    Directions <- BothWays
    Serial = TRUE
    MaxChunks = 2
    MaxNotices = 1
INVARIANTS TransferTypeOK StreamExclusive
PROPERTIES ImplementsHandover CallsOutliveTransfer TransferEnds WorkerReleased
