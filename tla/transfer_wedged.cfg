SPECIFICATION TransferSpec
CHECK_DEADLOCK FALSE
CONSTANTS
    Calls = {c1}
    Directions = {"UPLOAD"}
    Serial = TRUE
    MaxChunks = 1
    MaxNotices = 0
INVARIANTS FailedSetupResumes
