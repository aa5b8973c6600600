SPECIFICATION FairSpec
CONSTANTS
    Cap = 2
    Size = 4
    Avail = 4
    DFunc = TRUE
    Kept = {1, 2, 4}
    FlushMax = 1
    Pull = FALSE
    MayFail = {"read", "decompress", "write"}
    MayCancel = TRUE
PROPERTY CancelEnds
CHECK_DEADLOCK FALSE
