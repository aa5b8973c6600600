SPECIFICATION FairSpec
CONSTANTS
    Cap = 2
    Size = 5
    Avail = 5
    DFunc = TRUE
    Kept = {1, 2, 3, 5}
    FlushMax = 1
    Pull = FALSE
    MayFail = {}
    MayCancel = FALSE
INVARIANT InOrder
CHECK_DEADLOCK FALSE
