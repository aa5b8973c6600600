SPECIFICATION FairSpec
CONSTANTS
    Cap = 2
    Size = 4
    Avail = 4
    DFunc = FALSE
    Kept = {}
    FlushMax = 1
    Pull = TRUE
    MayFail = {"pull"}
    MayCancel = FALSE
INVARIANT InOrder
PROPERTY Termination
