SPECIFICATION FairSpec
CONSTANTS
    Cap = 2
    Size = 8
    Avail = 8
    DFunc = FALSE
    Kept = {}
    FlushMax = 1
    Pull = FALSE
    MayFail = {"write"}
    MayCancel = TRUE
INVARIANT TypeOK
INVARIANT SuccessIsComplete
INVARIANT ErrorIsReported
INVARIANT MutualExclusion
PROPERTY Termination
PROPERTY ImplementsCopy
