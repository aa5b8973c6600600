SPECIFICATION FairSpec
CONSTANTS
    NumWorkers = 2
    Requests = {"a", "b", "c"}
    HighPriority = {"c"}
    MayStop = {"b"}
    QuitAfter = 3
    NotCreated = {}
INVARIANT NoLostWakeup
INVARIANT RequestKept
INVARIANT HandlesAlive
PROPERTY CallbackOnce
PROPERTY Answered
PROPERTY ExitEnds
