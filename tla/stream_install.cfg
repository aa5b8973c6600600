SPECIFICATION FairSpec
CONSTANTS
    NumFiles = 3
    FileSize = 5
    MaxBuffer = 3
    WriteMax = 2
    ReadMax = 2
    WasEnabled = FALSE
    Sessions <- AllSessions
INVARIANT InOrder
INVARIANT CloseWaits
INVARIANT SourceAlive
INVARIANT MenuAlive
PROPERTY Served
PROPERTY BoxCloses
PROPERTY MenuCloses
