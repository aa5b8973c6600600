SPECIFICATION FairSpec
CHECK_DEADLOCK FALSE
CONSTANTS
    NumFiles = 2
    FileSize = 3
    MaxBuffer = 2
    WriteMax = 2
    ReadMax = 2
    WasEnabled = FALSE
    Sessions <- Queue
PROPERTY Served
