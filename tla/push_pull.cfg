SPECIFICATION FairSpec
CONSTANTS
    Size = 4
    MaxBuffer = 2
    ChunkMax = 2
    CallMax = 3
    NetworkMayFail = TRUE
    SlowConnect = TRUE
INVARIANT ReadsFile
PROPERTY ShortOnlyOnError
PROPERTY UploadComplete
PROPERTY CallsReturn
