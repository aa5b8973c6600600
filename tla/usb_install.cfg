SPECIFICATION FairSpec
CONSTANTS
    NumFiles = 3
    FileSize = 4
    ReadMax = 2
    Faults = {"open", "read", "damage", "install", "unplug"}
INVARIANT OneUser
INVARIANT SuccessIsComplete
PROPERTY LeaveEnds
PROPERTY InstallEnds
