SPECIFICATION Spec
CONSTANTS
    MaxVersion = 2
    Contents <- ContentsOf
    Meta <- MetaOf
    Faults = {"install", "check", "ticket", "remove", "register", "record", "crash"}
    MaxFaults = 2
    MaxAttempts = 2
INVARIANT ListedIsWhole
INVARIANT SuccessIsInstalled
PROPERTY ReadyBeforeRemoval
PROPERTY NoDowngrade
