SPECIFICATION FairSpec
CONSTANTS
    Worker = {w1}
    Size <- Growing
    Untagged = {2}
    Faults = {"create", "network", "write", "rename", "json", "crash"}
    MaxFaults = 3
    Overlap = FALSE
    TempNames = 2
INVARIANT NeverTorn
INVARIANT SuccessIsServed
PROPERTY Recovers
