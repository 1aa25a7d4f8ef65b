SPECIFICATION Spec
CONSTANTS
    Key = {k1}
    BufCap = 2
    Requests = {"bgsave"}
    SaveAllowed = FALSE
    Blocks = 2
    MaxBatch = 1
    MaxOps = 4
    MaxFile = 5
    MaxCrashes = 2
INVARIANTS
    AofHoldsHistory
