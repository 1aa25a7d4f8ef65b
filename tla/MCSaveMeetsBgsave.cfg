SPECIFICATION Spec
CONSTANTS
    Key = {k1}
    BufCap = 2
    Requests = {"bgsave"}
    SaveAllowed = TRUE
    Blocks = 2
    MaxBatch = 1
    MaxOps = 1
    MaxFile = 2
    MaxCrashes = 0
INVARIANTS
    RdbIsWhole
