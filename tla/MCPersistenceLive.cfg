SPECIFICATION FairSpec
CONSTANTS
    Key = {k1}
    BufCap = 2
    Requests = {"bgsave", "bgrewriteaof"}
    SaveAllowed = TRUE
    Blocks = 2
    MaxBatch = 1
    MaxOps = 1
    MaxFile = 1
    MaxCrashes = 0
INVARIANTS
    OneChildAtATime
    RdbIsSnapshot
PROPERTIES
    BgsaveCompletes
    RewriteCompletes
