SPECIFICATION FairSpec
CONSTANTS
    Key = {k1}
    BufCap = 2
    Requests = {"bgsave", "bgrewriteaof"}
    SaveAllowed = TRUE
    Blocks = 2
    MaxBatch = 2
    MaxOps = 2
    MaxFile = 3
    MaxCrashes = 0
PROPERTIES
    BgsaveCompletes
