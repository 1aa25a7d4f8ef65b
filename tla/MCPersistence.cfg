SPECIFICATION Spec
CONSTANTS
    Key = {k1, k2}
    BufCap = 2
    Requests = {"bgrewriteaof"}
    SaveAllowed = FALSE
    Blocks = 2
    MaxBatch = 1
    MaxOps = 4
    MaxFile = 5
    MaxCrashes = 2
INVARIANTS
    TypeOK
    RestartRestores
PROPERTIES
    ImplementsDurableStore
