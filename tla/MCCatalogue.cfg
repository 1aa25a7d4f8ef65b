SPECIFICATION FairSpec
CONSTANTS
    Missing = Missing
    Argument <- MCArgument
    Depth <- MCDepth
    Absent = Absent
    NoMetadata = NoMetadata
    Parse <- ParseEntry
    Classified <- Tiered
    ALIAS_NAMES <- MCAlias
    PARTIAL_NAMES <- MCPartial
    FULL_NAMES <- MCFull
    STANDALONE_ERROR_NAMES <- MCError
    Sites <- MCSites
    Probes <- MCProbes
    FETCH_WORKERS = 2
    FETCH_RETRIES = 2
    PART_SIZE = 2
    Letters = 2
    MaxParts = 14
    MaxRuns = 2
INVARIANTS
    TypeOK
    CatalogueFollowsIndex
    ServedByItsPart
    BuildableIsOneGeneration
    ScopeGateAgrees
    InferredMetaIsSafe
PROPERTIES
    RunsEnd
CHECK_DEADLOCK FALSE
