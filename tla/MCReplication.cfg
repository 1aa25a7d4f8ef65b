SPECIFICATION FairSpec
CONSTANTS
    Node = {n1, n2}
    NoNode = none
    SizeLimit = 2
    MaxWrites = 3
    MaxResets = 1
    MaxRestarts = 1
    MaxFailures = 1
INVARIANTS
    TypeOK
    MissesRestOfStream
    ReplicaAofHoldsData
PROPERTIES
    CatchesUp
CHECK_DEADLOCK FALSE
