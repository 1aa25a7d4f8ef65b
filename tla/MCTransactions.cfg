SPECIFICATION Spec
CONSTANTS
    Client = {c1, c2}
    Key = {k1, k2}
    NoClient = none
    MaxCommands = 3
    MaxQueue = 2
SYMMETRY Symmetry
INVARIANTS
    TypeOK
    WatchersAreCounted
PROPERTIES
    ImplementsDirtyKeys
