SPECIFICATION SpecInPlace
CONSTANTS
    Client = {c1, c2}
    Key = {k1}
    NoClient = none
    MaxCommands = 4
    MaxQueue = 1
PROPERTIES
    WatchedKeysUnchanged
