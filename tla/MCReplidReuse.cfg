SPECIFICATION Spec
CONSTANTS
    Node = {n1, n2}
    NoNode = none
    SizeLimit = 2
    MaxWrites = 3
    MaxResets = 1
    MaxRestarts = 0
    MaxFailures = 0
CHECK_DEADLOCK FALSE
INVARIANTS
    EveryIdNamesData
