SPECIFICATION FairSpec
CONSTANTS
    Absent = Absent
    Rounds = 2
    MaxMains = 2
INVARIANTS
    SampleIsReal
    SampleHoldsDataset
    ReportIsComplete
    NothingLeftBehind
PROPERTIES
    RunsEnd
CHECK_DEADLOCK FALSE
