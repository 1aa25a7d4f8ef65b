SPECIFICATION Spec
CONSTANTS
    Absent = Absent
    CASE_NAMES <- MCCases
    Paths = {"default", "dated"}
    Profiles <- MCProfiles
    Probes <- MCProbes
    Baselines <- MCBaselines
    StatusDocs = {"README", "DoD"}
    OtherDocs = {"Quickstart"}
    MaxWork = 4
INVARIANT
    GreenMeansAbsolute
CHECK_DEADLOCK FALSE
