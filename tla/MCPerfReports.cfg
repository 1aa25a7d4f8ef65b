SPECIFICATION Spec
CONSTANTS
    Absent = Absent
    CASE_NAMES <- MCCases
    Paths = {"default", "dated"}
    Profiles <- MCProfiles
    Probes <- MCProbes
    Baselines <- MCBaselines
    StatusDocs = {"README", "DoD"}
    OtherDocs = {"Quickstart"}
    MaxWork = 4
INVARIANTS
    StatusesAgree
    DebtIsQueued
    GreenMeansCompared
CHECK_DEADLOCK FALSE
