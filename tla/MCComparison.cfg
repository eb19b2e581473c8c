SPECIFICATION Spec
CONSTANTS
    IntMax = 3
    Target = "t"
    LiveEpoch = 1
    Baselines <- MCBaselines
    Snapshots <- MCSnapshots
    PolicyChoices <- MCPolicies
    Combines <- MCCombines
    MaxRetained = 2
    MaxNow = 3
    MaxConflictSources = 8
    NoBaseline = NoBaseline
    Null = Null
INVARIANTS
    CompliantOnlyIfShown
    AbsenceNeedsEvidence
    OutcomeFitsLedger
    MostSpecificRuleDecides
PROPERTIES
    StaleStaysStale
CHECK_DEADLOCK FALSE
