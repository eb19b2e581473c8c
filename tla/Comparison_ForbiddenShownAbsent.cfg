SPECIFICATION Spec
CONSTANTS
    IntMax = 3
    Target = "t"
    LiveEpoch = 1
    Baselines <- MCBaselines
    Snapshots <- MCSnapshots
    PolicyChoices <- MCPolicies
    Combines <- MCCombines
    MaxRetained = 2
    MaxNow = 3
    MaxConflictSources = 8
    NoBaseline = NoBaseline
    Null = Null
INVARIANT ForbiddenShownAbsent
CHECK_DEADLOCK FALSE
