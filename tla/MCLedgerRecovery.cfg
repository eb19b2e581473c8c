SPECIFICATION Spec
CONSTANTS
    NumTargets = 1
    Locations = {a}
    Classes = {"GenerationMismatch", "IntentMissing"}
    Qualifiers = {q}
    MaxGeneration = 2
    MaxEpoch = 1
    MaxTime = 1
    Policies <- SuppressUntilOne
    Confirmations = {2}
    Material = {FALSE}
    OperatorScope = {}
    MaxTargets = 1
    MaxFindings = 2
    MaxGroups = 17
    MaxSuppressions = 1
    MaxHistory = 1
    MaxTimeline = 1
    Recovery = TRUE
    NoGroup = NoGroup
INVARIANT LiveFindingsTrackBaseline
INVARIANT GroupsConsistent
PROPERTY ImplementsLifecycle

