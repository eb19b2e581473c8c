SPECIFICATION Spec
CONSTANTS
    NumTargets = 1
    Locations = {a, b}
    Classes = {"ValueMismatch", "GenerationMismatch"}
    Qualifiers = {q}
    MaxGeneration = 1
    MaxEpoch = 1
    MaxTime = 0
    Policies <- NoPolicy
    Confirmations = {1}
    Material = {FALSE}
    OperatorScope = {}
    MaxTargets = 1
    MaxFindings = 9
    MaxGroups = 9
    MaxSuppressions = 9
    MaxHistory = 2
    MaxTimeline = 2
    Recovery = FALSE
    NoGroup = NoGroup
INVARIANT GroupOfFindingExists
