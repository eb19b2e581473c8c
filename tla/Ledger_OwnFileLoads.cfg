SPECIFICATION Spec
CONSTANTS
    NumTargets = 1
    Locations = {a}
    Classes = {"ValueMismatch"}
    Qualifiers = {q}
    MaxGeneration = 1
    MaxEpoch = 1
    MaxTime = 0
    Policies <- NoPolicy
    Confirmations = {1}
    Material = {FALSE}
    OperatorScope = {}
    MaxTargets = 1
    MaxFindings = 2
    MaxGroups = 9
    MaxSuppressions = 1
    MaxHistory = 3
    MaxTimeline = 9
    Recovery = TRUE
    NoGroup = NoGroup
INVARIANT OwnFileLoads
