SPECIFICATION Spec
CONSTANTS
    NumTargets = 2
    Locations = {a}
    Classes = {"GenerationMismatch"}
    Qualifiers = {q}
    MaxGeneration = 1
    MaxEpoch = 1
    MaxTime = 0
    Policies <- NoPolicy
    Confirmations = {1}
    Material = {FALSE}
    OperatorScope = {}
    MaxTargets = 2
    MaxFindings = 9
    MaxGroups = 1
    MaxSuppressions = 9
    MaxHistory = 2
    MaxTimeline = 2
    Recovery = FALSE
    NoGroup = NoGroup
PROPERTY RefusedAsAWhole
