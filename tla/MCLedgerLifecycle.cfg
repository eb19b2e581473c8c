SPECIFICATION Spec
CONSTANTS
    NumTargets = 1
    Locations = {a}
    Classes = {"IntentMissing", "GenerationMismatch", "PartialApplication"}
    Qualifiers = {q}
    MaxGeneration = 2
    MaxEpoch = 1
    MaxTime = 1
    Policies <- SuppressUntilOne
    Confirmations = {0}
    Material = {FALSE}
    OperatorScope = {a, "@target"}
    MaxTargets = 1
    MaxFindings = 2
    MaxGroups = 1
    MaxSuppressions = 1
    MaxHistory = 2
    MaxTimeline = 2
    Recovery = FALSE
    NoGroup = NoGroup
INVARIANT SuppressedHasReason
PROPERTY ClosedReopensCurrent
PROPERTY OperatorSuppressionKept
PROPERTY RefusedUnlessGroupsFull
VIEW LedgerView
