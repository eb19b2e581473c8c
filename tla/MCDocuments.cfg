SPECIFICATION Spec
CONSTANTS
    IntMax = 3
    Mantissa = 4
    NanosPerSecond = 2
    SecondsPerDay = 2
    MaxNanos = 4000
    Drafts <- MCDrafts
    Limits <- MCLimits
    Edited <- MCEdited
    BaseNodes = 20
    RecordNodes = 25
    ManyNodes = 1000
    SizeMax = 2000
    ManyFields = 16
    OtherNodes = {30, 85, 300}
    CommittedAt = 7
    EditTokens <- MCEditTokens
    MaxEdits = 1
INVARIANTS
    IdentityCoversContent
    NothingSaidIsDropped
    RelationIsMeaning
PROPERTIES
    ArrivesUnchanged
    SurvivesRestart
CHECK_DEADLOCK FALSE
