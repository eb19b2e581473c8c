SPECIFICATION Spec
CONSTANTS
    Threads = {e1}
    Targets = {t1}
    Policies = {p1}
    Contents = {c1, c2}
    MaxGeneration = 2
    MaxIncarnation = 2
    MaxEpoch = 1
    Recovery = TRUE
    NoContent = NoContent
PROPERTY StopDrains
PROPERTY RotatedWritesNothing
PROPERTY PartialNotPublished
PROPERTY StaleOnlyAfterLoad
PROPERTY StopReturns
