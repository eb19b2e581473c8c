SPECIFICATION Spec
CONSTANTS
    Threads = {e1}
    Targets = {t1}
    Policies = {p1, p2}
    Contents = {c1}
    MaxGeneration = 1
    MaxIncarnation = 1
    MaxEpoch = 1
    Recovery = FALSE
    NoContent = NoContent
PROPERTY DigestNamesPolicy
