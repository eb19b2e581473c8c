\* Two processes; a ledger of two changes can be saved and not loaded.
CONSTANTS
    Processes = {p1, p2}
    Epochs = {1, 2}
    MaxBlocks = 3
    MaxPayload = 1
    MaxChanges = 2
    MaxInvocations = 3
SYMMETRY Symmetry
SPECIFICATION Spec
INVARIANTS
    LoadedWasSaved
    ConfirmedIsDurable
\* Every process may have ended and the bound on invocations be reached.
CHECK_DEADLOCK FALSE
