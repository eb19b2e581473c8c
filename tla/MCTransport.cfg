SPECIFICATION Spec
CONSTANTS
    first = first
    second = second
    other = other
    c1 = c1
    c2 = c2
    src = src
    Publishers = {first, second, other}
    Sources = {src}
    Contents = {c1, c2}
    Config <- Processes
    Offered <- Readings
    Stored <- Earlier
    MaxConnections = 2
    MaxSessions = 2
    MaxSources = 1
    MaxOthers = 1
    MaxInFlight = 2
    NoDigest = NoDigest
INVARIANT FenceDominates
INVARIANT SequenceNamesOneSnapshot
INVARIANT AcceptedIsRecorded
PROPERTY FenceMonotone
