\* Three connections against one place, and one restart.
CONSTANTS
    Connections = 3
    MaxSessions = 1
    MaxStarts = 2
SPECIFICATION Spec
INVARIANTS
    SlotStillThere
    QuietAfterStop
PROPERTIES
    StopReturns
    StatsReturns
\* A stopped server that nobody starts again, and that nobody asks, stays so.
CHECK_DEADLOCK FALSE
