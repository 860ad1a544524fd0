SPECIFICATION FairSpec
CONSTANTS
    Clients = {c1, c2}
    Workers = {w1, w2}
    Stoppable = {w1}
    Drainers = {}
    None = None
    Files = {f1}
    Mappings = {m1, m2}
    Compatible <- AllCompatible
    Faults = FALSE
    MaxRuns = 2
    MaxRequests = 2
    MaxRestarts = 0
\* An idle worker polls without changing anything, and requests are bounded:
\* the system may come to rest.
CHECK_DEADLOCK FALSE
INVARIANTS
    RealTimeOrder
PROPERTIES
    QueuedRunsSettle
    StopTakesEffect
