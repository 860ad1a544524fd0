SPECIFICATION Spec
CONSTANTS
    Clients = {c1, c2}
    Workers = {w1, w2}
    Stoppable = {w1}
    Drainers = {w1}
    None = None
    Files = {f1}
    Mappings = {m1}
    Compatible <- AllCompatible
    Faults = TRUE
    MaxRuns = 2
    MaxRequests = 2
    MaxRestarts = 1
\* An idle worker polls without changing anything, and requests are bounded:
\* the system may come to rest.
CHECK_DEADLOCK FALSE
SYMMETRY ClientSymmetry
INVARIANTS
    OneWorkerPerRun
    ClaimedAtMostOnce
    NoDoubleLaunch
PROPERTIES
    RunsSpec
