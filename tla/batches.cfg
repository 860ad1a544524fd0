SPECIFICATION FairSpec
CONSTANTS
    Runs = {1, 2, 3, 4}
    Content <- AllFiles
    None = None
    BatchSize = 2
    MaxRunning = 2
    Faults = TRUE
    a = a
    b = b
    bash = bash
    read = read
\* Every run ends, and nothing happens after the last one.
CHECK_DEADLOCK FALSE
INVARIANTS
    NothingLost
    Provenance
    ReportIsExact
PROPERTIES
    StoreSpec
    EveryRunEnds
