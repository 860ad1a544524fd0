SPECIFICATION FairSpec
CONSTANTS
    Requests = {r1, r2, r3, r4}
    Contents = {good, bad}
    Names = {n1, n2, n3}
    None = None
    ContentOf <- Bodies
    StagingOf <- Reused
    Size <- Lengths
    Unrecognised = {bad}
    Cancellable = {r2}
    MaxCrashes = 1
    r1 = r1  r2 = r2  r3 = r3  r4 = r4
    good = good  bad = bad
    n1 = n1  n2 = n2  n3 = n3
\* Every upload ends, and nothing happens after the last one.
CHECK_DEADLOCK FALSE
INVARIANTS
    OnlyWholeFiles
    StagingIsOwned
PROPERTIES
    StoreSpec
    EveryUploadEnds
