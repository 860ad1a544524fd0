SPECIFICATION Spec
CONSTANTS
    Requests = {r1, r2}
    Contents = {good, bad}
    Names = {n1}
    None = None
    ContentOf <- TwoBodies
    StagingOf <- OneName
    Size <- Lengths
    Unrecognised = {bad}
    Cancellable = {r1}
    MaxCrashes = 0
    r1 = r1  r2 = r2  r3 = r3  r4 = r4
    good = good  bad = bad
    n1 = n1  n2 = n2  n3 = n3
\* Every upload ends, and nothing happens after the last one.
CHECK_DEADLOCK FALSE
INVARIANTS
    OnlyWholeFiles
