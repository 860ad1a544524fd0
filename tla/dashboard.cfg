SPECIFICATION Spec
CONSTANTS
    SessionRow <- MCSessionRow
    ModelCallRow <- MCModelCallRow
    ToolCallRow <- MCToolCallRow
    RunSource <- MCRunSource
    Batches <- MCBatches
    Filters <- MCFilters
    DayLength = 2
    Null = Null
    Watched = 1
    PageSize = 2
    MaxLoaded = 5
INVARIANTS
    VolumetryAddsUp
    PointsReplay
    NeverAConfidentZero
    TimelineMissesNothing
