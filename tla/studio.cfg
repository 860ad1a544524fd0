SPECIFICATION FairSpec
CONSTANTS
    Requests = {r1, r2, r3}
    Others = {r3}
    None = None
    MaxIterations = 2
    MAX_ATTEMPTS = 2
    MaxTurns = 1
    MaxFiles = 2
    MaxEdits = 2
\* The requests are bounded: the page may come to rest.
CHECK_DEADLOCK FALSE
INVARIANTS
    TranscriptFollowsTheMapping
    PromptCoversTheMapping
    RepliesAreTrue
    PatientStaysWithTheFile
PROPERTIES
    EveryRequestIsAnswered
