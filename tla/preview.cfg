SPECIFICATION PreviewSpec
CONSTANTS
    Values <- MCValues
    Files <- MCFiles
    Mappings <- MCMappings
    Letters <- MCLetters
    Digits = {"0"}
    Nesting = 6
    Secret <- TheSecret
    Malformed = Malformed
    NullParameter = NullParameter
    RegexExtractor = FALSE
    SampleSize = 3
    RowsShown = 2
    MaxValueLength = 4
    MaxListItems = 2
    MaxRecords = 3
    MaxDepth = 3
INVARIANTS
    ProfiledPathsResolve
    NoSecretIsSent
    ValidMappingsRun
    NothingLostInSilence
    RowsAreSound
CHECK_DEADLOCK FALSE
