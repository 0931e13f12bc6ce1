SPECIFICATION MCSpec

CONSTANTS
    Numbers = {"0", "3", "9", "0.5", "-2.5", "0.005", "-0.005", "35", "300", "."}
    ValueOf <- MCValueOf
    MaxDepth = 3
    MaxTokens = 3
    MaxBits = 8
    MaxText = 5
    MaxValues = 2
    MaxPrecision = 2
    LongUnits = {"overlong"}
    Subseconds = 4
    Units = 4
    ZoneOf <- MCZoneOf
    Unknown = "nowhere"
    MaxWords = 6
    MaxList = 3
    MaxNow = 60
    Annotations = {"description", "title", "$comment", "examples", "default", "deprecated", "readOnly", "writeOnly"}
    Oversized = {"overlong"}
    LocalRefs = {"#/local"}
    MaxSchemaDepth = 6
    MaxChildren = 5
    MaxTools = 2
    Names = {"id", "note"}

INVARIANTS
    AnswersAreExact
    DatesAreMeant
    CatalogFitsRemote

CHECK_DEADLOCK FALSE
