SPECIFICATION Spec

CONSTANTS
    Backends = {"zip", "egg", "7z"}
    Archives <- MCArchives
    Paths <- MCPaths
    Olds = {"a"}
    NewNames <- MCNewNames
    Chunks = 1

INVARIANTS
    FilesWhole
    OkMeansAll

PROPERTIES
    AnswersKept
    EndsOrRetries

\* The extraction comes to its end.
CHECK_DEADLOCK FALSE
