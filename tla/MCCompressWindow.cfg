SPECIFICATION Spec

CONSTANTS
    MaxRequests = 3
    Kind <- MCKind
    Last = 1
    Cap = 1
    MaxAdds = 1
    MaxJobs = 3
    MaxForeign = 1

INVARIANTS
    RequestsKept
    HonestResult
    HearsEnd

\* The window rests when nobody asks anything of it.
CHECK_DEADLOCK FALSE
