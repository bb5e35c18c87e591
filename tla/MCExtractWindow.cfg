SPECIFICATION ExtractSpec

CONSTANTS
    a = a
    b = b
    c = c
    Chosen = {a, b, c}
    Verb <- MCVerb
    MaxJobs = 2
    Crossing = FALSE

INVARIANTS
    FromShellToJob
    HonestEnd

PROPERTIES
    RequestTaken
    RunningEnds

\* The windows rest when nobody asks anything of them.
CHECK_DEADLOCK FALSE
