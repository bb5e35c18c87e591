SPECIFICATION Spec

CONSTANTS
    Places <- MCPlaces
    Cap = 1
    Worlds <- MCWorlds
    Lines <- MCLines
    Asked <- MCAsked
    Inside = FALSE

INVARIANTS
    Honest
    ContentsRight
    SourcesSafe

\* zm ends with its exit code.
CHECK_DEADLOCK FALSE
