SPECIFICATION Spec

CONSTANTS
    MaxRequests = 3
    MaxWindows = 3
    Keep = 1
    Empty = {2}

INVARIANTS
    CarriedOutOnce
    LeasesOwned

PROPERTIES
    Handoff
    EveryoneServed

\* The system rests when nobody issues a request any more.
CHECK_DEADLOCK FALSE
