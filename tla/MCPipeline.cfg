SPECIFICATION Spec

CONSTANTS
    w1 = w1
    w2 = w2
    NItems = 6
    Size <- MCSizes
    Grown = {4}
    Workers <- MCWorkers
    Budget = 16
    MaxEntry = 8
    MinItems = 5
    MaxPanics = 1

INVARIANTS
    MemoryBounded

PROPERTIES
    Creation
    AllEnd

\* Creating an archive comes to an end.
CHECK_DEADLOCK FALSE
