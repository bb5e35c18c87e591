SPECIFICATION Spec

CONSTANTS
    w1 = w1
    w2 = w2
    Declared = 5
    Workers <- MCWorkers
    SlotsPerWorker = 2
    MaxPanics = 1
    MayBreak = TRUE

INVARIANTS
    ChunksCounted
    WholeFile

PROPERTIES
    AllEnd

\* The compression comes to its end.
CHECK_DEADLOCK FALSE
