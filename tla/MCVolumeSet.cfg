SPECIFICATION Spec

CONSTANTS
    Size = 2
    MaxVolumes = 3
    Buffers <- MCBuffers

INVARIANTS
    CutWhole
    NothingLeft

PROPERTIES
    SameAsFile

\* The archive has its name, or it is given up.
CHECK_DEADLOCK FALSE
