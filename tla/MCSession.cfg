SPECIFICATION Spec

CONSTANTS
    a = a
    b = b
    inner = inner
    Archives = {a, b, inner}
    Locked = {b}
    ItemOf <- Items
    Plain = Plain
    Nothing = Nothing
    MaxViewers = 2
    MaxActs = 3
    MaxEdits = 1

INVARIANTS
    OpenedOnce
    ItemIsRight

\* The windows rest when nobody asks anything of them.
CHECK_DEADLOCK FALSE
