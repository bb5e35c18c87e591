SPECIFICATION WindowSpec

CONSTANTS
    a = a
    b = b
    Archives = {a, b}
    Startup = a
    Kinds = {"test"}
    MaxActs = 3
    MaxStarts = 2
    ForeignKinds = {"test", "edit"}

INVARIANTS
    ListRight
    ReportIsOwn
    DialogSettles

PROPERTIES
    PasswordForAsker

\* The windows rest when nobody asks anything of them.
CHECK_DEADLOCK FALSE
