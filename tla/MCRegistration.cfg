SPECIFICATION RegSpec

CONSTANTS
    zip = zip
    egg = egg
    A = A
    here = here
    there = there
    files = files
    folders = folders
    Ext = {zip, egg}
    Others = {A}
    Ours = Ours
    Nobody = Nobody
    NoBackup = NoBackup
    Handlers = {files, folders}
    Places = {here, there}
    Nowhere = Nowhere
    Missing = Missing
    Unreadable = Unreadable
    Bounds <- Limits

SYMMETRY Same

INVARIANTS
    KeysRight
    SyncDone

PROPERTIES
    NobodyLoses

\* The program rests when nobody starts it or changes a setting.
CHECK_DEADLOCK FALSE
