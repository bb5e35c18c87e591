SPECIFICATION Spec

CONSTANTS
    compress = compress
    extract = extract
    main = main
    Sessions <- MCSessions
    MainWindow = main
    MaxJobs = 2

INVARIANTS
    OneAfterAnother
    NoneEscapes
    WaitersTold

PROPERTIES
    AllLeave
