SPECIFICATION MetricsSpec
CONSTANTS
    main = main
    worker = worker
    r1 = r1
    r2 = r2
    Thread <- MCThread
    Main = main
    Reporter <- MCReporter
    Free = Free
    NoThread = NoThread
    Recorded = {"transfer"}
    Bytes = 2
    MaxCount = 1
INVARIANTS
    MetricsTypeOK
    OneReporter
PROPERTIES
    SnapshotsAreWhole
    KeepsReporting
    StopEnds
