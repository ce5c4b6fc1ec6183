SPECIFICATION Spec
CONSTANTS
    Concurrency = 1
    MinConcurrency = 1
    MaxConcurrency = 2
    FetchBatch = 1
    Targets = {1, 2}
    MaxArrivals = 5
    MaxFaults = 1
INVARIANTS
    TypeOK
    InHandBounded
    CleanDrain
PROPERTIES
    NoGhostWorker
    DrainEnds
    ReadyIsFetched
CHECK_DEADLOCK FALSE
