SPECIFICATION Spec
CONSTANTS
    MinConcurrency = 2
    MaxConcurrency = 3
    GrowAt = 2
    IdleAfter = 2
    Backlogs = {0, 1, 6}
    Loads = {0, 3}
    Sessions = {s1, s2}
    NoSession = NoSession
    Concurrency = 2
    Targets = {0, 4, 9}
    Int32Half = 8
    CmdCap = 1
    WireCap = 1
    MaxFaults = 1
INVARIANTS
    TypeOK
    RegisteredIsLive
    ServingIsRegistered
PROPERTIES
    ShrinkIsReluctant
    EventuallyConnected
    DrainIsCarriedOut
CHECK_DEADLOCK FALSE
