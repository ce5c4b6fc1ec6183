SPECIFICATION FairSpec
CONSTANTS
    Jobs = {j1}
    Runners = {r1}
    NoJob = NoJob
    MaxAttemptsCeiling = 2
    EpochBound = 0
    Leaders = {l1}
    Calls = {c1}
    Entries = {1, 2, 3, 4, 5}
    NoEntry = 0
    FaultKinds = {"crash", "store"}
    MaxFaults = 1
    MayCancel = TRUE
    Prompt = TRUE
PROPERTIES
    EventuallySettled
    TransportDrains
CHECK_DEADLOCK FALSE
