SPECIFICATION Spec
CONSTANTS
    Jobs = {j1}
    Runners = {r1, r2}
    NoJob = NoJob
    MaxAttemptsCeiling = 2
    EpochBound = 2
    Leaders = {l1}
    Calls = {c1}
    Entries = {1, 2}
    NoEntry = 0
    FaultKinds = {"crash", "store", "confirm", "redis"}
    MaxFaults = 1
    MayCancel = TRUE
    Prompt = FALSE
SYMMETRY Symmetry
INVARIANTS
    TypeOK
    RecordBeforeAck
    SafeUntilFault
PROPERTIES
    StoreSpec
CHECK_DEADLOCK FALSE
