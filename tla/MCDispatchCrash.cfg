SPECIFICATION Spec
CONSTANTS
    Jobs = {j1}
    Runners = {r1, r2}
    NoJob = NoJob
    MaxAttemptsCeiling = 2
    EpochBound = 0
    Leaders = {l1}
    Calls = {c1}
    Entries = {1, 2, 3, 4, 5}
    NoEntry = 0
    FaultKinds = {"crash", "store"}
    MaxFaults = 2
    MayCancel = FALSE
    Prompt = TRUE
SYMMETRY Symmetry
INVARIANTS
    NoStrandedJob
CHECK_DEADLOCK FALSE
