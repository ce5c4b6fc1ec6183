SPECIFICATION Spec
CONSTANTS
    Jobs = {j1}
    Runners = {r1}
    NoJob = NoJob
    MaxAttemptsCeiling = 2
    EpochBound = 0
    Leaders = {l1, l2}
    Calls = {c1}
    Entries = {1, 2, 3, 4, 5}
    NoEntry = 0
    FaultKinds = {"crash"}
    MaxFaults = 1
    MayCancel = FALSE
    Prompt = TRUE
SYMMETRY Symmetry
INVARIANTS
    NoStrandedJob
CHECK_DEADLOCK FALSE
