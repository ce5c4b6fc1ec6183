SPECIFICATION Spec
CONSTANTS
    Jobs = {j1, j2}
    Runners = {r1, r2}
    NoJob = NoJob
    MaxAttemptsCeiling = 2
    EpochBound = 3
SYMMETRY Symmetry
INVARIANTS
    TypeOK
    ClaimsExclusive
    BudgetRespected
    RunningIsLeased
PROPERTIES
    FencedForever
    LifecycleSpec
