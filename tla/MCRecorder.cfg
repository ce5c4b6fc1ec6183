SPECIFICATION Spec
CONSTANTS
    Jobs = {j1}
    r1 = r1
    r2 = r2
    Runners = {r1, r2}
    NoJob = NoJob
    MaxAttemptsCeiling = 2
    EpochBound = 2
    Deployments <- Deployed
    Reported = {"complete", "retry", "dead"}
    MaxSize = 2
    MaxFaults = 1
INVARIANTS
    TypeOK
    AnswerIsDurable
    AppliedIsTrue
    HistoryTellsOutcome
    Unresolved
PROPERTIES
    LifecycleSpec
    QueuedIsFlushed
