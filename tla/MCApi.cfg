SPECIFICATION Spec
CONSTANTS
    Replicas = {a1, a2}
    Nobody = Nobody
    Files <- MCFiles
    q1 = q1
    q2 = q2
    q3 = q3
    q4 = q4
    k1 = k1
    Requests = {q1, q2, q3, q4}
    NoJob = NoJob
    KeyOf <- MCKeyOf
    NoKey = NoKey
    AsksAttempts <- MCAsks
    DefaultMaxAttempts = 2
    MaxAttemptsCeiling = 3
    MaxFaults = 2
INVARIANTS
    TypeOK
    MigratedOnce
    SchemaIsReady
    OneJobPerKey
    ReceiptIsTrue
PROPERTIES
    OnlyOwnerReleases
    SplitBrainHeals
    AcceptedIsEnqueued
