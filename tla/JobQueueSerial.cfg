CONSTANTS
    w1 = w1  w2 = w2  c1 = c1  c2 = c2
    Workers <- MCWorkers
    Clients <- OneClient
    Jobs <- OneJob
    EnrichStages <- OneStage
    NoOwner = NoOwner
    NoJob = NoJob
    NoRecord = NoRecord
    MaxAutoRetries = 1
    Overlap = FALSE
    TornUpdates = FALSE
    ReadErrors = TRUE
    DiskErrors = FALSE
    MaxCrashes = 2
    MaxManual = 1
SPECIFICATION Spec
INVARIANTS
    TypeOK
    RetryableHasAudio
    CrashLoopBounded
    Filed
PROPERTIES
    ImplementsLifecycle
SYMMETRY Symmetry
