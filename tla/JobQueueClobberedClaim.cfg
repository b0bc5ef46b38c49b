CONSTANTS
    w1 = w1  w2 = w2  c1 = c1  c2 = c2
    Workers <- MCWorkers
    Clients <- OneClient
    Jobs <- OneJob
    EnrichStages <- OneStage
    NoOwner = NoOwner
    NoJob = NoJob
    NoRecord = NoRecord
    MaxAutoRetries = 1
    Overlap = TRUE
    TornUpdates = FALSE
    ReadErrors = FALSE
    DiskErrors = FALSE
    MaxCrashes = 1
    MaxManual = 0
SPECIFICATION Spec
INVARIANTS
    LiveClaimKept
SYMMETRY Symmetry
