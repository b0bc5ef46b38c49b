CONSTANTS
    w1 = w1  w2 = w2  c1 = c1  c2 = c2
    Workers <- MCWorkers
    Clients <- OneClient
    Jobs <- OneJob
    EnrichStages <- OneStage
    NoOwner = NoOwner
    NoJob = NoJob
    NoRecord = NoRecord
    MaxAutoRetries = 0
    Overlap = TRUE
    TornUpdates = FALSE
    ReadErrors = FALSE
    DiskErrors = FALSE
    MaxCrashes = 0
    MaxManual = 1
SPECIFICATION Spec
PROPERTIES
    RecordKept
SYMMETRY Symmetry
