SPECIFICATION ServicesSpec

CONSTANTS
    w1 = w1
    w2 = w2
    r1 = r1
    e1 = e1
    e2 = e2
    t1 = t1
    c1 = c1
    m1 = m1
    p1 = p1
    p2 = p2
    s1 = s1
    d1 = d1
    q1 = q1
    q2 = q2
    k1 = k1
    a1 = a1
    a2 = a2
    f1 = f1
    g1 = g1
    n1 = n1
    n2 = n2
    v1 = v1
    v2 = v2
    j1 = j1
    j2 = j2
    j3 = j3
    u1 = u1
    u2 = u2
    x1 = x1
    x2 = x2
    EvWriters <- MCEvWriters
    EvReaders <- MCEvReaders
    EvNobody = EvNobody
    EvRotateAt = 2
    EvMaxSeq = 3
    EvMaxFaults = 1
    LsIds <- MCLsIds
    LsObserved <- MCLsObserved
    LsTurnIds <- MCLsTurnIds
    LsCaptures <- MCLsCaptures
    LsMeetings <- MCLsMeetings
    LsLabels <- MCLsLabels
    LsNames <- MCLsNames
    LsGenerations <- MCLsGenerations
    LsNone = LsNone
    LsLimit = 3
    CrPartials <- MCCrPartials
    CrNone = CrNone
    CrQueueMax = 1
    CrMaxRevision = 2
    CrMaxEpoch = 2
    CrMaxControls = 1
    CdQueueMax = 2
    CdMaxEpoch = 2
    CdMaxRequests = 3
    CoSessions <- MCCoSessions
    CoDesktop <- MCCoDesktop
    CoCommands <- MCCoCommands
    CoAppCommands <- MCCoAppCommands
    CoNone = CoNone
    RlClients <- MCRlClients
    RlNobody = RlNobody
    RlCapacity = 2
    RlPipe = 2
    RlMaxSeq = 4
    RlMaxSessions = 2
    RlMaxBreaks = 1
    WtWatchers <- MCWtWatchers
    WtNames <- MCWtNames
    WtFree = WtFree
    WtTorn = WtTorn
    WtMaxVersion = 2
    WtBothWork = FALSE
    ApOther = ApOther
    ApMaxLaunches = 2
    ApMaxOthers = 1
    DkRequests <- MCDkRequests
    DkMaxCrashes = 1
    DkMixed = FALSE
    CeMaxRecordings = 2
    CeMaxCalls = 2
    CeCountdowns <- MCCeCountdowns
    PsModels <- MCPsModels
    PsMaxCalls = 2
    LqCap = 2
    LqLongest = 2
    LqUtterances = 4
    LqCounterSize = 16
    MdJobs <- MCMdJobs
    MdBackground <- MCMdWorker
    MdApp <- MCMdApp
    MdCli <- MCMdCommands
    MdKeep = 2
    MdCopies = 2
    MdInodes = 5
    MdSeconds = 2
    MdThere <- MCMdThere
    MdNone = MdNone

CHECK_DEADLOCK FALSE

INVARIANTS
    ServicesTypeOK
    EventLogKept
    DepthIsOwn
    
    LaunchesApart
    RequestsServed
    BacklogHonest

PROPERTIES
    SidekickConsistent
    
    GuidanceKept
    ControlsHeard
    RelayComplete
    CountdownScoped
    SidecarSound
    StopsReturn
