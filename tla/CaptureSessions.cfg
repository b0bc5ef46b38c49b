SPECIFICATION FairSpec
CONSTANTS
    r1 = r1  a1 = a1  l1 = l1  d1 = d1  h1 = h1  s1 = s1
    NoProc = NoProc
    CliRecorders <- MCCli
    AppRecorders <- MCApp
    Lives <- MCLives
    Dictators <- MCDictators
    Hosts <- MCHosts
    Stoppers <- MCStoppers
    RelayErrors = FALSE
    SlowSession = FALSE
    Recovery = TRUE
CHECK_DEADLOCK FALSE
INVARIANTS
    TypeOK
    OneMicrophone
    TranscriptIsOwn
    CaptureIsOwn
    SensitiveExcludesCapture
PROPERTIES
    StopHeard
    DictationGivesWay
