CONSTANTS
    c1 = c1
    c2 = c2
    s1 = s1
    Cfg <- MCCfg
    Svc <- MCSvc
    NoId = NoId
    NoVal = NoVal
    MaxParams = 5
    MaxGroup = 5
    Comp <- MCCompPair
    Val <- MCVal
    DefaultVal = 0
    SigChoices <- MCSigScenario
    Mode <- MCModeScenario
    DebugAsserts = TRUE
    LateInit = FALSE
    RetryOnError = FALSE
    MaxQueue = 2
SPECIFICATION FairSpec
PROPERTY RunOnceEventuallyRuns
CHECK_DEADLOCK FALSE
INVARIANT NoRunPanic
