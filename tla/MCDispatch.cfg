CONSTANTS
    c1 = c1
    c2 = c2
    s1 = s1
    Cfg <- MCCfg
    Svc <- MCSvc
    NoId = NoId
    NoVal = NoVal
    MaxParams = 5
    MaxGroup = 5
    Comp <- MCComp
    Val <- MCVal
    DefaultVal = 0
    SigChoices <- MCSigScenario
    Mode <- MCModeScenario
    DebugAsserts = TRUE
    LateInit = FALSE
    RetryOnError = TRUE
    MaxQueue = 2
SPECIFICATION Spec
INVARIANT TypeOK
INVARIANT ConfigReadsFrozen
PROPERTY LockedConfigStable
CHECK_DEADLOCK FALSE
