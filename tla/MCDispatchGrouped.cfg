CONSTANTS
    c1 = c1
    c2 = c2
    s1 = s1
    Cfg <- MCCfg
    Svc <- MCSvc
    NoId = NoId
    NoVal = NoVal
    MaxParams = 5
    MaxGroup = 5
    Comp <- MCComp
    Val <- MCVal
    DefaultVal = 0
    SigChoices <- MCSigGrouped
    Mode <- MCModeScenario
    DebugAsserts = TRUE
    LateInit = FALSE
    RetryOnError = FALSE
    MaxQueue = 2
SPECIFICATION Spec
INVARIANT ConfigReadsFrozen
CHECK_DEADLOCK FALSE
