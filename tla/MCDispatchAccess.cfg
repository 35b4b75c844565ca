CONSTANTS
    c1 = c1
    c2 = c2
    s1 = s1
    Cfg <- MCCfg
    Svc <- MCSvc
    NoId = NoId
    NoVal = NoVal
    MaxParams = 5
    MaxGroup = 5
    Comp <- MCCompOne
    Val <- MCVal
    DefaultVal = 0
    SigChoices <- MCSigAll
    Mode <- MCModeAll
    DebugAsserts = TRUE
    LateInit = FALSE
    RetryOnError = FALSE
    MaxQueue = 2
SPECIFICATION Spec
INVARIANT InitAbortIffConflict
CHECK_DEADLOCK FALSE
