SPECIFICATION FromM1
CONSTANTS
    d1 = d1
    d2 = d2
    m1 = m1
    m2 = m2
    m3 = m3
    Docs <- OneDoc
    Models <- TwoModels
    DimOf <- Dims
    OneIndex = TRUE
    MaxContent = 1
    Texts = {1, 2}
    StaleRetries = 1
    ReadAttempts = 1
    MaxJobs = 1
    MaxUpkeeps = 1
    MaxFaults = 1
    MaxConfigs = 1
    MaxGen = 20
INVARIANTS PublicationIsWhole AnswersOnePublication IndexFollowsTree
PROPERTIES OwedIsFinished
