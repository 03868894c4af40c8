SPECIFICATION FairSpec
CONSTANTS
    s1 = s1
    s2 = s2
    s3 = s3
    Source = {s1}
    NoSource = NoSource
    Order <- InOrder
    End <- EndSeq
    Released0 = 0
    MaxTasks = 2
    MaxAttempts = 2
    MaxMarkers = 2
    Budgets <- FailAndCrash
PROPERTIES
    AcceptedIsProcessed
CHECK_DEADLOCK FALSE
