SPECIFICATION Spec
CONSTANTS
    s1 = s1
    s2 = s2
    s3 = s3
    Source = {s1, s2}
    NoSource = NoSource
    Order <- InOrder
    End <- EndSeq
    Released0 = 0
    MaxTasks = 2
    MaxAttempts = 1
    MaxMarkers = 2
    Budgets <- OneFault
INVARIANTS
    MemoryInOrder
    NeverReplayed
    NothingForgotten
PROPERTIES
    KeptUntilConsumed
CHECK_DEADLOCK FALSE
