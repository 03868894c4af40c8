SPECIFICATION FairSpec
CONSTANTS
    None = None
    Worker = {w1, w2}
    Plan = {p1, p2}
    NJobs = 2
    MaxAttempts = 2
    MaxRecords = 1
    MaxFaults = 2
    MaxLapses = 1
    MaxRetries = 1
INVARIANTS
    ReceiptCompletes
    AppliedOnceInOrder
    CommittedIsBacked
    JournalsBounded
PROPERTIES
    EveryJobEnds
CHECK_DEADLOCK FALSE
