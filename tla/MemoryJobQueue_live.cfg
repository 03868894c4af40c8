SPECIFICATION FairSpec
CONSTANTS
    Source = {s1, s2}
    Worker = {w1}
    None = None
    MaxAttempts = 1
    LeaseTTL = 2
    RetryWait = 1
    ModelWait = 1
    MaxSeq = 2
    MaxGen = 6
    MaxEpoch = 1
    MaxWaits = 0
    MaxCrashes = 1
CHECK_DEADLOCK FALSE
INVARIANTS AbandonedNeverCommitted
PROPERTIES OldestSettles
