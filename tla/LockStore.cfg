SPECIFICATION FairSpec
CONSTANTS
    Client = {c1, c2}
    Key = {k1, k2}
    None = None
    NoRow = NoRow
    TTL = 1
    BusyWait = 1
    MaxGrants = 2
    MaxTime = 4
    MaxSteps = 1
CHECK_DEADLOCK FALSE
INVARIANTS FencedIsCurrent
PROPERTIES NoEviction AbandonedLeaseEnds
