SPECIFICATION FairSpec
CONSTANTS
    e1 = e1
    e2 = e2
    e3 = e3
    Requests = {e1, e2, e3}
    BasisOf <- MCBasis
    Wavering = {e1}
    WindowEnd <- MCWindowEnd
    Deadline <- MCDeadline
    MaxTime = 3
    Sessions = {s1}
    RepliesLater = {}
    MaxTurns = 1
    MaxAttempts = 1
    ClaimLimit = 1
    MaxCrashes = 0
    MaxFailures = 1
    MaxRefused = 0
INVARIANT
    OneOpenPerMoment
PROPERTIES
    UnsaidIsHandedOver
    AwaitingEnds
CHECK_DEADLOCK FALSE
