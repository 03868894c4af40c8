SPECIFICATION Spec
CONSTANTS
    Source = {s1, s2}
    Worker = {w1, w2}
    None = None
    MaxAttempts = 1
    LeaseTTL = 1
    RetryWait = 1
    ModelWait = 1
    MaxSeq = 2
    MaxGen = 2
    MaxEpoch = 0
    MaxWaits = 1
    MaxCrashes = 1
SYMMETRY Symmetry
CHECK_DEADLOCK FALSE
INVARIANTS NoOvertaking
PROPERTIES LeaseFencing SerialOrder
