SPECIFICATION Spec
CONSTANTS
    e1 = e1
    e2 = e2
    e3 = e3
    Requests = {e1}
    BasisOf <- MCBasis
    Wavering = {}
    WindowEnd <- MCWindowEnd
    Deadline <- MCDeadline
    MaxTime = 2
    Sessions = {s1, s2}
    RepliesLater = {s2}
    MaxTurns = 1
    MaxAttempts = 1
    ClaimLimit = 1
    MaxCrashes = 1
    MaxFailures = 1
    MaxRefused = 1
INVARIANTS
    SpokenOnce
    QuestionRecognised
    AnswersKept
CHECK_DEADLOCK FALSE
