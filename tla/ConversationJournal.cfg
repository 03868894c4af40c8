SPECIFICATION Spec
CONSTANTS
    d1 = d1
    d2 = d2
    f1 = f1
    Request <- Reused
    InStep = FALSE
    Foreground <- One
    MaxFaults = 2
INVARIANTS
    AckedIsStored
    OutboxCoversHistory
    StagedIsCompletable
PROPERTY
    ImplementsLog
