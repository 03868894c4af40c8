SPECIFICATION FairSpec
CONSTANTS
    Doc = {d1, d2}
    Txn = {t1}
    JobTxn = {t1}
    Attempt = {a1}
    Reader = {r1}
    None = None
    Missing = Missing
    Old = Old
    Recovery = Recovery
    MaxFaults = 2
INVARIANTS ReadsAreConsistent
PROPERTIES CommitsAtomically PendingIsResolved
CHECK_DEADLOCK FALSE
