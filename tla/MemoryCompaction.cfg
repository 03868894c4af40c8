SPECIFICATION FairSpec
CONSTANTS
    Users = {u1}
    MaxK = 2
    MaxBorn = 2
    MaxUses = 1
    MaxTicks = 4
    MaxFaults = 1
INVARIANTS
    OriginalKept
    EditsSurvive
    ReturnsOriginal
PROPERTIES
    RetiredWasUnused
    EndsUnlessOvertaken
CHECK_DEADLOCK FALSE
