SPECIFICATION FairSpec
CONSTANTS
    Suspensions <- TwoSuspensions
    Events <- OneEvent
    MaxDay = 2
INVARIANTS
    LeaverStaysOut
    VisibleCause
    DueIsApplied
PROPERTIES
    NobodyLeftLocked
