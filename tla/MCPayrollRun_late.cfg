SPECIFICATION FairSpec
CONSTANTS
    Employees = {e1, e2}
    Sessions = {s1}
    Workers = {w1}
    Figures = {f1}
    Broken = Broken
    Malformed = {bad}
    Edited = Edited
    Nobody = Nobody
    NoRollup = NoRollup
    MaxDispatch = 1
    MaxRedeliver = 1
    Mortal = {}
    MaxCrashes = 0
    Instalments = 1
PROPERTIES
    LockHolds
    CallbackRuns
