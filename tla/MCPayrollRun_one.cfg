SPECIFICATION Spec
CONSTANTS
    Employees = {e1, e2}
    Sessions = {s1}
    Workers = {w1, w2}
    Figures = {f1, f2}
    Broken = Broken
    Malformed = {bad}
    Edited = Edited
    Nobody = Nobody
    NoRollup = NoRollup
    MaxDispatch = 1
    MaxRedeliver = 0
    Mortal = {w1, w2}
    MaxCrashes = 1
    Instalments = 2
SYMMETRY Symmetry
INVARIANTS
    LockedIsFinal
PROPERTIES
    ImplementsPeriod
