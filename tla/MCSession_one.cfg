SPECIFICATION Spec
CONSTANTS
    Requests = {r1, r2, r3}
    MaxPairs = 3
SYMMETRY Symmetry
INVARIANTS RunsOnce HeldTokenWorks OneAtATimeStaysIn SignOutRevokes
