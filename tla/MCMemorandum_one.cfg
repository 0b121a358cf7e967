CONSTANTS
    Initiator = Initiator
    Nobody = Nobody
    a = a
    b = b
    c = c
    Staff = {a, b, c}
    Chains <- MCChains
    Sessions = {s1}
    MaxEdits = 1
SYMMETRY Alike
SPECIFICATION Spec
INVARIANTS OnOneDesk HandledStay DecidedBy 
PROPERTIES DecidedFinal ImplementsCirculation
