SPECIFICATION Spec
CONSTANTS
    Payslips = {p1, p2}
    ZeroNet = {}
    Banks = {b1, b2}
    NoBank = NoBank
    Nothing = Nothing
    Sessions = {s1}
    MaxBuilds = 2
    MaxFiles = 2
    MaxMoves = 1
    MaxCrashes = 1
SYMMETRY Symmetry
INVARIANTS
    OneInstruction
    FileMatches
    AckPays
    NobodyMissing
