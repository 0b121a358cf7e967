SPECIFICATION Spec
CONSTANTS
    r1 = r1
    r2 = r2
    Requests = {r1, r2}
    YearOf <- BothYears
    Days <- Costs
    Chains <- Unmanned
    Quota = 2
    Carry = 1
    Nothing = Nothing
    Sessions = {s1}
    MaxChanges = 1
    MaxCrashes = 1
INVARIANTS
    StepsSigned
    HRSigns
    NeverStalls
PROPERTIES
    Implements
