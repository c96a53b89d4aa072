SPECIFICATION Spec
CONSTANTS
    k1 = k1
    k2 = k2
    Absent = Absent
    Torn = Torn
    Call = {k1, k2}
    Code = {good, bad}
    Good = {good}
    Cases = 2
    MaxRegisters = 3
    MaxEdits = 2
    MaxCrashes = 1
SYMMETRY MCSymmetry
INVARIANTS
    TypeOK
    
    RunsEvaluatedCode
CHECK_DEADLOCK FALSE
