SPECIFICATION Spec
CONSTANTS
    k1 = k1
    k2 = k2
    Absent = Absent
    Torn = Torn
    Call = {k1, k2}
    Code = {good, bad}
    Good = {good}
    Cases = 2
    MaxRegisters = 3
    MaxEdits = 1
    MaxCrashes = 0
SYMMETRY MCSymmetry
INVARIANTS
    EvaluatedBeforeRun
CHECK_DEADLOCK FALSE
