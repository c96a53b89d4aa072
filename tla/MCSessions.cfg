SPECIFICATION Spec
CONSTANTS
    s1 = s1
    s2 = s2
    c1 = c1
    c2 = c2
    c3 = c3
    NoSession = NoSession
    Session = {s1, s2}
    Objective = {o1, o2}
    Column = {"run_ids", "goal_ids"}
    Client = {c1, c2, c3}
    Phases = 1
SYMMETRY MCSymmetry
INVARIANTS
    TypeOK
    NothingLost
    
PROPERTIES
    EndedStaysEnded
CHECK_DEADLOCK FALSE
