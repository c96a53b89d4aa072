SPECIFICATION Spec
CONSTANTS
    g1 = g1
    g2 = g2
    Goal = {g1}
    Run = {r1, r2, r3}
    NoRun = NoRun
    NoGoal = NoGoal
    MaxRetries <- MCMaxRetries
    Priority <- MCPriority
    Canceller = {c1}
    MaxConcurrent = 1
    MaxParks = 1
    MaxCrashes = 1
INVARIANTS
    TypeOK
    ExecutionsWithinAttempts
    AttemptBudget
    
    FailedIsExhausted
PROPERTIES
    KeepsContract
SYMMETRY Symmetry
CHECK_DEADLOCK FALSE
