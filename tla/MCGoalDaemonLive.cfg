SPECIFICATION FairSpec
CONSTANTS
    g1 = g1
    g2 = g2
    Goal = {g1}
    Run = {r1, r2}
    NoRun = NoRun
    NoGoal = NoGoal
    MaxRetries <- MCMaxRetries
    Priority <- MCPriority
    Canceller = {c1}
    MaxConcurrent = 1
    MaxParks = 1
    MaxCrashes = 0
PROPERTIES
    GoalsSettle
CHECK_DEADLOCK FALSE
