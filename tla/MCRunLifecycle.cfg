SPECIFICATION FairSpec
CONSTANTS
    Verdicts <- MCGuarded
    MaxAsked = 2
    MaxTools = 2
    MaxAttempts = 2
    MaxCalls = 3
    MaxCrashes = 1
INVARIANTS
    TypeOK
    ApprovalGate
    NoZombie
PROPERTIES
    
    
    CancelEnds
    CheckpointsCleaned
CHECK_DEADLOCK FALSE
