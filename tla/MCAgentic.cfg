SPECIFICATION Spec
CONSTANTS
    Groq = TRUE
    FastTier = FALSE
    Turns <- MCTurns
    Branch = {b1, b2}
    Complexity <- MCBoth
    MaxSteps = 2
    MaxTurns = 2
    MaxReplies = 1
    MaxResumes = 1
INVARIANTS
    TypeOK
    AnsweredBeforeAsked
    
    PostsBounded
    NoBranchLeft
PROPERTIES
    
    InvocationsEnd
CHECK_DEADLOCK FALSE
