SPECIFICATION Spec
CONSTANTS
    Groq = FALSE
    FastTier = TRUE
    Turns <- MCTurns
    Branch = {b1, b2}
    Complexity <- MCAsStands
    MaxSteps = 1
    MaxTurns = 1
    MaxReplies = 1
    MaxResumes = 0
INVARIANTS
    FallbackHasCause
CHECK_DEADLOCK FALSE
