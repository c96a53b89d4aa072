SPECIFICATION Spec
CONSTANTS
    c1 = c1
    c2 = c2
    Client <- MCClient
    MaxCopies = 2
    MaxPipes = 2
    MaxCalls = 3
SYMMETRY MCSymmetry
INVARIANTS
    DeletedStaysDeleted
CHECK_DEADLOCK FALSE
