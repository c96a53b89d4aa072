SPECIFICATION Spec
CONSTANTS
    c1 = c1
    c2 = c2
    loop = loop
    tool = tool
    p1 = p1
    p2 = p2
    NoCall = NoCall
    NoProc = NoProc
    Call = {c1, c2}
    Locking = {c1, c2}
    Target <- MCTarget
    Proc = {p1, p2}
    Watched = {p1}
    Windowed = {p1}
    Checker = {loop, tool}
    MaxRecovery = 3
    AutoRestart = TRUE
    MaxFreezes = 1
    MaxAdds = 1
INVARIANTS
    TypeOK
    OneInControl
    
    KillComesLast
SYMMETRY MCSymmetry
CHECK_DEADLOCK FALSE
