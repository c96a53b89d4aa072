SPECIFICATION FairSpec
CONSTANTS
    altA = altA
    altB = altB
    use = use
    read = read
    guess = guess
    pip = pip
    Task = {altA, altB, use, read, guess, pip}
    Deps <- MCDeps
    SortPlace <- MCSortPlace
    Group <- MCGroup
    NoGroup = "none"
    Speculative = {guess}
    Mutating = {altA, altB}
    MaxParallel = 2
    NoTask = NoTask
    Verdict <- MCVerdict
    InstallFor <- MCInstallFor
    MaxAttempts = 2
    MaxCrashes = 1
INVARIANTS
    TypeOK
    MutatorsAlone
    
    OneAlternative
PROPERTIES
    DependenciesFirst
    
    PipelineEnds
CHECK_DEADLOCK FALSE
