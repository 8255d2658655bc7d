CONSTANTS
    r1 = r1
    r2 = r2
    h1 = h1
    h2 = h2
    None = None
    Configs <- MCPassword
    Replicas <- MCReplicas
    Handlers <- MCHandlers
    StepLength = 3
    SessionTtl = 1
    MaxTime = 3
    MaxCommits = 7
    MaxCrashes = 1
SPECIFICATION Spec
SYMMETRY MCSymmetry
PROPERTIES
    TokenStaysValid
CHECK_DEADLOCK FALSE
