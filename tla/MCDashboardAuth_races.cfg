CONSTANTS
    r1 = r1
    r2 = r2
    h1 = h1
    h2 = h2
    None = None
    Configs <- MCConfigs
    Replicas <- MCReplicas
    Handlers <- MCHandlers
    StepLength = 1
    SessionTtl = 1
    MaxTime = 2
    MaxCommits = 4
    MaxCrashes = 1
SPECIFICATION Spec
SYMMETRY MCSymmetry
INVARIANTS
    TypeOK
    OneSetupPerVacancy
    ReplicaSeesItsWrites
    RequiredTotpCanBeMet
    VacantHasToken
PROPERTIES
    NoReplay
CHECK_DEADLOCK FALSE
