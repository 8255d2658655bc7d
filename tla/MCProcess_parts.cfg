CONSTANTS
    q1 = q1
    q2 = q2
    q3 = q3
    Requests = {q1, q2, q3}
    ProxyLimit = 1
    DashboardLimit = 2
    MaxConcurrent = 2
    ServerCancels = TRUE
    c1 = c1
    c2 = c2
    c3 = c3
    Calls = {c1, c2, c3}
    FailureThreshold = 2
    SuccessThreshold = 2
    RecoveryTimeout = 2
    MaxClock = 5
    MaxFailures = 4
    MaxRetries = 2
    Window = 2
    MaxSeconds = 6
    Candidates = {c1, c2}
    Nobody = Nobody
    Ttl = 2
    MaxWall = 6
    localhost = localhost
    proxy = proxy
    remote = remote
    sidecar = sidecar
    Hosts = {localhost, sidecar, proxy, remote}
    TrustedProxies = {localhost, proxy}
    Loopback = {localhost, sidecar}
    Garbage = Garbage
    NoHost = NoHost
    MaxForged = 2
    MaxHops = 2
    Keys = {k1, k2}
    Handlers = {h1, h2}
    RowIds = {r1, r2, r3, r4}
    MaxAttempts = 2
    AttemptWindow = 2
    MaxTime = 4
    NoKey = NoKey
SPECIFICATION Spec
INVARIANTS
    PermitsAccounted
    InFlightAccounted
    QuietMeansIdle
    OneProbe
    CountersFitState
    BudgetKept
    LeaseIsExclusive
    ClientIsFound
    LocalIsLocal
    ActorFromProxy
    WindowBound
PROPERTIES
    ShutdownEnds
CHECK_DEADLOCK FALSE
