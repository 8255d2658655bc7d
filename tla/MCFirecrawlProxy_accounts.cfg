\* SQLite, one account: synchronous calls and submissions, the operator and a
\* refresh pass, in every interleaving.
CONSTANTS
    Accounts = {a1}
    Credentials = {c1}
    Jobs = {}
    Sessions = {s1, s2}
    Replicas = {r1}
    Costs = {1}
    Readings = {2}
    Patches <- MCPatches
    KeyStatuses = {"active", "paused", "invalid"}
    SerialWriters = TRUE
    None = None
    Keep = Keep
SYMMETRY MCSymmetry
SPECIFICATION Spec
INVARIANTS
    TypeOK
    RoutingRaisesOnlyIfTouched
PROPERTIES
    LedgerSpec
    OnlyOperatorRevives
