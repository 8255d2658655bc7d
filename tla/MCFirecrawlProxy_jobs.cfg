\* SQLite, an account with two keys: job submission, status polls and
\* cancellations beside synchronous calls.
CONSTANTS
    Accounts = {a1}
    Credentials = {c1, c2}
    Jobs = {j1}
    Sessions = {s1, s2}
    Replicas = {}
    Costs = {1}
    Readings = {2}
    Patches <- MCNoPatches
    KeyStatuses = {"active"}
    SerialWriters = TRUE
    None = None
    Keep = Keep
SYMMETRY MCSymmetry
SPECIFICATION Spec
INVARIANTS
    JobsKeepTheirKey
    SettledOnceUnlessOverlapped
PROPERTIES
    LedgerSpec
