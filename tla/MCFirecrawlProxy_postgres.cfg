\* PostgreSQL, READ COMMITTED: no lock between the SELECT and the COMMIT.
CONSTANTS
    Accounts = {a1}
    Credentials = {c1}
    Jobs = {}
    Sessions = {s1, s2}
    Replicas = {}
    Costs = {1}
    Readings = {2}
    Patches <- MCNoPatches
    KeyStatuses = {"active"}
    SerialWriters = FALSE
    None = None
    Keep = Keep
SYMMETRY MCSymmetry
SPECIFICATION Spec
PROPERTY LedgerSpec
