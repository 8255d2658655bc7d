\* Two status polls of the same job at the same time.
CONSTANTS
    Accounts = {a1}
    Credentials = {c1}
    Jobs = {j1}
    Sessions = {s1, s2}
    Replicas = {}
    Costs = {1}
    Readings = {2}
    Patches <- MCNoPatches
    KeyStatuses = {"active"}
    SerialWriters = TRUE
    None = None
    Keep = Keep
SYMMETRY MCSymmetry
SPECIFICATION Spec
INVARIANT SettledOnce
