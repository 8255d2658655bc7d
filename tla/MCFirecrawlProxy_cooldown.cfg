\* An operator puts a cooldown on an account.
CONSTANTS
    Accounts = {a1, a2}
    Credentials = {c1}
    Jobs = {}
    Sessions = {s1, s2}
    Replicas = {}
    Costs = {1}
    Readings = {2}
    Patches <- MCSetCooldown
    KeyStatuses = {"active"}
    SerialWriters = TRUE
    None = None
    Keep = Keep
SYMMETRY MCSymmetry
SPECIFICATION Spec
INVARIANT CooldownExcludesOnlyItsAccount
