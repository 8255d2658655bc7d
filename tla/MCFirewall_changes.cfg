CONSTANTS
    r1 = r1
    r2 = r2
    office = office
    client = client
    h1 = h1
    a1 = a1
    a2 = a2
    None = None
    Addresses = {client}
    Listable = {office}
    Replicas = {r1, r2}
    Handlers = {h1}
    Admins = {a1, a2}
    MaxChanges = 2
    MaxRestarts = 1
SPECIFICATION Spec
INVARIANTS
    TypeOK
    ToldIsForgotten
PROPERTIES
    PollMissesNothing
    Converges
CHECK_DEADLOCK FALSE
