\* Two approvals of the last stage, one order, two jobs.
CONSTANTS
    w1 = w1
    al = al
    alice = alice
    bob = bob
    h1 = h1
    h2 = h2
    h3 = h3
    None = None
    WorkIds <- MCWorkIds
    Users <- MCUsers
    Handlers = {h1, h2}
    LastStage = 2
    Auditor <- MCAuditor
    NameWithin <- MCNameWithin
    RpcAddr = TRUE
    MaxRequests = 4
    MaxRestarts = 0
SPECIFICATION Spec
INVARIANT HandedOverOnce
CHECK_DEADLOCK FALSE
