\* Liveness: two goroutines, two requests after the post, one restart.
CONSTANTS
    w1 = w1
    al = al
    alice = alice
    bob = bob
    h1 = h1
    h2 = h2
    h3 = h3
    None = None
    WorkIds <- MCWorkIds
    Users <- MCUsers
    Handlers = {h1, h2}
    LastStage = 2
    Auditor <- MCAuditor
    NameWithin <- MCNameWithin
    RpcAddr = TRUE
    MaxRequests = 3
    MaxRestarts = 1
SPECIFICATION FairSpec
PROPERTIES
    RejectionGetsItsReason
    ApprovalTakesEffect
CHECK_DEADLOCK FALSE
