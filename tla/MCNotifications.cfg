\* A template of three stages, two goroutines, a failed send, a restart.
CONSTANTS
    al = al
    bob = bob
    cat = cat
    dan = dan
    h1 = h1
    h2 = h2
    None = None
    Users = {al, bob, cat, dan}
    Submitter = al
    HasMail = {al, bob, cat}
    Auditor <- MCAuditor
    LastStage = 3
    Handlers = {h1, h2}
    Chinese = TRUE
    MaxRequests = 3
    MaxLost = 1
    MaxRestarts = 1
SPECIFICATION Spec
SYMMETRY Goroutines
INVARIANTS
    StageIsAnnounced
    UndoneIsNotInReview
CHECK_DEADLOCK FALSE
