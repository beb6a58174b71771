\* One user the directory knows, two names, two passwords, two goroutines.
CONSTANTS
    Users = {u1}
    RealNames = {n1, n2}
    Passwords = {p1, p2}
    Directory = {u1}
    Handlers = {h1, h2}
    Hours = 1
    MaxOrders = 1
    MaxRequests = 4
    MaxRestarts = 1
    Random = Random
    Nobody = Nobody
    None = None
SPECIFICATION FairSpec
INVARIANTS
    TypeOK
    DuplicatesAreConcurrent
    AccountHasGroups
    PasswordReachesDuplicates
    FreshDataIsTrue
PROPERTIES
    DeletedUserIsLockedOut
CHECK_DEADLOCK FALSE
