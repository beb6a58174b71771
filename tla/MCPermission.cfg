\* One user, two groups, one source, two clean-ups at a time, one restart.
CONSTANTS
    u1 = u1
    g1 = g1
    g2 = g2
    s1 = s1
    name1 = name1
    None = None
    Users = {u1}
    GroupIds = {g1, g2}
    SourceIds = {s1}
    SourceName <- MCName
    PermissionLists <- MCPermissionLists
    Memberships <- MCMemberships
    Handlers = {h1, h2}
    MaxRequests = 6
    MaxRestarts = 1
SPECIFICATION FairSpec
INVARIANTS
    TypeOK
    PermissionsWereGiven
PROPERTIES
    DeletionReachesGroups
    ComesBackOnlyFromACopy
    ClearReachesUsers
CHECK_DEADLOCK FALSE
