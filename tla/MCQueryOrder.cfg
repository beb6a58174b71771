\* Liveness: one user, one request goroutine, one connection, two orders, one message.
CONSTANTS
    Users = {u1}
    Sources = {s1}
    Handlers = {h1}
    Sockets = {k1}
    ExQueryTime = 1
    MaxOrders = 2
    MaxQueries = 1
    None = None
SPECIFICATION FairSpec
PROPERTIES
    ExpiredIsEnded
    RunIsRecorded
CHECK_DEADLOCK FALSE
