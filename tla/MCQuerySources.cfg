\* Two users, one request goroutine, one connection, two orders, one message.
CONSTANTS
    Users = {u1, u2}
    Sources = {s1}
    Handlers = {h1}
    Sockets = {k1}
    ExQueryTime = 1
    MaxOrders = 2
    MaxQueries = 1
    None = None
SPECIFICATION HistorySpec
SYMMETRY Alike
INVARIANTS
    TypeOK
    RunsUnderGrantedOrder
    SourceWasGranted
PROPERTIES
    ImplementsAccess
CHECK_DEADLOCK FALSE
