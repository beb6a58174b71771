\* Two processes, three commands, one of them stopped.
CONSTANTS
    Processes = {p1, p2}
    Tables <- MCTables
    MaxCommands = 3
    MaxStops = 1
    None = None
SPECIFICATION Spec
INVARIANTS
    ServesUpToDate
PROPERTIES
    UnmanagedStays
    
CHECK_DEADLOCK FALSE
