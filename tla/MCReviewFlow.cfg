\* One order, one source, two templates, two goroutines, one restart.
CONSTANTS
    a = a
    b = b
    None = None
    NoFlow = NoFlow
    Unused = Unused
    Sources = {s1}
    TplIds = {t1, t2}
    WorkIds = {w1}
    EmptyId = EmptyId
    Accounts = {a, b}
    StepLists <- MCStepLists
    Handlers = {h1, h2}
    MaxRequests = 4
    MaxRestarts = 1
SPECIFICATION Spec
SYMMETRY MCSymmetry
INVARIANTS
    TypeOK
    
    
    StepsPageFailsOnlyOnExtraEntries
PROPERTIES
    EditMeetsOnlyLatePosts
    StrandedOrderWaits
    DeletedAuditorWasJustSaved
CHECK_DEADLOCK FALSE
