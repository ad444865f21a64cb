SPECIFICATION Spec
CONSTANTS
    Books = {1, 2}
    Links = {1, 2}
    LinkOf <- MCOwnLink
    MaxTid = 2
    MaxId = 2
    Client = "transmission"
    ClientEvents = {"finish", "remove"}
    Requests = {q1}
    Workers = {w1, w2}
    Calls = {"add", "retry", "delete"}
    MaxCalls = 3
    MaxCrashes = 1
    Faults = {"link", "boot", "add"}
    IgnoreTimeout = FALSE
CHECK_DEADLOCK FALSE
INVARIANT CompletedIsPlaced
INVARIANT IdNamesOneBook
PROPERTY SettledStays
PROPERTY LifecycleSpec
