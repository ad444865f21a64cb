SPECIFICATION Spec
CONSTANTS
    Books = {1, 2}
    Links = {1, 2}
    LinkOf <- MCOneLink
    MaxTid = 2
    MaxId = 2
    Client = "transmission"
    ClientEvents = {"finish", "pause", "resume", "remove", "restart"}
    Requests = {q1, q2}
    Workers = {w1, w2}
    Calls = {"add", "retry", "edit"}
    MaxCalls = 2
    MaxCrashes = 1
    Faults = {"boot", "connect", "file", "add", "save", "load", "poll", "link", "recheck"}
    IgnoreTimeout = FALSE
CHECK_DEADLOCK FALSE
INVARIANT TypeOK
INVARIANT OneMonitor
INVARIANT OneCheckPerRow
