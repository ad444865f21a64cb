SPECIFICATION FairSpec
CONSTANTS
    Books = {1, 2}
    Links = {1, 2}
    LinkOf <- MCOneLink
    MaxTid = 2
    MaxId = 2
    Client = "qbit"
    ClientEvents = {"finish", "break", "logout"}
    Requests = {q1}
    Workers = {w1, w2}
    Calls = {"add", "retry", "edit"}
    MaxCalls = 3
    MaxCrashes = 1
    Faults = {"poll", "file"}
    IgnoreTimeout = TRUE
CHECK_DEADLOCK FALSE
PROPERTY InViewSettles
PROPERTY ResumedAfterCrash
PROPERTY MonitorEnds
PROPERTY AddLeavesRow
