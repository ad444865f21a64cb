SPECIFICATION FairSpec
CONSTANTS
    Books = {1}
    Links = {1, 2}
    LinkOf <- MCOneLink
    MaxTid = 2
    MaxId = 2
    Client = "transmission"
    ClientEvents = {"finish"}
    Requests = {q1}
    Workers = {w1, w2}
    Calls = {"add"}
    MaxCalls = 1
    MaxCrashes = 0
    Faults = {}
    IgnoreTimeout = TRUE
CHECK_DEADLOCK FALSE
PROPERTY DownloadingSettles
