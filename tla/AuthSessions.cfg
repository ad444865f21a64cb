SPECIFICATION Spec
CONSTANTS
    q1 = q1
    q2 = q2
    admin = admin
    other = other
    Names = {admin, other}
    DefaultAdmin = admin
    MaxSessions = 2
    Requests = {q1, q2}
    Faults = {"create", "delete"}
    MaxUser = 2
    MaxSession = 3
    MaxStops = 1
CHECK_DEADLOCK FALSE
SYMMETRY Symmetry
INVARIANT TypeOK
INVARIANT SessionLimit
INVARIANT KeepsRecent
