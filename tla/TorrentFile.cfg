SPECIFICATION Spec
CONSTANTS
    q1 = q1
    q2 = q2
    q3 = q3
    a1 = a1
    a2 = a2
    b1 = b1
    A = A
    B = B
    Requests = {q1, q2, q3}
    Names = {A, B}
    Torrents = {a1, a2, b1}
    NameOf <- MCNameOf
    SizeOf <- MCSizeOf
    Mixed = Mixed
    None = None
    Clients = {"qbit", "transmission"}
    Faults = {"mam", "disk", "client", "lost"}
    UpdatesAnytime = FALSE
SYMMETRY Symmetry
INVARIANT TypeOK
INVARIANT IdOfRequest
INVARIANT FileWhole
