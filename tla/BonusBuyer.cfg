SPECIFICATION BuySpec
CONSTANTS
    l1 = l1
    Loops = {l1}
    MaxCalls = 0
    PointsPerGB = 2
    Block = 2
    KeepValues <- MCKeep
    Faults = {"refused", "lost", "profile"}
    MaxPoints = 14
    MaxHand = 2
CHECK_DEADLOCK FALSE
INVARIANT BuyTypeOK
INVARIANT SurplusOnly
