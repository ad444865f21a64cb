SPECIFICATION FairSpec
CONSTANTS
    l1 = l1
    l2 = l2
    l3 = l3
    Loops = {l1, l2, l3}
    MaxCalls = 2
CHECK_DEADLOCK FALSE
INVARIANT TypeOK
INVARIANT ALoopStays
PROPERTY TriggerServed
PROPERTY StopTaken
