SPECIFICATION FairSpec
CONSTANTS
    r1 = r1
    r2 = r2
    Rows = {r1}
    Unparsed = Unparsed
    NoCheck = NoCheck
    Limits = {2}
    Intervals = {1}
    IgnoreValues = {FALSE}
    DefaultLimit = 2
    DefaultInterval = 1
    MaxAge = 3
PROPERTY TimeLimitEnds
