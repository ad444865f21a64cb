SPECIFICATION FairSpec
CONSTANTS
    r1 = r1
    r2 = r2
    Rows = {r1, r2}
    Unparsed = Unparsed
    NoCheck = NoCheck
    Limits = {Unparsed}
    Intervals = {0, Unparsed}
    IgnoreValues = {TRUE, FALSE}
    DefaultLimit = 1
    DefaultInterval = 2
    MaxAge = 3
INVARIANT TypeOK
PROPERTY GivenUpLate
PROPERTY ShortLimitEnds
