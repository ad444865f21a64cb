SPECIFICATION FairSpec
CONSTANTS
    h1 = h1
    h2 = h2
    a = a
    d = d
    r = r
    Zero = Zero
    Torn = Torn
    NoOne = NoOne
    Main = Main
    Values = {Zero, a, d, r}
    Handlers = {h1, h2}
    Calls <- CallsMC
    Default <- DefaultMC
    Sent <- SentMC
    Absolute <- AbsoluteMC
    Overrides <- OverridesMC
    Faults = {"read", "scan", "mkdir", "create", "open", "write"}
INVARIANT TypeOK
INVARIANT SettingsKept
PROPERTY SettingsSurvive
PROPERTY RequestsEnd
