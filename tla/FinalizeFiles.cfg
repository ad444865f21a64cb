SPECIFICATION Spec
CONSTANTS
    d1 = d1
    d2 = d2
    Downloads = {d1, d2}
    FilesOf <- MCFilesOf
    DestOf <- MCOneFolder
    Linkable = {d1}
    Faults = {"link", "chmod", "space"}
    MaxRuns = 3
    MaxMishaps = 1
CHECK_DEADLOCK FALSE
INVARIANT TypeOK
INVARIANT PlacedWhole
INVARIANT SourceKept
PROPERTY PlacementSpec
