SPECIFICATION Spec
CONSTANTS
    LastData = 5
    LastEntry = 5
    NumFats = 2
    ClusterUnits = 2
    Names <- MCNames
    Short <- FitShort
    Paths <- MCPaths
    DirPaths <- MCPaths
    Payloads <- MCPayloads
    Labelled = TRUE
    InfoAtMount <- InfoKnown
    MaxUnits = 3
    MaxFaults = 0
INVARIANT
    FsInfoExact
