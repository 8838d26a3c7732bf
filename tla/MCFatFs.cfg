\* All operations, no failing write; the disk runs full, and the FAT has one
\* entry more than the disk has clusters.
SPECIFICATION Spec
CONSTANTS
    LastData = 5
    LastEntry = 6
    NumFats = 2
    ClusterUnits = 2
    Names <- MCNames
    Short <- FitShort
    Paths <- MCPaths
    DirPaths <- MCPaths
    Payloads <- MCPayloads
    Labelled = TRUE
    InfoAtMount <- InfoKnown
    MaxUnits = 3
    MaxFaults = 0
INVARIANTS
    TypeOK
    ChainsAcyclic
    ChainsComplete
    FsInfoBounds
PROPERTIES
    StoreSpec
    NoLeakOnSuccess
