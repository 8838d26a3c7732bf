\* Up to two block writes fail, at any points of any operations, and the kernel
\* goes on.  A behaviour ends only where an operation touches a damaged path
\* after its clusters may have been given to others.
SPECIFICATION Spec
CONSTANTS
    LastData = 4
    LastEntry = 4
    NumFats = 2
    ClusterUnits = 2
    Names <- MCNames
    Short <- FitShort
    Paths <- MCPaths
    DirPaths <- OneDir
    Payloads <- SmallPayloads
    Labelled = FALSE
    InfoAtMount <- InfoUnknown
    MaxUnits = 1
    MaxFaults = 2
INVARIANTS
    FatsMirrored
    NoCrossLinks
    DamageConfined
    EntryPublishedLast
    DirectoriesWellFormed
PROPERTIES
    OperationsReturn
