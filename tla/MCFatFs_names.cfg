\* A caller that uses a name longer than 8.3.
SPECIFICATION Spec
CONSTANTS
    LastData = 5
    LastEntry = 6
    NumFats = 2
    ClusterUnits = 2
    Names <- LongNames
    Short <- LongShort
    Paths <- LongPaths
    DirPaths <- LongPaths
    Payloads <- MCPayloads
    Labelled = TRUE
    InfoAtMount <- InfoKnown
    MaxUnits = 3
    MaxFaults = 0
INVARIANT
    NamesUnique
