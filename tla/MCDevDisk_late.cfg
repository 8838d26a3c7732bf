\* The drive answers a command after the driver has given it up.
SPECIFICATION Spec
CONSTANTS
    Sectors = 2
    Values = {"a", "b"}
    PollLimit = 2
    Bpb <- MCBpb
    MaxBlocks = 2
PROPERTY
    ReadsTheBlockAsked
