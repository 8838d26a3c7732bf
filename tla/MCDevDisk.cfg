SPECIFICATION Spec
CONSTANTS
    Sectors = 2
    Values = {"a", "b"}
    PollLimit = 2
    Bpb <- MCBpb
    MaxBlocks = 2
INVARIANTS
    TypeOK
    TransferIsPrefix
PROPERTIES
    BlockSpec
    FailStop
    CallsReturn
