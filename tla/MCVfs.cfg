\* A read-only root, a TmpFs and two DevFs, mounted and unmounted in every order
\* at nested and shadowing places of a mount table with room for three.
SPECIFICATION Spec
CONSTANTS
    Names <- MCNames
    Begins <- MCBegins
    MaxDepth = 2
    Payloads <- MCPayloads
    MaxLen = 1
    Kind <- MCKind
    DevA = DevA
    DevB = DevB
    Boot <- MCBoot
    Prefixes <- MCPrefixes
    MaxMounts = 3
    Seed <- MCSeed
    DevOk = {"t"}
    DevIo = {"tx"}
SYMMETRY Alike
INVARIANTS
    TypeOK
    ResolvesToLongest
    ListingIsNamespace
PROPERTY
    OneTargetAtATime
