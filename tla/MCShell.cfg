\* The file systems of a booted kernel and every command line of the shell
\* with an argument of up to two segments.
SPECIFICATION ShellSpec
CONSTANTS
    Names <- MCNames
    Begins <- MCBegins
    MaxDepth = 2
    Payloads <- MCPayloads
    MaxLen = 1
    Kind <- MCKind
    Boot <- MCBoot
    Prefixes = {}
    MaxMounts = 4
    Seed <- MCSeed
    DevOk = {}
    DevIo = {}
    Tmp = "tmp"
    MaxArg = 2
INVARIANTS
    NoStrandedNodes
PROPERTIES
    CwdLostOnlyByItsRemoval
    TmpStoreSpec
