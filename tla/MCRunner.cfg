\* Two processes at a time and four in all; a run that is over is over.
SPECIFICATION Spec
CONSTANTS
    Pids = {p1, p2}
    p1 = p1
    p2 = p2
    MaxStarts = 4
SYMMETRY
    PidSymmetry
CHECK_DEADLOCK FALSE
INVARIANT
    SomethingToMount
PROPERTY
    UserFilesKept
