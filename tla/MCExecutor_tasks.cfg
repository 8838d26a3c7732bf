\* The shell, as kernel_main spawns it, among tasks that yield (as in
\* tests/executor_multitask.rs) and that may finish and leave it alone.  The run
\* queue has room for two of them besides the shell; the spawn of a third
\* panics, which stops the machine.
SPECIFICATION Spec
CONSTANTS
    QCap = 3
    SCap = 2
    MaxKeys = 5
    Shell = Shell
    NoTask = NoTask
    Yielders = {y1, y2, y3}
    y1 = y1
    y2 = y2
    y3 = y3
CHECK_DEADLOCK FALSE
INVARIANTS
    TypeOK
    NoSleepWithWork
    ShellWillBePolled
    ShellNeverLost
    YieldersInRotation
    KeysInOrder
PROPERTIES
    FifoSpec
    RotationIsFair
