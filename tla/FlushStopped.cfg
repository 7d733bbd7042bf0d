SPECIFICATION Spec
CONSTANTS
    Callers = {c1, c2}
    Options = {"noflush_merge"}
    RoFlags = {FALSE}
    MaxRemounts = 1
    MaxIssing = 4
    InitMerge = TRUE
    NoBarrier = FALSE
    DevCounts = {0}
    IoErrors = FALSE
    Thread = thread
    Idle = Idle
PROPERTIES
    QueuedIsServed
CHECK_DEADLOCK FALSE
