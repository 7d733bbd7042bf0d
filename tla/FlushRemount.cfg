SPECIFICATION Spec
CONSTANTS
    Callers = {c1, c2}
    Options = {"flush_merge", "noflush_merge", "bad option"}
    RoFlags = {TRUE, FALSE}
    MaxRemounts = 2
    MaxIssing = 3
    InitMerge = TRUE
    NoBarrier = FALSE
    DevCounts = {0}
    IoErrors = FALSE
    Thread = thread
    Idle = Idle
SYMMETRY Symmetry
INVARIANTS
    FlushDurable
    OneThread
CHECK_DEADLOCK FALSE
