SPECIFICATION Spec
CONSTANTS
    Callers = {c1, c2}
    Options = {}
    RoFlags = {FALSE}
    MaxRemounts = 0
    MaxIssing = 4
    InitMerge = TRUE
    NoBarrier = FALSE
    DevCounts = {0, 2}
    IoErrors = TRUE
    Thread = thread
    Idle = Idle
INVARIANTS
    TypeOK
    FlushDurable
    CmdAlive
    CountExact
PROPERTIES
    CallReturns
