\* Two invocations and a crash or interrupt; afterwards nothing runs.
CONSTANTS
    p1 = p1
    p2 = p2
    a = a
    b = b
    Procs = {p1, p2}
    CanSignal <- SameUser
    Dead = Dead
    None = None
    MaxRound = 2
    RoundTasks <- OneTask
    Reruns = FALSE
    MaxStops = 1
SPECIFICATION FairSpec
INVARIANTS
    OneWriter
PROPERTIES
    InvocationEnds
CHECK_DEADLOCK FALSE
